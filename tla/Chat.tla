-------------------------------- MODULE Chat --------------------------------
(***************************************************************************)
(* The chat of LCA2014: a goroutine per client reads its messages into a   *)
(* buffered channel; part2 has one manager that writes each to all         *)
(* clients, part3 two, one in lower and one in upper case.  main appends   *)
(* to the slice of clients that the managers read, without a lock.         *)
(***************************************************************************)
EXTENDS Integers, Sequences
LOCAL INSTANCE SequencesExt

CONSTANTS Parts,        \* the programs to look at
          Clients,
          Deaf,         \* those that may stop reading their connection
          Capacity,     \* of the channel input, 10 in the code
          MaxSaid       \* bound: messages of a client

VARIABLES part,
          clients,      \* the slice
          accepted,     \* the client main is appending, or nobody
          reading,      \* each handleClient: the message it is to send, or 0
          said,
          input,
          manager,      \* each manager: what it writes, and to whom it still has to
          heard,        \* history: what each client was sent
          panicked      \* a manager has read a half-written slice

chatVars == <<part, clients, accepted, reading, said, input, manager, heard, panicked>>

Managers(p) == IF p = 2 THEN {"as is"} ELSE {"lower", "upper"}

Free == [msg |-> <<>>, to |-> <<>>]

ChatInit ==
    /\ part \in Parts /\ clients = <<>> /\ accepted = <<>>
    /\ reading = [c \in Clients |-> 0] /\ said = [c \in Clients |-> 0] /\ input = <<>>
    /\ manager = [m \in Managers(part) |-> Free]
    /\ heard = [c \in Clients |-> <<>>] /\ panicked = FALSE

(***************************************************************************)
(* main                                                                    *)
(***************************************************************************)
Accept(c) ==
    /\ accepted = <<>> /\ c \notin ToSet(clients) /\ accepted' = <<c>>
    /\ UNCHANGED <<part, clients, reading, said, input, manager, heard, panicked>>

\* The end of the append; handleClient starts.
AppendClient ==
    /\ accepted # <<>> /\ clients' = clients \o accepted /\ accepted' = <<>>
    /\ UNCHANGED <<part, reading, said, input, manager, heard, panicked>>

(***************************************************************************)
(* handleClient                                                            *)
(***************************************************************************)
Read(c) ==
    /\ c \in ToSet(clients) /\ reading[c] = 0 /\ said[c] < MaxSaid
    /\ said' = [said EXCEPT ![c] = @ + 1] /\ reading' = [reading EXCEPT ![c] = said'[c]]
    /\ UNCHANGED <<part, clients, accepted, input, manager, heard, panicked>>

SendInput(c) ==
    /\ reading[c] # 0 /\ Len(input) < Capacity
    /\ input' = Append(input, <<c, reading[c]>>) /\ reading' = [reading EXCEPT ![c] = 0]
    /\ UNCHANGED <<part, clients, accepted, said, manager, heard, panicked>>

(***************************************************************************)
(* chatManager                                                             *)
(***************************************************************************)
\* The slices that range may find: before or after an append that is going on.
Lists == {clients, clients \o accepted}

Take(m) ==
    /\ manager[m] = Free /\ input # <<>> /\ input' = Tail(input)
    /\ \E list \in Lists : manager' = [manager EXCEPT ![m] = IF list = <<>> THEN Free
                                                              ELSE [msg |-> Head(input), to |-> list]]
    /\ UNCHANGED <<part, clients, accepted, reading, said, heard, panicked>>

\* ... or one with the pointer of the one and the length of the other.
TakeTorn(m) ==
    /\ manager[m] = Free /\ input # <<>> /\ accepted # <<>> /\ panicked' = TRUE
    /\ UNCHANGED <<part, clients, accepted, reading, said, input, manager, heard>>

\* client.Write has no deadline.  It returns when the data are buffered, which
\* they need not be, ever, for a client that does not read.
Stuck(m) == m \in Managers(part) /\ manager[m] # Free /\ Head(manager[m].to) \in Deaf

\* Mutant: the first client is left out.
WriteRest(m) ==
    /\ manager[m] # Free
    /\ heard' = IF Head(manager[m].to) = clients[1] THEN heard
                ELSE [heard EXCEPT ![Head(manager[m].to)] = Append(@, manager[m].msg)]
    /\ manager' = [manager EXCEPT ![m] = IF Len(@.to) = 1 THEN Free ELSE [@ EXCEPT !.to = Tail(@)]]
    /\ UNCHANGED <<part, clients, accepted, reading, said, input, panicked>>

Write(m) ==
    /\ manager[m] # Free
    /\ heard' = [heard EXCEPT ![Head(manager[m].to)] = Append(@, manager[m].msg)]
    /\ manager' = [manager EXCEPT ![m] = IF Len(@.to) = 1 THEN Free ELSE [@ EXCEPT !.to = Tail(@)]]
    /\ UNCHANGED <<part, clients, accepted, reading, said, input, panicked>>

ManagerStep(m) == m \in Managers(part) /\ (Take(m) \/ Write(m))

ChatNext ==
    /\ ~panicked
    /\ \/ AppendClient
       \/ \E c \in Clients : Accept(c) \/ Read(c) \/ SendInput(c)
       \/ \E m \in Managers(part) : ManagerStep(m) \/ TakeTorn(m)

(***************************************************************************)
(* Properties                                                              *)
(***************************************************************************)
\* What a client says is sent to every client that had joined by then, unless
\* a manager read the slice while it changed, or stays for ever in a Write to
\* a client that does not read (main, chatManager, handleClient).
EveryoneHears ==
    (\A m \in {"as is", "lower", "upper"} : []<>~Stuck(m)) =>
        \A c, d \in Clients, n \in 1 .. MaxSaid :
            (c \in ToSet(clients) /\ reading[d] = n) ~> (panicked \/ <<d, n>> \in ToSet(heard[c]))
=============================================================================
