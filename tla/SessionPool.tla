----------------------------- MODULE SessionPool -----------------------------
(***************************************************************************)
(* The pool of FIX session ids that the admin gateway hands out            *)
(* (src/src/admin/AdminGateway.cpp), and the programs that claim an id,    *)
(* use it and give it back: UI servers and benchmarks.                     *)
(*                                                                         *)
(* The admin thread serves one connection after the other, so a command    *)
(* waits until the connections before it are closed.  A client gives up    *)
(* after a few seconds and closes its end.  Its command is already in the  *)
(* socket and is served all the same; the answer goes nowhere.             *)
(***************************************************************************)
EXTENDS Naturals, Sequences, FiniteSets

CONSTANTS
    Pool,       \* the ids, in the order of the std::set
    Clients,    \* the programs; each runs, ends, and may be started again
    NoId,       \* no id: not holding one, or none to be had
    NoAnswer,   \* a command that has not been served
    Ok          \* the answer OK

ASSUME PoolAssumption == Pool \subseteq Nat /\ NoId \notin Pool /\ NoAnswer \notin Pool \cup {NoId, Ok}

VARIABLES
    available_,   \* ids that can be claimed
    calls,        \* accepted or waiting connections, with the command each has sent
    held          \* client -> the id it has been given and uses

poolvars == << available_, calls, held >>

Claim == [op |-> "CLAIM-SESSION"]
Release(id) == [op |-> "RELEASE-SESSION", id |-> id]

PoolInit ==
    /\ available_ = Pool
    /\ calls = << >>
    /\ held = [c \in Clients |-> NoId]

---------------------------------------------------------------------------
(* The admin thread                                                        *)

\* The command whose turn it is.
Pending(op) == calls # << >> /\ Head(calls).answer = NoAnswer /\ Head(calls).cmd.op = op

\* The answer is sent; a connection that its client has closed is done with.
Answer(a) ==
    calls' = IF Head(calls).live THEN [calls EXCEPT ![1].answer = a] ELSE Tail(calls)

\* Mutation of ServeClaim: the id stays in the set.
ServeClaimKeepsId ==
    /\ Pending("CLAIM-SESSION") /\ available_ # {}
    /\ Answer(CHOOSE i \in available_ : \A j \in available_ : i <= j)
    /\ UNCHANGED << available_, held >>

ServeClaim ==
    /\ Pending("CLAIM-SESSION")
    /\ IF available_ = {}
       THEN Answer(NoId) /\ UNCHANGED available_
       ELSE LET id == CHOOSE i \in available_ : \A j \in available_ : i <= j
            IN  Answer(id) /\ available_' = available_ \ {id}
    /\ UNCHANGED held

\* Nothing records who has claimed an id: whoever names it gives it back.
ServeRelease ==
    /\ Pending("RELEASE-SESSION")
    /\ available_' = available_ \cup ({Head(calls).cmd.id} \cap Pool)
    /\ Answer(Ok)
    /\ UNCHANGED held

---------------------------------------------------------------------------
(* The clients                                                             *)

\* A program makes one call at a time.
Idle(c) == \A i \in DOMAIN calls : ~(calls[i].client = c /\ calls[i].live)

\* admin_send, _admin_cmd: connect and send the command.
Call(c, cmd) ==
    /\ Idle(c)
    /\ calls' = Append(calls, [client |-> c, cmd |-> cmd, live |-> TRUE, answer |-> NoAnswer])

\* The answer is read and the connection closed.
Answered(c, op) ==
    /\ calls # << >>
    /\ Head(calls).client = c /\ Head(calls).live
    /\ Head(calls).answer # NoAnswer /\ Head(calls).cmd.op = op
    /\ calls' = Tail(calls)

\* The client's end is closed without the answer: it has waited too long, or is killed.
HangUp(c) ==
    calls' = IF calls # << >> /\ Head(calls).client = c /\ Head(calls).live
                 /\ Head(calls).answer # NoAnswer
             THEN Tail(calls)
             ELSE [i \in DOMAIN calls |->
                      IF calls[i].client = c THEN [calls[i] EXCEPT !.live = FALSE] ELSE calls[i]]

ClaimSession(c) ==
    /\ held[c] = NoId
    /\ Call(c, Claim)
    /\ UNCHANGED << available_, held >>

\* The answer is an id, or the program ends.
Claimed(c) ==
    /\ Answered(c, "CLAIM-SESSION")
    /\ held' = [held EXCEPT ![c] = Head(calls).answer]
    /\ UNCHANGED available_

\* The program has logged out and closed its connection when it releases.
ReleaseSession(c) ==
    /\ held[c] # NoId
    /\ Call(c, Release(held[c]))
    /\ held' = [held EXCEPT ![c] = NoId]
    /\ UNCHANGED available_

Released(c) ==
    /\ Answered(c, "RELEASE-SESSION")
    /\ UNCHANGED << available_, held >>

\* The program ends, wherever it is: an exception, an interrupt, or a timeout of its call.
\* Nothing gives back the id it holds or is about to be given.
Die(c) ==
    /\ held[c] # NoId \/ ~Idle(c)
    /\ HangUp(c)
    /\ held' = [held EXCEPT ![c] = NoId]
    /\ UNCHANGED available_

PoolServe == ServeClaim \/ ServeRelease

PoolNext ==
    \/ PoolServe
    \/ \E c \in Clients :
           ClaimSession(c) \/ Claimed(c) \/ ReleaseSession(c) \/ Released(c) \/ Die(c)

PoolSpec == PoolInit /\ [][PoolNext]_poolvars

---------------------------------------------------------------------------

\* The connections of the backlog and their commands.
Cmd == [op : {"CLAIM-SESSION"}] \cup [op : {"RELEASE-SESSION"}, id : Pool]
Conn == [client : Clients, cmd : Cmd, live : BOOLEAN, answer : Pool \cup {NoId, NoAnswer, Ok}]

PoolTypeOK ==
    /\ available_ \subseteq Pool
    /\ held \in [Clients -> Pool \cup {NoId}]
    /\ calls \in Seq(Conn)

\* No two programs use the same id at the same time, and an id in use cannot be claimed,
\* whatever timeouts and interrupted programs leave behind in the admin gateway's backlog.
OneHolder ==
    \A c \in Clients :
        held[c] # NoId =>
            /\ held[c] \notin available_
            /\ \A d \in Clients : held[d] = held[c] => d = c
=============================================================================
