-------------------------- MODULE SessionPoolProofs --------------------------
(***************************************************************************)
(* The pool hands out an id once, for any number of ids and programs, and  *)
(* whatever interrupted programs leave in the admin gateway's backlog.     *)
(*                                                                         *)
(* An id is in at most one place: free, on its way to a program in an      *)
(* answer that has not been read, held, or on its way back in a release    *)
(* that has not been served.  Or in none, when its program was killed.     *)
(***************************************************************************)
EXTENDS SessionPool, SequenceTheorems, WellFoundedInduction, TLAPS

\* Places of the backlog.
Releasing(i) ==
    i \in DOMAIN calls /\ calls[i].answer = NoAnswer /\ calls[i].cmd.op = "RELEASE-SESSION"

Granted(i) ==
    /\ i \in DOMAIN calls /\ calls[i].cmd.op = "CLAIM-SESSION"
    /\ calls[i].answer # NoAnswer /\ calls[i].answer # NoId

\* A release on its way is the only place of its id.
ReleasingOnce ==
    \A i \in DOMAIN calls : Releasing(i) =>
        /\ calls[i].cmd.id \notin available_
        /\ \A c \in Clients : held[c] # calls[i].cmd.id
        /\ \A j \in DOMAIN calls : Releasing(j) /\ calls[j].cmd.id = calls[i].cmd.id => i = j

\* An answer on its way is the only place of its id, and is that of the first connection.
GrantedOnce ==
    \A i \in DOMAIN calls : Granted(i) =>
        /\ i = 1
        /\ calls[i].answer \in Pool
        /\ calls[i].answer \notin available_
        /\ \A c \in Clients : held[c] # calls[i].answer
        /\ \A j \in DOMAIN calls : Releasing(j) => calls[j].cmd.id # calls[i].answer

IInv == PoolTypeOK /\ OneHolder /\ ReleasingOnce /\ GrantedOnce

---------------------------------------------------------------------------

\* The first id of a std::set that is not empty is one of its ids.
LEMMA FirstAvailable ==
    ASSUME NEW S, S \subseteq Nat, S # {}
    PROVE  (CHOOSE i \in S : \A j \in S : i <= j) \in S
<1>1. \E x \in S : \A y \in S : ~(<< y, x >> \in OpToRel(<, Nat))
  BY WFMin, NatLessThanWellFounded, Zenon
<1>2. PICK x \in S : \A y \in S : ~(<< y, x >> \in OpToRel(<, Nat))
  BY <1>1, Zenon
<1>3. \A y \in S : ~(y < x)
  BY <1>2, Zenon DEF OpToRel
<1>4. x \in Nat /\ \A y \in S : y \in Nat
  OBVIOUS
<1>5. \A y \in S : x <= y
  BY <1>3, <1>4
<1> QED BY <1>5

\* Every id is free at the start.
LEMMA PoolInitIInv == PoolInit => IInv
  BY PoolAssumption DEF PoolInit, IInv, PoolTypeOK, OneHolder, ReleasingOnce, GrantedOnce,
                        Releasing, Granted

\* A release names an id of the pool.
LEMMA ReleasingPool ==
    ASSUME IInv
    PROVE  \A i \in DOMAIN calls : Releasing(i) => calls[i].cmd.id \in Pool
<1> SUFFICES ASSUME NEW i \in DOMAIN calls, Releasing(i) PROVE calls[i].cmd.id \in Pool
  OBVIOUS
<1>1. calls[i] \in Conn
  BY DEF IInv, PoolTypeOK
<1>2. calls[i].cmd \in Cmd
  BY <1>1 DEF Conn
<1>3. calls[i].cmd \in [op : {"RELEASE-SESSION"}, id : Pool]
  BY <1>2 DEF Cmd, Releasing
<1> QED BY <1>3

\* The first connection is closed: the places of the others move up by one, and none of
\* them has been answered.
LEMMA ClosedConnection ==
    ASSUME IInv, calls # << >>, calls' = Tail(calls)
    PROVE  /\ calls' \in Seq(Conn) /\ GrantedOnce'
           /\ 1 \in DOMAIN calls /\ Head(calls) = calls[1] /\ calls[1] \in Conn
           /\ \A i \in DOMAIN calls' :
                  /\ i \in Nat \ {0} /\ i + 1 \in DOMAIN calls /\ calls'[i] = calls[i + 1]
                  /\ Releasing(i)' <=> Releasing(i + 1)
<1>1. calls \in Seq(Conn)
  BY DEF IInv, PoolTypeOK
<1>2. calls' \in Seq(Conn) /\ 1 \in DOMAIN calls /\ Head(calls) = calls[1] /\ calls[1] \in Conn
  BY <1>1
<1>3. \A i \in DOMAIN calls' : i \in Nat \ {0} /\ i + 1 \in DOMAIN calls /\ calls'[i] = calls[i + 1]
  BY <1>1
<1>4. \A i \in DOMAIN calls' : Releasing(i)' <=> Releasing(i + 1)
  BY <1>3 DEF Releasing
<1>5. \A i \in DOMAIN calls' : Granted(i)' <=> Granted(i + 1)
  BY <1>3 DEF Granted
<1>6. \A i \in DOMAIN calls' : ~Granted(i + 1)
  BY <1>3 DEF IInv, GrantedOnce
<1>7. GrantedOnce'
  BY <1>5, <1>6 DEF GrantedOnce
<1> QED BY <1>2, <1>3, <1>4, <1>7

\* The first connection is answered.
LEMMA AnsweredConnection ==
    ASSUME calls \in Seq(Conn), calls # << >>, NEW a \in Pool \cup {NoId, NoAnswer, Ok},
           calls' = [calls EXCEPT ![1].answer = a]
    PROVE  /\ calls' \in Seq(Conn)
           /\ 1 \in DOMAIN calls /\ Head(calls) = calls[1] /\ calls[1] \in Conn
           /\ DOMAIN calls' = DOMAIN calls
           /\ \A i \in DOMAIN calls : calls'[i].cmd = calls[i].cmd
           /\ calls'[1].answer = a
           /\ \A i \in DOMAIN calls : i # 1 => calls'[i].answer = calls[i].answer
<1>1. calls[1] \in Conn /\ 1 \in DOMAIN calls /\ Head(calls) = calls[1]
  OBVIOUS
<1>2. [calls[1] EXCEPT !.answer = a] \in Conn
  BY <1>1 DEF Conn
<1>3. calls' = [calls EXCEPT ![1] = [calls[1] EXCEPT !.answer = a]]
  OBVIOUS
<1>4. calls' \in Seq(Conn) /\ DOMAIN calls' = DOMAIN calls
  BY <1>1, <1>2, <1>3
<1>5. /\ calls'[1].cmd = calls[1].cmd /\ calls'[1].answer = a
      /\ \A i \in DOMAIN calls : i # 1 => calls'[i] = calls[i]
  BY <1>1, <1>3 DEF Conn
<1> QED BY <1>1, <1>4, <1>5

\* A new connection with its command.
LEMMA NewConnection ==
    ASSUME calls \in Seq(Conn), NEW c \in Clients, NEW cmd \in Cmd,
           calls' = Append(calls, [client |-> c, cmd |-> cmd, live |-> TRUE, answer |-> NoAnswer])
    PROVE  /\ calls' \in Seq(Conn)
           /\ \A i \in DOMAIN calls : i \in DOMAIN calls' /\ calls'[i] = calls[i]
           /\ \A i \in DOMAIN calls' : i \in DOMAIN calls \/
                  (i = Len(calls) + 1 /\ calls'[i].cmd = cmd /\ calls'[i].answer = NoAnswer)
<1> DEFINE new == [client |-> c, cmd |-> cmd, live |-> TRUE, answer |-> NoAnswer]
<1>1. new \in Conn /\ new.cmd = cmd /\ new.answer = NoAnswer
  BY DEF Conn
<1> HIDE DEF new
<1>2. calls' = Append(calls, new)
  BY DEF new
<1> QED BY <1>1, <1>2

---------------------------------------------------------------------------
(* The admin thread                                                        *)

LEMMA ServeClaimIInv == IInv /\ ServeClaim => IInv'
<1> SUFFICES ASSUME IInv, ServeClaim PROVE IInv'
  OBVIOUS
<1> USE PoolAssumption
<1>1. /\ calls \in Seq(Conn) /\ calls # << >> /\ held' = held
      /\ Head(calls).answer = NoAnswer /\ Head(calls).cmd.op = "CLAIM-SESSION"
  BY DEF IInv, PoolTypeOK, ServeClaim, Pending
<1>2. PICK a \in Pool \cup {NoId} :
         /\ Answer(a)
         /\ available_' = available_ \ {a}
         /\ a # NoId => a \in available_
  <2>1. CASE available_ = {}
    BY <2>1 DEF ServeClaim
  <2>2. CASE available_ # {}
    <3>1. (CHOOSE i \in available_ : \A j \in available_ : i <= j) \in available_
      BY <2>2, FirstAvailable DEF IInv, PoolTypeOK
    <3> QED BY <2>2, <3>1 DEF ServeClaim, IInv, PoolTypeOK
  <2> QED BY <2>1, <2>2
<1>3. OneHolder' /\ available_' \subseteq Pool
  BY <1>1, <1>2 DEF IInv, OneHolder, PoolTypeOK
<1>4. CASE Head(calls).live
  <2>1. calls' = [calls EXCEPT ![1].answer = a]
    BY <1>2, <1>4 DEF Answer
  <2>2. /\ calls' \in Seq(Conn) /\ 1 \in DOMAIN calls /\ Head(calls) = calls[1]
        /\ DOMAIN calls' = DOMAIN calls /\ calls'[1].answer = a
        /\ \A i \in DOMAIN calls : calls'[i].cmd = calls[i].cmd
        /\ \A i \in DOMAIN calls : i # 1 => calls'[i].answer = calls[i].answer
    BY <1>1, <2>1, AnsweredConnection
  <2>3. \A i : Releasing(i)' <=> Releasing(i)
    BY <1>1, <1>2, <2>2 DEF Releasing
  <2>4. \A i : Granted(i)' => (i = 1 /\ a # NoId) \/ (i # 1 /\ Granted(i))
    BY <1>1, <2>2 DEF Granted
  <2>5. ReleasingOnce'
    BY <1>1, <1>2, <2>2, <2>3 DEF IInv, ReleasingOnce
  <2>6. GrantedOnce'
    BY <1>1, <1>2, <2>2, <2>3, <2>4 DEF IInv, GrantedOnce, ReleasingOnce, OneHolder, PoolTypeOK
  <2> QED BY <1>1, <1>3, <2>2, <2>5, <2>6 DEF IInv, PoolTypeOK
<1>5. CASE ~Head(calls).live
  <2>1. calls' = Tail(calls)
    BY <1>2, <1>5 DEF Answer
  <2>2. /\ calls' \in Seq(Conn) /\ GrantedOnce'
        /\ \A i \in DOMAIN calls' : /\ i \in Nat /\ i + 1 \in DOMAIN calls
                                    /\ calls'[i] = calls[i + 1] /\ (Releasing(i)' <=> Releasing(i + 1))
    BY <1>1, <2>1, ClosedConnection
  <2>3. ReleasingOnce'
    BY <1>1, <1>2, <2>2 DEF IInv, ReleasingOnce
  <2> QED BY <1>1, <1>3, <2>2, <2>3 DEF IInv, PoolTypeOK
<1> QED BY <1>4, <1>5

LEMMA ServeReleaseIInv == IInv /\ ServeRelease => IInv'
<1> SUFFICES ASSUME IInv, ServeRelease PROVE IInv'
  OBVIOUS
<1> USE PoolAssumption
<1>1. /\ calls \in Seq(Conn) /\ calls # << >> /\ held' = held /\ Answer(Ok)
      /\ Head(calls) = calls[1] /\ Releasing(1)
      /\ available_' = available_ \cup ({calls[1].cmd.id} \cap Pool)
  BY DEF IInv, PoolTypeOK, ServeRelease, Pending, Releasing
<1>2. OneHolder' /\ available_' \subseteq Pool
  BY <1>1 DEF IInv, OneHolder, ReleasingOnce, Releasing, PoolTypeOK
<1>3. CASE Head(calls).live
  <2>1. calls' = [calls EXCEPT ![1].answer = Ok]
    BY <1>1, <1>3 DEF Answer
  <2>2. /\ calls' \in Seq(Conn) /\ 1 \in DOMAIN calls
        /\ DOMAIN calls' = DOMAIN calls /\ calls'[1].answer = Ok
        /\ \A i \in DOMAIN calls : calls'[i].cmd = calls[i].cmd
        /\ \A i \in DOMAIN calls : i # 1 => calls'[i].answer = calls[i].answer
    BY <1>1, <2>1, AnsweredConnection
  <2>3. \A i : Releasing(i)' => Releasing(i) /\ i # 1
    BY <2>2 DEF Releasing
  <2>4. \A i : Granted(i)' => Granted(i) /\ i # 1
    BY <1>1, <2>2 DEF Granted, Releasing
  <2>5. ReleasingOnce'
    BY <1>1, <2>2, <2>3 DEF IInv, ReleasingOnce
  <2>6. GrantedOnce'
    BY <2>2, <2>4 DEF IInv, GrantedOnce
  <2> QED BY <1>1, <1>2, <2>2, <2>5, <2>6 DEF IInv, PoolTypeOK
<1>4. CASE ~Head(calls).live
  <2>1. calls' = Tail(calls)
    BY <1>1, <1>4 DEF Answer
  <2>2. /\ calls' \in Seq(Conn) /\ GrantedOnce' /\ 1 \in DOMAIN calls
        /\ \A i \in DOMAIN calls' : /\ i \in Nat \ {0} /\ i + 1 \in DOMAIN calls
                                    /\ calls'[i] = calls[i + 1] /\ (Releasing(i)' <=> Releasing(i + 1))
    BY <1>1, <2>1, ClosedConnection
  <2>3. \A i \in DOMAIN calls' : Releasing(i)' => calls'[i].cmd.id # calls[1].cmd.id
    BY <1>1, <2>2 DEF IInv, ReleasingOnce
  <2>4. \A i \in DOMAIN calls' : Releasing(i)' =>
            calls'[i].cmd.id \notin available_ /\ \A c \in Clients : held[c] # calls'[i].cmd.id
    BY <2>2 DEF IInv, ReleasingOnce
  <2>5. \A i, j \in DOMAIN calls' :
            Releasing(i)' /\ Releasing(j)' /\ calls'[j].cmd.id = calls'[i].cmd.id => i = j
    BY <2>2 DEF IInv, ReleasingOnce
  <2>6. ReleasingOnce'
    BY <1>1, <2>3, <2>4, <2>5 DEF ReleasingOnce
  <2> QED BY <1>1, <1>2, <2>2, <2>6 DEF IInv, PoolTypeOK
<1> QED BY <1>3, <1>4

---------------------------------------------------------------------------
(* The programs                                                            *)

LEMMA ClaimSessionIInv == ASSUME IInv, NEW c \in Clients, ClaimSession(c) PROVE IInv'
<1>1. /\ calls \in Seq(Conn) /\ available_' = available_ /\ held' = held
      /\ calls' = Append(calls, [client |-> c, cmd |-> Claim, live |-> TRUE, answer |-> NoAnswer])
  BY DEF IInv, PoolTypeOK, ClaimSession, Call
<1>2. Claim \in Cmd /\ Claim.op = "CLAIM-SESSION"
  BY DEF Claim, Cmd
<1>3. /\ calls' \in Seq(Conn)
      /\ \A i \in DOMAIN calls : i \in DOMAIN calls' /\ calls'[i] = calls[i]
      /\ \A i \in DOMAIN calls' : i \in DOMAIN calls \/
             (i = Len(calls) + 1 /\ calls'[i].cmd = Claim /\ calls'[i].answer = NoAnswer)
  BY <1>1, <1>2, NewConnection
<1>4. \A i : (Releasing(i)' <=> Releasing(i)) /\ (Granted(i)' <=> Granted(i))
  BY <1>2, <1>3 DEF Releasing, Granted
<1>5. ReleasingOnce' /\ GrantedOnce'
  BY <1>1, <1>3, <1>4 DEF IInv, ReleasingOnce, GrantedOnce, Releasing, Granted
<1> QED BY <1>1, <1>3, <1>5 DEF IInv, PoolTypeOK, OneHolder

LEMMA ReleaseSessionIInv == ASSUME IInv, NEW c \in Clients, ReleaseSession(c) PROVE IInv'
<1> USE PoolAssumption
<1> DEFINE id == held[c]
<1>1. /\ calls \in Seq(Conn) /\ available_' = available_ /\ held' = [held EXCEPT ![c] = NoId]
      /\ id \in Pool /\ held \in [Clients -> Pool \cup {NoId}] /\ available_ \subseteq Pool
      /\ calls' = Append(calls, [client |-> c, cmd |-> Release(id), live |-> TRUE, answer |-> NoAnswer])
  BY DEF IInv, PoolTypeOK, ReleaseSession, Call
<1>2. Release(id) \in Cmd /\ Release(id).op = "RELEASE-SESSION" /\ Release(id).id = id
  BY <1>1 DEF Release, Cmd
<1>3. /\ calls' \in Seq(Conn)
      /\ \A i \in DOMAIN calls : i \in DOMAIN calls' /\ calls'[i] = calls[i]
      /\ \A i \in DOMAIN calls' : i \in DOMAIN calls \/
             (i = Len(calls) + 1 /\ calls'[i].cmd = Release(id) /\ calls'[i].answer = NoAnswer)
  BY <1>1, <1>2, NewConnection
<1>4. \A i : (Granted(i)' <=> Granted(i)) /\ (Releasing(i)' => Releasing(i) \/ i = Len(calls) + 1)
  BY <1>2, <1>3 DEF Releasing, Granted
<1>5. /\ OneHolder' /\ held' \in [Clients -> Pool \cup {NoId}]
      /\ \A d \in Clients : held'[d] # id
      /\ \A d \in Clients : held'[d] = held[d] \/ held'[d] = NoId
  BY <1>1 DEF IInv, OneHolder
<1>6. id \notin available_ /\ \A i \in DOMAIN calls : Releasing(i) => calls[i].cmd.id # id
  BY <1>1 DEF IInv, OneHolder, ReleasingOnce
<1>7. \A i \in DOMAIN calls : Releasing(i) => calls[i].cmd.id \in Pool
  BY ReleasingPool
<1>8. ReleasingOnce'
  BY <1>1, <1>2, <1>3, <1>4, <1>5, <1>6, <1>7 DEF IInv, ReleasingOnce, Releasing
<1>9. GrantedOnce'
  BY <1>1, <1>2, <1>3, <1>4, <1>5 DEF IInv, GrantedOnce, Granted, Releasing
<1> QED BY <1>1, <1>3, <1>5, <1>8, <1>9 DEF IInv, PoolTypeOK

LEMMA ClaimedIInv == ASSUME IInv, NEW c \in Clients, Claimed(c) PROVE IInv'
<1> USE PoolAssumption
<1>1. /\ calls # << >> /\ calls' = Tail(calls) /\ available_' = available_
      /\ Head(calls).answer # NoAnswer /\ Head(calls).cmd.op = "CLAIM-SESSION"
      /\ held' = [held EXCEPT ![c] = Head(calls).answer]
  BY DEF Claimed, Answered
<1>2. /\ calls' \in Seq(Conn) /\ GrantedOnce' /\ 1 \in DOMAIN calls /\ Head(calls) = calls[1]
      /\ \A i \in DOMAIN calls' : /\ i \in Nat \ {0} /\ i + 1 \in DOMAIN calls
                                  /\ calls'[i] = calls[i + 1] /\ (Releasing(i)' <=> Releasing(i + 1))
  BY <1>1, ClosedConnection
<1> DEFINE a == calls[1].answer
<1>3. /\ a # NoId => Granted(1)
      /\ held' = [held EXCEPT ![c] = a]
  BY <1>1, <1>2 DEF Granted
<1>4. a # NoId =>
          /\ a \in Pool /\ a \notin available_
          /\ \A d \in Clients : held[d] # a
          /\ \A i \in DOMAIN calls : Releasing(i) => calls[i].cmd.id # a
  BY <1>2, <1>3 DEF IInv, GrantedOnce
<1> HIDE DEF a
<1>5. held' \in [Clients -> Pool \cup {NoId}] /\ OneHolder'
  BY <1>1, <1>3, <1>4 DEF IInv, PoolTypeOK, OneHolder
<1>6. \A d \in Clients : held'[d] = held[d] \/ held'[d] = a
  BY <1>3 DEF IInv, PoolTypeOK
<1>7. \A i \in DOMAIN calls : Releasing(i) => calls[i].cmd.id \in Pool
  BY ReleasingPool
<1>8. ReleasingOnce'
  BY <1>1, <1>2, <1>4, <1>6, <1>7 DEF IInv, ReleasingOnce
<1> QED BY <1>1, <1>2, <1>5, <1>8 DEF IInv, PoolTypeOK

LEMMA ReleasedIInv == ASSUME IInv, NEW c \in Clients, Released(c) PROVE IInv'
<1>1. calls # << >> /\ calls' = Tail(calls) /\ available_' = available_ /\ held' = held
  BY DEF Released, Answered
<1>2. /\ calls' \in Seq(Conn) /\ GrantedOnce'
      /\ \A i \in DOMAIN calls' : /\ i \in Nat \ {0} /\ i + 1 \in DOMAIN calls
                                  /\ calls'[i] = calls[i + 1] /\ (Releasing(i)' <=> Releasing(i + 1))
  BY <1>1, ClosedConnection
<1>3. ReleasingOnce'
  BY <1>1, <1>2 DEF IInv, ReleasingOnce
<1> QED BY <1>1, <1>2, <1>3 DEF IInv, PoolTypeOK, OneHolder

\* What the program held, or was about to be given, is lost; its release is still served.
LEMMA DieIInv == ASSUME IInv, NEW c \in Clients, Die(c) PROVE IInv'
<1> USE PoolAssumption
<1>1. /\ calls \in Seq(Conn) /\ held \in [Clients -> Pool \cup {NoId}] /\ available_ \subseteq Pool
      /\ available_' = available_ /\ held' = [held EXCEPT ![c] = NoId] /\ HangUp(c)
  BY DEF Die, IInv, PoolTypeOK
<1>2. /\ OneHolder' /\ held' \in [Clients -> Pool \cup {NoId}]
      /\ \A d \in Clients : held'[d] = held[d] \/ held'[d] = NoId
  BY <1>1 DEF IInv, OneHolder
<1>3. \A i \in DOMAIN calls : Releasing(i) => calls[i].cmd.id \in Pool
  BY ReleasingPool
<1>4. CASE calls # << >> /\ calls' = Tail(calls)
  <2>1. /\ calls' \in Seq(Conn) /\ GrantedOnce'
        /\ \A i \in DOMAIN calls' : /\ i \in Nat \ {0} /\ i + 1 \in DOMAIN calls
                                    /\ calls'[i] = calls[i + 1] /\ (Releasing(i)' <=> Releasing(i + 1))
    BY <1>4, ClosedConnection
  <2>2. \A i \in DOMAIN calls' : Releasing(i)' =>
            calls'[i].cmd.id \notin available_ /\ \A d \in Clients : held'[d] # calls'[i].cmd.id
    BY <1>2, <1>3, <2>1 DEF IInv, ReleasingOnce
  <2>3. \A i, j \in DOMAIN calls' :
            Releasing(i)' /\ Releasing(j)' /\ calls'[j].cmd.id = calls'[i].cmd.id => i = j
    BY <2>1 DEF IInv, ReleasingOnce
  <2>4. ReleasingOnce'
    BY <1>1, <2>2, <2>3 DEF ReleasingOnce
  <2> QED BY <1>1, <1>2, <2>1, <2>4 DEF IInv, PoolTypeOK
<1>5. CASE calls' = [i \in DOMAIN calls |->
                        IF calls[i].client = c THEN [calls[i] EXCEPT !.live = FALSE] ELSE calls[i]]
  <2>1. \A i \in DOMAIN calls : calls[i] \in Conn
    BY <1>1
  <2>2. \A i \in DOMAIN calls : /\ calls'[i] \in Conn
                                /\ calls'[i].cmd = calls[i].cmd /\ calls'[i].answer = calls[i].answer
    BY <1>5, <2>1 DEF Conn
  <2>3. DOMAIN calls' = DOMAIN calls /\ calls' \in Seq(Conn)
    <3>1. calls' \in [1..Len(calls) -> Conn] /\ Len(calls) \in Nat
      BY <1>1, <1>5, <2>2
    <3> QED BY <1>1, <1>5, <3>1, SeqDef
  <2>4. \A i : (Releasing(i)' <=> Releasing(i)) /\ (Granted(i)' <=> Granted(i))
    BY <2>2, <2>3 DEF Releasing, Granted
  <2>5. ReleasingOnce'
    BY <1>1, <1>2, <1>3, <2>2, <2>3, <2>4 DEF IInv, ReleasingOnce
  <2>6. GrantedOnce'
    BY <1>1, <1>2, <2>2, <2>3, <2>4 DEF IInv, GrantedOnce
  <2> QED BY <1>1, <1>2, <2>3, <2>5, <2>6 DEF IInv, PoolTypeOK
<1> QED BY <1>1, <1>4, <1>5 DEF HangUp

---------------------------------------------------------------------------

LEMMA PoolNextIInv == IInv /\ [PoolNext]_poolvars => IInv'
<1> SUFFICES ASSUME IInv, [PoolNext]_poolvars PROVE IInv'
  OBVIOUS
<1>1. CASE PoolServe
  BY <1>1, ServeClaimIInv, ServeReleaseIInv DEF PoolServe
<1>2. ASSUME NEW c \in Clients,
             ClaimSession(c) \/ Claimed(c) \/ ReleaseSession(c) \/ Released(c) \/ Die(c)
      PROVE  IInv'
  BY <1>2, ClaimSessionIInv, ClaimedIInv, ReleaseSessionIInv, ReleasedIInv, DieIInv
<1>3. CASE UNCHANGED poolvars
  BY <1>3 DEF poolvars, IInv, PoolTypeOK, OneHolder, ReleasingOnce, GrantedOnce, Releasing, Granted
<1> QED BY <1>1, <1>2, <1>3 DEF PoolNext

\* The backlog, the free ids and the ids in use are of their types: what CLAIM-SESSION
\* answers and RELEASE-SESSION takes back is an id of the pool.
THEOREM PoolTypes == PoolSpec => []PoolTypeOK
<1>1. PoolInit => IInv
  BY PoolInitIInv
<1>2. IInv /\ [PoolNext]_poolvars => IInv'
  BY PoolNextIInv
<1>3. IInv => PoolTypeOK
  BY DEF IInv
<1> QED BY <1>1, <1>2, <1>3, PTL DEF PoolSpec

\* No two programs use one session id, and an id in use cannot be claimed, for every pool
\* and any number of programs that come, are interrupted and come again.
THEOREM PoolOneHolder == PoolSpec => []OneHolder
<1>1. PoolInit => IInv
  BY PoolInitIInv
<1>2. IInv /\ [PoolNext]_poolvars => IInv'
  BY PoolNextIInv
<1>3. IInv => OneHolder
  BY DEF IInv
<1> QED BY <1>1, <1>2, <1>3, PTL DEF PoolSpec
=============================================================================
