------------------------------- MODULE Bench -------------------------------
(***************************************************************************)
(* The benchmark harness (src/bench/bench.py) against a running exchange:  *)
(* for each scenario it claims a session, logs on, sends orders and        *)
(* cancels one after the other, times the reports it waits for, fetches    *)
(* the exchange's own samples, and at the end saves everything.            *)
(*                                                                         *)
(* A scenario is a program for the harness, a sequence of instructions.    *)
(* The exchange is reduced to what the harness meets: the QuickFIX thread  *)
(* acknowledges an order, takes a sample and submits the order; the engine *)
(* thread matches or cancels, reports, and takes a sample; both send first *)
(* and take the sample afterwards.  The admin thread serves the commands   *)
(* of SessionPool and those for the samples.  Other programs claim and     *)
(* release sessions meanwhile, and do not trade.                           *)
(***************************************************************************)
EXTENDS SessionPool, LatencyStats, BenchResults

CONSTANTS
    Harness,       \* the benchmark, one of the Clients
    Count,         \* --count
    MinWarmup,     \* 50 in the code
    Plans,         \* run -> what may be asked for in it: sequences of scenarios
    Versions,      \* what git describe may say
    MaxDeaths      \* bound: programs that are interrupted

ASSUME BenchAssumption == Harness \in Clients /\ Count \in Nat \ {0} /\ MinWarmup \in Nat

VARIABLES
    run,        \* number of the run
    plan,       \* its scenarios, << >> while no harness is running
    version,    \* what git describe has said, once save_results has asked
    at,         \* next instruction
    t0,         \* the order of the last timed request
    rtt,        \* latencies of the scenario so far: the order timed, the order reported
    results,    \* scenario -> what has been collected
    db,         \* results.db
    deaths,     \* programs interrupted so far
    toExch,     \* requests on the harness's connection
    wire,       \* reports on it
    session,    \* the session that is logged on
    clords,     \* clord_to_exchange_, as a set of orders
    resting,    \* resting orders, oldest first
    ended,      \* reports of ended orders, which a logon replays
    handling,   \* order that the QuickFIX thread has acknowledged and not yet submitted
    queue,      \* the engine's queue
    sampling    \* sample that the engine thread has still to take

runvars == << run, plan, version, at, t0, rtt, results, db, deaths >>
exchvars == << toExch, wire, session, clords, resting, ended, handling, queue, sampling >>
benchvars == << poolvars, stats, runvars, exchvars >>

None == << >>

---------------------------------------------------------------------------
(* The instructions of the harness                                         *)

Admin(cmd) == << [do |-> "admin", op |-> cmd] >>

Order(clord, symbol, side, price, timed) ==
    << [do |-> "send", type |-> "D", clord |-> clord, symbol |-> symbol, side |-> side,
        price |-> price, timed |-> timed] >>

CancelOf(clord, symbol, timed) ==
    << [do |-> "send", type |-> "F", clord |-> clord, symbol |-> symbol, timed |-> timed] >>

\* _wait_exec: any report of the type; the fill of the match scenario: that of one order.
AnyOrder == << >>

WaitExec(type, timed) == << [do |-> "wait", types |-> {type}, clord |-> AnyOrder, timed |-> timed] >>

\* Mutation of WaitFill: any fill will do.
WaitAnyFill(clord, timed) ==
    << [do |-> "wait", types |-> {"1", "2"}, clord |-> AnyOrder, timed |-> timed] >>

\* Mutation of WaitFill: only a partial fill is recognised.
WaitPartFill(clord, timed) ==
    << [do |-> "wait", types |-> {"1"}, clord |-> clord, timed |-> timed] >>

WaitFill(clord, timed) ==
    << [do |-> "wait", types |-> {"1", "2"}, clord |-> clord, timed |-> timed] >>

Rounds(n, Round(_)) == FlattenSeq([i \in 1..n |-> Round(i)])

Warmup == IF MinWarmup > Count \div 10 THEN MinWarmup ELSE Count \div 10

Cheap == 1       \* 0.01 to a few dollars: crosses nothing
Crossing == 100  \* both sides of the match scenario

ScenarioAdd ==
    Rounds(Warmup, LAMBDA i : Order(<< "WU-ADD", i >>, "AAPL", "buy", Cheap, FALSE)
                              \o WaitExec("0", FALSE))
    \o Admin("RESET-STATS")
    \o Rounds(Count, LAMBDA i : Order(<< "ADD", i >>, "AAPL", "buy", Cheap, TRUE)
                                \o WaitExec("0", TRUE))

AddAndCancel(clord, symbol, timed) ==
    Order(clord, symbol, "buy", Cheap, FALSE) \o WaitExec("0", FALSE)
    \o CancelOf(clord, symbol, timed) \o WaitExec("4", timed)

ScenarioCancel ==
    Rounds(Warmup, LAMBDA i : AddAndCancel(<< "WU-CXL", i >>, "MSFT", FALSE))
    \o Admin("RESET-STATS")
    \o Rounds(Count, LAMBDA i : AddAndCancel(<< "CXL", i >>, "MSFT", TRUE))

SellAndBuy(sell, buy, timed) ==
    Order(sell, "GOOG", "sell", Crossing, FALSE) \o WaitExec("0", FALSE)
    \o Order(buy, "GOOG", "buy", Crossing, timed) \o WaitFill(buy, timed)

ScenarioMatch ==
    Rounds(Warmup, LAMBDA i : SellAndBuy(<< "WU-MSELL", i >>, << "WU-MBUY", i >>, FALSE))
    \o Admin("RESET-STATS")
    \o Rounds(Count, LAMBDA i : SellAndBuy(<< "MSELL", i >>, << "MBUY", i >>, TRUE))

Half == IF Count \div 2 > 1 THEN Count \div 2 ELSE 1

ScenarioMixed ==
    Rounds(Warmup, LAMBDA i : AddAndCancel(<< "WU-MIX", i >>, "AMZN", FALSE))
    \o Admin("RESET-STATS")
    \o Rounds(Half, LAMBDA i : Order(<< "MIX", i >>, "AMZN", "buy", Cheap, FALSE))
    \o Rounds(Half, LAMBDA i : WaitExec("0", FALSE))
    \o Rounds(Half, LAMBDA i : CancelOf(<< "MIX", i >>, "AMZN", TRUE) \o WaitExec("4", TRUE))

Scenario(name) ==
    CASE name = "add" -> ScenarioAdd
      [] name = "cancel" -> ScenarioCancel
      [] name = "match" -> ScenarioMatch
      [] name = "mixed" -> ScenarioMixed

Logon == << [do |-> "logon"], [do |-> "drain"] >>

\* main: one scenario after the other, then save_results in its two transactions.
Program(names) ==
    Rounds(Len(names), LAMBDA k :
        << [do |-> "begin"] >> \o Admin("CLAIM-SESSION") \o Logon \o Admin("RESET-STATS")
        \o Scenario(names[k])
        \o << [do |-> "admin", op |-> "STATS", name |-> names[k]] >>
        \o << [do |-> "logout"] >> \o Admin("RELEASE-SESSION"))
    \o << [do |-> "delete"], [do |-> "insert"] >>

AllPlans == UNION {Plans[r] : r \in DOMAIN Plans}

Programs == [p \in AllPlans |-> Program(p)]

Running == plan # << >>
Instr == Programs[plan][at]
Doing(what) == Running /\ at <= Len(Programs[plan]) /\ Instr.do = what

---------------------------------------------------------------------------

BenchInit ==
    /\ PoolInit /\ StatsInit
    /\ run = 0 /\ plan = << >> /\ version = None /\ at = 1
    /\ t0 = None /\ rtt = << >> /\ results = << >> /\ db = EmptyDb /\ deaths = 0
    /\ toExch = << >> /\ wire = << >> /\ session = NoId
    /\ clords = {} /\ resting = << >> /\ ended = << >>
    /\ handling = None /\ queue = << >> /\ sampling = None

Quiet == toExch = << >> /\ handling = None /\ queue = << >> /\ sampling = None

\* Runs are started by hand, when the exchange has finished with the one before.
StartRun ==
    /\ ~Running /\ run < Len(Plans) /\ Quiet /\ Idle(Harness)
    /\ run' = run + 1
    /\ plan' \in Plans[run']
    /\ UNCHANGED << poolvars, stats, version, at, t0, rtt, results, db, deaths, exchvars >>

---------------------------------------------------------------------------
(* The harness                                                             *)

Next1 == at' = at + 1

Begin ==
    /\ Doing("begin") /\ Next1
    /\ rtt' = << >> /\ t0' = None
    /\ UNCHANGED << poolvars, stats, run, plan, version, results, db, deaths, exchvars >>

AdminCall ==
    /\ Doing("admin")
    /\ Call(Harness, IF Instr.op = "RELEASE-SESSION" THEN Release(held[Harness]) ELSE [op |-> Instr.op])
    /\ held' = IF Instr.op = "RELEASE-SESSION" THEN [held EXCEPT ![Harness] = NoId] ELSE held
    /\ UNCHANGED << available_, stats, runvars, exchvars >>

\* The process ends, and what it has in memory goes.
Ends ==
    /\ plan' = << >> /\ version' = None /\ at' = 1
    /\ t0' = None /\ rtt' = << >> /\ results' = << >>

\* A harness that ends early leaves the exchange what it has sent, or a part of it.
BreaksOff ==
    /\ Ends
    /\ session' = NoId /\ wire' = << >>
    /\ \E n \in 0..Len(toExch) : toExch' = SubSeq(toExch, 1, n)
    /\ UNCHANGED << run, db, clords, resting, ended, handling, queue, sampling >>

\* No session is available: RuntimeError.
ClaimFails ==
    /\ Doing("admin") /\ Claimed(Harness)
    /\ Head(calls).answer = NoId
    /\ BreaksOff /\ UNCHANGED << stats, deaths >>

Collected(name) ==
    [s \in DOMAIN results \cup {name} |->
        IF s = name
        THEN [k \in Kinds \cup {"rtt"} |-> IF k = "rtt" THEN rtt ELSE Head(calls).answer[k]]
        ELSE results[s]]

\* main's choice of an internal track.
IntTrack(raw) ==
    IF raw.fill # << >> THEN raw.fill ELSE IF raw.cancel # << >> THEN raw.cancel ELSE raw.ack

AdminReply ==
    /\ Doing("admin") /\ Answered(Harness, Instr.op)
    /\ Head(calls).answer # NoId
    /\ Next1
    /\ held' = IF Instr.op = "CLAIM-SESSION" THEN [held EXCEPT ![Harness] = Head(calls).answer] ELSE held
    /\ results' = IF Instr.op = "STATS" THEN Collected(Instr.name) ELSE results
    /\ UNCHANGED << available_, stats, run, plan, version, t0, rtt, db, deaths, exchvars >>

\* onLogon answers with the status of every open order of the session and the ends of
\* the others, before it handles anything else.
BenchLogon ==
    /\ Doing("logon") /\ Next1
    /\ session' = held[Harness]
    /\ wire' = << [type |-> "A", order |-> None] >>
               \o [i \in DOMAIN SelectSeq(resting, LAMBDA o : o.session = held[Harness]) |->
                      [type |-> "I", order |-> SelectSeq(resting, LAMBDA o : o.session = held[Harness])[i]]]
               \o SelectSeq(ended, LAMBDA r : r.order.session = held[Harness])
    /\ UNCHANGED << poolvars, stats, run, plan, version, t0, rtt, results, db, deaths, toExch,
                    clords, resting, ended, handling, queue, sampling >>

\* logon() reads on until nothing has come for 0.3 s.
Drain ==
    /\ Doing("drain")
    /\ IF wire = << >> THEN Next1 /\ UNCHANGED wire
       ELSE UNCHANGED at /\ wire' = << >>
    /\ UNCHANGED << poolvars, stats, run, plan, version, t0, rtt, results, db, deaths, toExch,
                    session, clords, resting, ended, handling, queue, sampling >>

OrderOf(m) ==
    [clord |-> m.clord, run |-> run, session |-> held[Harness], symbol |-> m.symbol,
     side |-> IF m.type = "D" THEN m.side ELSE "buy",
     price |-> IF m.type = "D" THEN m.price ELSE Cheap]

BenchSend ==
    /\ Doing("send") /\ Next1
    /\ toExch' = Append(toExch, [type |-> Instr.type, order |-> OrderOf(Instr)])
    /\ t0' = IF Instr.timed THEN OrderOf(Instr) ELSE t0
    /\ UNCHANGED << poolvars, stats, run, plan, version, rtt, results, db, deaths, wire,
                    session, clords, resting, ended, handling, queue, sampling >>

Matches(r) ==
    /\ r.type \in Instr.types
    /\ Instr.clord = AnyOrder \/ r.order.clord = Instr.clord

\* recv_timed in a loop: other reports are skipped.
BenchRecv ==
    /\ Doing("wait") /\ wire # << >>
    /\ wire' = Tail(wire)
    /\ IF Matches(Head(wire))
       THEN /\ Next1
            /\ rtt' = IF Instr.timed THEN Append(rtt, << t0, Head(wire).order >>) ELSE rtt
       ELSE UNCHANGED << at, rtt >>
    /\ UNCHANGED << poolvars, stats, run, plan, version, t0, results, db, deaths, toExch,
                    session, clords, resting, ended, handling, queue, sampling >>

\* Nothing comes for 10 s: socket.timeout, which nobody catches.
RecvTimeout ==
    /\ Doing("wait") /\ wire = << >> /\ Quiet
    /\ held' = [held EXCEPT ![Harness] = NoId]
    /\ BreaksOff /\ UNCHANGED << available_, calls, stats, deaths >>

BenchLogout ==
    /\ Doing("logout") /\ Next1
    /\ session' = NoId /\ wire' = << >>
    /\ UNCHANGED << poolvars, stats, run, plan, version, t0, rtt, results, db, deaths, toExch,
                    clords, resting, ended, handling, queue, sampling >>

SaveDelete ==
    /\ Doing("delete") /\ Next1
    /\ version' \in Versions
    /\ db' = DeleteVersion(db, version')
    /\ UNCHANGED << poolvars, stats, run, plan, t0, rtt, results, deaths, exchvars >>

SaveInsert ==
    /\ Doing("insert") /\ Ends
    /\ db' = InsertRun(db, version, run, plan, results)
    /\ UNCHANGED << poolvars, stats, run, deaths, exchvars >>

\* main without --save.
SkipSave ==
    /\ Doing("delete") /\ Ends
    /\ UNCHANGED << poolvars, stats, run, db, deaths, exchvars >>

\* Ctrl-C, or 5 s without an answer from the admin gateway.
Interrupt ==
    /\ Running /\ deaths < MaxDeaths
    /\ deaths' = deaths + 1
    /\ HangUp(Harness) /\ held' = [held EXCEPT ![Harness] = NoId]
    /\ BreaksOff /\ UNCHANGED << available_, stats >>

---------------------------------------------------------------------------
(* The exchange                                                            *)

Deliver(reports) == wire' = wire \o SelectSeq(reports, LAMBDA r : r.order.session = session)

\* onMessage(NewOrderSingle): emplace keeps the entry of an older order with the same
\* ClOrdID; the acknowledgement is sent ...
HandleOrder ==
    /\ toExch # << >> /\ handling = None
    /\ Head(toExch).type = "D"
    /\ LET o == Head(toExch).order
       IN  /\ clords' = IF \E x \in clords : x.clord = o.clord THEN clords ELSE clords \cup {o}
           /\ Deliver(<< [type |-> "0", order |-> o] >>)
           /\ handling' = << o >>
    /\ toExch' = Tail(toExch)
    /\ UNCHANGED << poolvars, stats, runvars, session, resting, ended, queue, sampling >>

\* ... the sample is taken, and the order submitted.
SampleAndSubmit ==
    /\ handling # None
    /\ Record("ack", Head(handling))
    /\ queue' = Append(queue, [type |-> "D", order |-> Head(handling)])
    /\ handling' = None
    /\ UNCHANGED << poolvars, runvars, toExch, wire, session, clords, resting, ended, sampling >>

\* onMessage(OrderCancelRequest): the ClOrdID is resolved to an order, or nothing happens.
HandleCancel ==
    /\ toExch # << >> /\ handling = None
    /\ Head(toExch).type = "F"
    /\ queue' = queue \o SetToSeq({[type |-> "F", order |-> x] :
                                       x \in {y \in clords : y.clord = Head(toExch).order.clord}})
    /\ toExch' = Tail(toExch)
    /\ UNCHANGED << poolvars, stats, runvars, wire, session, clords, resting, ended, handling, sampling >>

\* The end of an order: its routing entry goes, the report is sent and remembered.
Report(reports) ==
    /\ Deliver(reports)
    /\ ended' = ended \o reports
    /\ clords' = {x \in clords : \A i \in DOMAIN reports : x.clord # reports[i].order.clord}

Opposite(o) ==
    SelectSeq(resting, LAMBDA x : /\ x.symbol = o.symbol /\ x.side # o.side
                                  /\ IF o.side = "buy" THEN x.price <= o.price ELSE x.price >= o.price)

Take(kind) == /\ queue # << >> /\ sampling = None
              /\ Head(queue).type = kind /\ queue' = Tail(queue)

EngineRests ==
    /\ Take("D") /\ Opposite(Head(queue).order) = << >>
    /\ resting' = Append(resting, Head(queue).order)
    /\ UNCHANGED << poolvars, stats, runvars, toExch, wire, session, clords, ended, handling, sampling >>

\* onFill: the maker's report, the taker's, and then the sample.
EngineFills ==
    /\ Take("D") /\ Opposite(Head(queue).order) # << >>
    /\ LET maker == Head(Opposite(Head(queue).order))
           taker == Head(queue).order
       IN  /\ resting' = SelectSeq(resting, LAMBDA x : x # maker)
           /\ Report(<< [type |-> "2", order |-> maker], [type |-> "2", order |-> taker] >>)
           /\ sampling' = << "fill", taker >>
    /\ UNCHANGED << poolvars, stats, runvars, toExch, session, handling >>

\* onCancel: nothing is reported for an order that is not in the book.
EngineCancels ==
    /\ Take("F")
    /\ LET o == Head(queue).order
       IN  IF \E i \in DOMAIN resting : resting[i] = o
           THEN /\ resting' = SelectSeq(resting, LAMBDA x : x # o)
                /\ Report(<< [type |-> "4", order |-> o] >>)
                /\ sampling' = << "cancel", o >>
           ELSE UNCHANGED << resting, wire, ended, clords, sampling >>
    /\ UNCHANGED << poolvars, stats, runvars, toExch, session, handling >>

EngineSamples ==
    /\ sampling # None
    /\ Record(sampling[1], sampling[2])
    /\ sampling' = None
    /\ UNCHANGED << poolvars, runvars, toExch, wire, session, clords, resting, ended, handling, queue >>

\* The three vectors are locked one after the other, which makes no difference here: of the
\* samples of one client at most one is still to be taken when it sends these commands.
ServeStats ==
    /\ Pending("STATS") /\ Answer(stats)
    /\ UNCHANGED << available_, held, stats, runvars, exchvars >>

ServeReset ==
    /\ Pending("RESET-STATS") /\ Answer(Ok) /\ ResetStats
    /\ UNCHANGED << available_, held, runvars, exchvars >>

---------------------------------------------------------------------------

Others ==
    /\ \/ PoolServe
       \/ \E c \in Clients \ {Harness} :
              ClaimSession(c) \/ Claimed(c) \/ ReleaseSession(c) \/ Released(c)
    /\ UNCHANGED << stats, runvars, exchvars >>

OtherDies ==
    /\ deaths < MaxDeaths /\ deaths' = deaths + 1
    /\ \E c \in Clients \ {Harness} : Die(c)
    /\ UNCHANGED << stats, run, plan, version, at, t0, rtt, results, db, exchvars >>

\* All runs are over.
Over == run = Len(Plans) /\ ~Running /\ UNCHANGED benchvars

BenchNext ==
    \/ StartRun \/ Begin \/ AdminCall \/ ClaimFails \/ AdminReply \/ BenchLogon \/ Drain
    \/ BenchSend \/ BenchRecv \/ RecvTimeout \/ BenchLogout
    \/ SaveDelete \/ SaveInsert \/ SkipSave \/ Interrupt
    \/ HandleOrder \/ SampleAndSubmit \/ HandleCancel
    \/ EngineRests \/ EngineFills \/ EngineCancels \/ EngineSamples
    \/ ServeStats \/ ServeReset \/ Others \/ OtherDies \/ Over

BenchSpec == BenchInit /\ [][BenchNext]_benchvars

---------------------------------------------------------------------------
(* Properties                                                              *)

\* A round trip is measured from a request to a report about the same order of the same
\* run: no report of a maker, of a replay at logon or of an earlier run is taken for it.
RttIsOwn == \A i \in DOMAIN rtt : rtt[i][1] = rtt[i][2]

\* The samples the exchange takes in a part of a scenario.
Sampled(instrs, kind) ==
    LET taken(i) == CASE kind = "ack" -> i.do = "send" /\ i.type = "D"
                      [] kind = "cancel" -> i.do = "send" /\ i.type = "F"
                      [] kind = "fill" -> i.do = "wait" /\ i.clord # AnyOrder
        of == SelectSeq(instrs, taken)
    IN  [j \in DOMAIN of |-> of[j].clord]

ResetAt(name) == CHOOSE i \in DOMAIN Scenario(name) : Scenario(name)[i].do = "admin"
WarmupPart(name) == SubSeq(Scenario(name), 1, ResetAt(name) - 1)
MeasuredPart(name) == SubSeq(Scenario(name), ResetAt(name) + 1, Len(Scenario(name)))

Capped(s) == IF Len(s) <= Capacity THEN s ELSE SubSeq(s, 1, Capacity)

\* The exchange's own samples of a scenario are those of its measured requests, in order
\* and cut off at the capacity, although report and sample are two steps and RESET-STATS
\* and STATS run on a third thread: at most the last request of the warm-up is sampled
\* after the reset, and at most the last one of the scenario after the query.
StatsFollow ==
    \A name \in DOMAIN results, k \in Kinds :
        LET got  == results[name][k]
            warm == Sampled(WarmupPart(name), k)
            want == Sampled(MeasuredPart(name), k)
        IN  /\ \A i \in DOMAIN got : got[i].run = run
            /\ \E late \in {0, 1}, lost \in {0, 1} :
                   /\ late <= Len(warm) /\ lost <= Len(want)
                   /\ [i \in DOMAIN got |-> got[i].clord] =
                          Capped(SubSeq(warm, Len(warm) - late + 1, Len(warm))
                                 \o SubSeq(want, 1, Len(want) - lost))

\* main picks the internal track by which samples there are, plot_history by the name of
\* the scenario; they pick the same if there is more than one measured request.
TrackIsScenario ==
    \A name \in DOMAIN results :
        Len(Sampled(MeasuredPart(name), ScenarioKind(name))) > 1 =>
            IntTrack(results[name]) = results[name][ScenarioKind(name)]

\* A harness waits in vain only for the cancel of an order whose ClOrdID an interrupted
\* run had left in the book: the older order is canceled, and reported to its own session.
HangsOnRecycledOnly ==
    Doing("wait") /\ wire = << >> /\ Quiet =>
        /\ ended # << >>
        /\ LET old == Last(ended).order
           IN  /\ old.run < run /\ old.session # session
               /\ \E i \in DOMAIN resting : resting[i].run = run /\ resting[i].clord = old.clord

\* What is stored of a version, and what the charts show of it, is one complete run: a row
\* for each scenario, with the samples of that run; an interrupted save leaves nothing.
VersionIsOneRun ==
    \A r \in db.runs :
        LET rows == {x \in db.runs : x.version = r.version}
        IN  /\ \A x \in rows : x.run_at = r.run_at /\ (x.scenario = r.scenario => x = r)
            /\ \E p \in AllPlans : {x.scenario : x \in rows} = ToSet(p)
            /\ r.n = Len(db.samples[r.id].rtt)
            /\ IsExactTag(r.version) =>
                   /\ r.version \in LoadedVersions(db)
                   /\ LET e == LoadedEntry(db, r.version, r.scenario)
                      IN  /\ \A i \in DOMAIN e.rtt : e.rtt[i][1].run = r.run_at
                          /\ \A i \in DOMAIN e.int : e.int[i].run = r.run_at
=============================================================================
