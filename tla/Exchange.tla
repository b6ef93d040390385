------------------------------ MODULE Exchange ------------------------------
(***************************************************************************)
(* The exchange process with its database (src/src/main.cpp): gateway and  *)
(* engine, the admin thread's symbol registration, the persistence thread  *)
(* that drains the event queue and commits it in batches, and the crash of *)
(* the process at any moment, followed by a restart that recovers what the *)
(* database holds.                                                         *)
(***************************************************************************)
EXTENDS Gateway, Persistence

CONSTANT MaxCrashes   \* bound: how often the process dies

ASSUME CrashAssumption == MaxCrashes \in Nat

VARIABLES
    batch,     \* events the persistence thread has taken and not yet committed
    db,        \* the committed content of the database
    persist,   \* the persistence thread: run, stopped
    adm,       \* events the admin thread has still to push
    crashes,
    skipped    \* history: ids whose rows a restart left alone, their symbol being unknown

pvars == << batch, db, persist, adm, crashes, skipped >>
xvars == << allvars, pvars >>

\* A first start, with an empty database.
XInit ==
    /\ GwInit
    /\ batch = << >>
    /\ db = EmptyDb
    /\ persist = "run"
    /\ adm = << >>
    /\ crashes = 0
    /\ skipped = {}

---------------------------------------------------------------------------
(* The admin thread: REGISTER first makes the symbol known, then records   *)
(* it.                                                                     *)

Register(s) ==
    /\ adm = << >>
    /\ RegisterSymbol(s)
    /\ adm' = IF HasDb THEN << [type |-> "SYMBOL", symbol |-> s] >> ELSE << >>
    /\ UNCHANGED << gwvars, batch, db, persist, crashes, skipped >>

RecordSymbol ==
    /\ adm # << >>
    /\ Enqueue(Head(adm))
    /\ adm' = << >>
    /\ UNCHANGED << vars, maps, last_price_, fix, phase, logged, used, finals,
                    batch, db, persist, crashes, skipped >>

---------------------------------------------------------------------------
(* The persistence thread                                                  *)

\* run: take all that is queued ...
TakeBatch ==
    /\ persist = "run"
    /\ batch = << >>
    /\ pqueue # << >>
    /\ batch' = pqueue
    /\ pqueue' = << >>
    /\ UNCHANGED << vars, maps, last_price_, fix, phase, logged, used, finals,
                    db, persist, adm, crashes, skipped >>

\* ... and commit it.
Flush ==
    /\ batch # << >>
    /\ db' = ApplyBatch(db, batch)
    /\ batch' = << >>
    /\ UNCHANGED << allvars, persist, adm, crashes, skipped >>

\* Mutation of PersistExit: the thread leaves without draining the queue.
PersistExitAtOnce ==
    /\ persist = "run"
    /\ pc = "stopped"
    /\ batch = << >>
    /\ persist' = "stopped"
    /\ UNCHANGED << allvars, batch, db, adm, crashes, skipped >>

\* The destructor sets stop_ when the engine is gone; the thread exits with nothing left.
PersistExit ==
    /\ persist = "run"
    /\ pc = "stopped"
    /\ pqueue = << >> /\ batch = << >>
    /\ persist' = "stopped"
    /\ UNCHANGED << allvars, batch, db, adm, crashes, skipped >>

---------------------------------------------------------------------------
(* The process dies and is started again                                   *)

\* Everything in memory is gone, what was committed is not; main() then loads the
\* symbols, sets order_seq_, and restores the gateway's maps.
Crash ==
    /\ HasDb
    /\ crashes < MaxCrashes
    /\ crashes' = crashes + 1
    /\ rows' = LoadRestingOrders(db)
    /\ order_seq_' = LoadMaxOrderSeq(db)
    /\ books_' = [s \in InitSymbols \cup db.symbols |-> EmptyBook]
    /\ skipped' = skipped \cup {id \in RowIds(db) : RowOf(db, id).symbol \notin DOMAIN books_'}
    /\ queue_' = << >>
    /\ main' = "recovery"
    /\ pc' = "created"
    /\ cur' = NoCur
    /\ call' = NoCall
    /\ order_sessions_' = NoEntry
    /\ clord_to_exchange_' = RestoredClOrds(LoadRestingOrders(db))
    /\ active_orders_' = RestoredOrders(LoadRestingOrders(db))
    /\ last_price_' = NoEntry
    /\ fix' = Idle
    /\ phase' = "begin"
    /\ logged' = {}
    /\ finals' = [id \in RowIds(db) |-> 0]
    /\ pqueue' = << >>
    /\ batch' = << >>
    /\ persist' = "run"
    /\ adm' = << >>
    /\ UNCHANGED << requests, used, db >>

---------------------------------------------------------------------------

\* admin_gw.stop() lets the command that is running finish, before engine.stop().
XMain ==
    /\ GwMain
    /\ main = "closing" => adm = << >>
    /\ UNCHANGED pvars

XAdmin == (\E s \in Symbols : Register(s)) \/ RecordSymbol
XFix == GwFix /\ UNCHANGED pvars
XEngine == GwEngine /\ UNCHANGED pvars
XPersist == TakeBatch \/ Flush \/ PersistExit
XOver == GwOver /\ UNCHANGED pvars

XNext == XMain \/ XAdmin \/ XFix \/ XEngine \/ XPersist \/ Crash \/ XOver

XSpec == XInit /\ [][XNext]_xvars

---------------------------------------------------------------------------
(* Properties                                                              *)

\* Nothing under way in the engine, and everything it reported is committed.
Settled ==
    /\ main # "recovery" /\ fix = Idle /\ queue_ = << >> /\ pc \in {"run", "stopped"}
    /\ call = NoCall /\ adm = << >> /\ pqueue = << >> /\ batch = << >>

\* The order of a row as the book has it.
SameAsBook(row) ==
    \A f \in {"symbol", "side", "price", "leaves_qty", "client_id"} :
        row[f] = BookOrder(row.exchange_id)[f]

\* No resting order is lost: once the persistence thread has caught up, every order in a
\* book has its row, with the price and quantity of the book, across fills, cancels,
\* replaces and crashes.  A clean stop ends in such a state.
RestingIsDurable ==
    Settled => \A id \in ListedIds : id \in RowIds(db) /\ SameAsBook(RowOf(db, id))

\* ... and no row outlives its order: the table is the book.  The one exception are rows a
\* restart skips, because their order was committed before the registration of its symbol.
TableIsBook == RestingIsDurable /\ (Settled => RowIds(db) \ skipped \subseteq ListedIds)

\* At every moment, in the middle of a batch of fills too, the committed rows are in id
\* order, as the recovery assumes (RowsAssumption), and no two of them cross.  Skipped rows
\* are not part of the book and may cross it.
RowsRecoverable ==
    LET rs == SelectSeq(db.resting_orders, LAMBDA r : r.exchange_id \notin skipped)
    IN  \A i, j \in DOMAIN rs :
            /\ i < j => rs[i].exchange_id < rs[j].exchange_id
            /\ rs[i].symbol = rs[j].symbol /\ rs[i].side = "buy" /\ rs[j].side = "sell"
                   => rs[i].price < rs[j].price

\* The process ends with the table equal to the book: nothing that was queued or taken
\* when the engine stopped is dropped (the destructor drains the queue, and runs last).
StopsDurable ==
    persist = "stopped" =>
        /\ RowIds(db) \ skipped = ListedIds
        /\ \A id \in ListedIds : SameAsBook(RowOf(db, id))

\* After a restart too, a new order never gets the id of an order that is still in a
\* book, on its way to one, or in the table (loadMaxOrderSeq, restoreOrders).
NewIdsFresh ==
    fix.at = "submit" => fix.order.exchange_id \notin LiveIds \cup RowIds(db)

\* A row is given up only in the transaction that records the end of its order under
\* its owner: whatever the batches and crashes, logon shows the order as open or
\* replays its end.
RowsEndInHistory ==
    [][\A id \in RowIds(db) \ RowIds(db') :
           id \in LoadHistoricalFills(db', RowOf(db, id).client_id)]_xvars
============================================================================
