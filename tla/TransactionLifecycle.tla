------------------------- MODULE TransactionLifecycle -------------------------
(* The transactions of one charging station as CitrineOS keeps them:          *)
(* Transactions/src/module/module.ts, TransactionService.ts, CostNotifier.ts  *)
(* with Scheduler.ts, the repository TransactionEvent.ts and MeterValueUtils. *)
(*                                                                            *)
(* The broker pushes messages without a prefetch, so the handlers of the      *)
(* events of a station run side by side. A handler reads the row of its       *)
(* transaction, writes the columns that differ from what it read (that is     *)
(* what the update of an instance does in Sequelize), makes the other         *)
(* transactions of the EVSE inactive in steps, and concludes. The station     *)
(* speaks OCPP 2.x or 1.6: in 1.6 the CSMS creates and numbers transactions.  *)
(*                                                                            *)
(* Modelled: the events in every order of their steps, their repetition, a    *)
(* step that throws, transactions the station gives up, each kind of energy   *)
(* measurement, late answers to GetTransactionStatus, the periodic cost       *)
(* updates. The authorization, with its check for concurrent transactions, is *)
(* any verdict. Not modelled: the transaction limits of OCPP 2.1,             *)
(* reservations, MeterValues of OCPP 2.x.                                     *)
EXTENDS Integers, FiniteSets

CONSTANTS
    Transactions,
    Evses,
    EvseOf,           \* the EVSE each transaction is at
    Messages,         \* events the station may send: [tx, rank, protocol, evse, token,
                      \* meter, copy]; rank 0 is the start, 2 the end; evse, token: it
                      \* names one
    SendCostUpdated,  \* _sendCostUpdatedOnMeterValue
    MaxQueries,       \* bound: how often GetTransactionStatus is asked
    None

Ranks == 0..2
Protocols == {"1.6", "2.x"}

\* The energy in the meter values of an event: a register, an interval or a net reading,
\* something else or a context that is not counted, or no meter values at all.
Kinds == {"register", "interval", "net", "other", "none"}

ASSUME EvseOfAssumption == EvseOf \in [Transactions -> Evses]
ASSUME NoneAssumption == None \notin Transactions \union Int
ASSUME SendCostUpdatedAssumption == SendCostUpdated \in BOOLEAN
ASSUME MaxQueriesAssumption == MaxQueries \in Nat
ASSUME MessagesAssumption ==
    /\ Messages \subseteq [tx : Transactions, rank : Ranks, protocol : Protocols,
                           evse : BOOLEAN, token : BOOLEAN, meter : Kinds, copy : Nat]
    \* A StartTransaction of OCPP 1.6 that is repeated starts another transaction.
    /\ \A m, n \in Messages :
          m.protocol = "1.6" /\ n.protocol = "1.6" /\ m.rank = 0 /\ n.rank = 0
            /\ m.tx = n.tx => m = n
    \* The copies of an end measure the same.
    /\ \A m, n \in Messages :
          m.rank = 2 /\ n.rank = 2 /\ m.tx = n.tx /\ m.protocol = n.protocol
            => m.meter = n.meter

VARIABLES
    protocol,
    current,    \* station: the transaction that is under way at an EVSE
    past,       \* station: transactions it has given up for another
    phase,      \* how far the handler of each message is
    accepted,   \* messages whose token was accepted, until they are answered
    seen,       \* the row as the handler of a message read it, then as it wrote it
    others,     \* the transactions the handler of a message has still to make inactive
    stored,     \* rows: transactions in the database
    active,     \* rows: isActive
    placed,     \* rows: evseId and connectorId are set
    meterStart, \* rows: meterStart
    kwh,        \* rows: totalKwh
    cost,       \* rows: totalCost, at a price of 1
    notifier,   \* the registry of the cost notifier; "busy": a tick has read the row
    tick,       \* the cost that tick has calculated
    status,     \* answers to GetTransactionStatus that wait: "none", "ongoing", "over"
    queries,
    disturbed,  \* history: made inactive by another, read after its end, or set by a query
    unchecked,  \* history: made active without a look at the other ones of the EVSE
    metered,    \* history: created by its start, with a register reading and its EVSE
    late        \* history: an earlier event or a tick wrote energy or cost after the end

station == <<protocol, current, past>>
handler == <<phase, accepted, seen, others>>
rows == <<stored, active, placed, meterStart, kwh, cost>>
costs == <<notifier, tick>>
asked == <<status, queries>>
history == <<disturbed, unchecked, metered, late>>
vars == <<station, handler, rows, costs, asked, history>>

\* "found", "loaded": the handler has looked for the other transactions of the EVSE, has
\* read them again; "stopping", "stopped": a StopTransaction read the row again, made it
\* inactive; "thrown": the handler wrote its row and then threw.
Phases == {"new", "sent", "read", "written", "found", "loaded", "stopping", "stopped",
           "done", "thrown", "failed"}
Energy == Int \union {None}
NoRow == [stored |-> FALSE, active |-> FALSE, placed |-> FALSE, start |-> None, kwh |-> None]
Snapshot == [stored : BOOLEAN, active : BOOLEAN, placed : BOOLEAN, start : Energy, kwh : Energy]

Row(t) == [stored |-> t \in stored, active |-> t \in active, placed |-> t \in placed,
           start |-> meterStart[t], kwh |-> kwh[t]]

\* The event has reached the database.
Handled(m) == phase[m] \in {"written", "found", "loaded", "stopped", "done", "thrown"}

\* An event of the end of t has reached the database.
EndHandled(t) == \E m \in Messages : m.tx = t /\ m.rank = 2 /\ Handled(m)

\* The energy of the end of t is in the database: a StopTransaction saves it last.
EndCounted(t) ==
    \E m \in Messages : m.tx = t /\ m.rank = 2 /\ Handled(m) /\ phase[m] # "stopped"

Init ==
    /\ protocol \in Protocols
    /\ current = [e \in Evses |-> None]
    /\ past = {}
    /\ phase = [m \in Messages |-> "new"]
    /\ accepted = {}
    /\ seen = [m \in Messages |-> NoRow]
    /\ others = [m \in Messages |-> {}]
    /\ stored = {}
    /\ active = {}
    /\ placed = {}
    /\ meterStart = [t \in Transactions |-> None]
    /\ kwh = [t \in Transactions |-> None]
    /\ cost = [t \in Transactions |-> 0]
    /\ notifier = [t \in Transactions |-> "off"]
    /\ tick = [t \in Transactions |-> 0]
    /\ status = [t \in Transactions |-> "none"]
    /\ queries = 0
    /\ disturbed = {}
    /\ unchecked = {}
    /\ metered = {}
    /\ late = {}

Becomes(m, p) == phase' = [phase EXCEPT ![m] = p]

-------------------------------------------------------------------------------
(* The station                                                                *)

\* Events of a transaction are sent in their order, repeated until the next one; a
\* transaction that starts at an EVSE is the only one the station still speaks of.
Send(m) ==
    LET e == EvseOf[m.tx] IN
    /\ phase[m] = "new"
    /\ m.protocol = protocol
    /\ \A n \in Messages : n.tx = m.tx /\ n.rank > m.rank => phase[n] = "new"
    /\ IF m.rank = 0
       THEN /\ m.tx \notin past
            /\ past' = past \union ({current[e]} \ {m.tx, None})
            /\ current' = [current EXCEPT ![e] = m.tx]
       ELSE current[e] = m.tx /\ UNCHANGED <<past, current>>
    /\ Becomes(m, "sent")
    /\ UNCHANGED <<protocol, accepted, seen, others, rows, costs, asked, history>>

\* The station answers GetTransactionStatus with what is the case now.
StationReports(t) ==
    /\ protocol = "2.x"
    /\ queries < MaxQueries
    /\ queries' = queries + 1
    /\ status[t] = "none"
    /\ status' = [status EXCEPT ![t] = IF current[EvseOf[t]] = t THEN "ongoing" ELSE "over"]
    /\ UNCHANGED <<station, handler, rows, costs, history>>

-------------------------------------------------------------------------------
(* Energy and cost                                                            *)

\* The register of the station shows the rank of an event and one more, since it does
\* not begin with 0; one unit is drawn between one event and the next.
Register(rank) == rank + 1
Interval(m) == IF m.rank = 0 THEN 0 ELSE 1

\* The operator + of JavaScript on what totalKwh was read as and an interval of less than
\* ten. A DECIMAL column comes back from the database as text, so that + appends the
\* interval to it; in a row that has none yet, null ?? 0 is a number.
Plus(total, interval) ==
    IF total = None THEN interval
    ELSE IF total < 0 THEN 10 * total - interval ELSE 10 * total + interval

\* getTotalKwh, with getMeterStart for a row that has no meterStart.
Total(m, row) ==
    CASE m.meter = "register" -> IF row.start = None THEN 0 ELSE Register(m.rank) - row.start
      [] m.meter = "interval" -> Plus(row.kwh, Interval(m))
      [] m.meter = "net"      -> Register(m.rank)
      [] m.meter = "other"    -> 0
      [] m.meter = "none"     -> row.kwh

\* calculateTotalCost: nothing without a connector.
Cost(row) == IF row.placed /\ row.kwh # None THEN row.kwh ELSE 0

\* Mutant: the row keeps the energy the event counted, the handler goes on with the old.
MutantBillsOld(m) ==
    LET t == m.tx  row == seen[m] IN
    /\ meterStart' = IF m.meter = "register" /\ row.start = None
                     THEN [meterStart EXCEPT ![t] = Register(m.rank)] ELSE meterStart
    /\ kwh' = IF m.meter = "none" THEN kwh ELSE [kwh EXCEPT ![t] = Total(m, row)]
    /\ seen' = [seen EXCEPT ![m].placed = @ \/ m.evse]
    /\ UNCHANGED late

\* The columns of the meter as an event writes them, and the row its handler goes on with.
WriteMeter(m) ==
    LET t == m.tx  row == seen[m] IN
    /\ meterStart' = IF m.meter = "register" /\ row.start = None
                     THEN [meterStart EXCEPT ![t] = Register(m.rank)] ELSE meterStart
    /\ kwh' = IF m.meter = "none" THEN kwh ELSE [kwh EXCEPT ![t] = Total(m, row)]
    /\ seen' = [seen EXCEPT ![m] = [row EXCEPT !.kwh = Total(m, row),
                                               !.placed = row.placed \/ m.evse]]
    /\ late' = IF m.rank < 2 /\ m.meter # "none" /\ EndCounted(t)
               THEN late \union {t} ELSE late

-------------------------------------------------------------------------------
(* The handler of an event                                                    *)

\* authorizeOcpp201IdToken, authorizeOcpp21IdToken: only the verdict on a start counts
\* later.
Authorize(m) ==
    \/ m.rank = 0 /\ m.token /\ accepted' = accepted \union {m}
    \/ UNCHANGED accepted

\* The token is authorized, then the row of the transaction is read; 1.6: a
\* StopTransaction or MeterValues for a transaction that is not there changes nothing.
Read(m) ==
    /\ phase[m] = "sent"
    /\ m.protocol = "2.x" \/ m.rank > 0
    /\ Authorize(m)
    /\ IF m.protocol = "1.6" /\ m.tx \notin stored
       THEN Becomes(m, "failed") /\ UNCHANGED <<seen, disturbed>>
       ELSE /\ seen' = [seen EXCEPT ![m] = Row(m.tx)]
            /\ disturbed' = IF m.protocol = "2.x" /\ m.rank < 2 /\ EndHandled(m.tx)
                            THEN disturbed \union {m.tx} ELSE disturbed
            /\ Becomes(m, "read")
    /\ UNCHANGED <<station, others, rows, costs, asked, unchecked, metered, late>>

\* createOrUpdateTransactionByTransactionEventAndStationId, no row was found: a row is
\* created, unless another handler has created it by now.
Insert(m) ==
    LET t == m.tx IN
    /\ phase[m] = "read"
    /\ m.protocol = "2.x"
    /\ ~seen[m].stored
    /\ IF t \in stored
       THEN /\ Becomes(m, "failed")
            /\ UNCHANGED <<seen, stored, active, placed, meterStart, kwh, unchecked, metered,
                           late>>
       ELSE /\ Becomes(m, "written")
            /\ stored' = stored \union {t}
            /\ active' = IF m.rank < 2 THEN active \union {t} ELSE active
            /\ placed' = IF m.evse THEN placed \union {t} ELSE placed
            /\ unchecked' = IF m.rank < 2 /\ ~m.evse THEN unchecked \union {t} ELSE unchecked
            /\ metered' = IF m.rank = 0 /\ m.evse /\ m.meter = "register"
                          THEN metered \union {t} ELSE metered
            /\ WriteMeter(m)
    /\ UNCHANGED <<station, accepted, others, cost, costs, asked, disturbed>>

\* Mutant: the update writes isActive whether or not it differs from what was read.
MutantWritesAll(m) ==
    LET t == m.tx IN
    /\ phase[m] = "read"
    /\ m.protocol = "2.x"
    /\ seen[m].stored
    /\ active' = IF m.rank < 2 THEN active \union {t} ELSE active \ {t}
    /\ placed' = IF m.evse THEN placed \union {t} ELSE placed
    /\ unchecked' = IF m.rank < 2 /\ ~m.evse THEN unchecked \union {t} ELSE unchecked
    /\ WriteMeter(m)
    /\ Becomes(m, "written")
    /\ UNCHANGED <<station, accepted, others, stored, cost, costs, asked, disturbed, metered>>

\* The same, a row was found: its columns that differ are updated.
Update(m) ==
    LET t == m.tx  toActive == m.rank < 2 /\ ~seen[m].active IN
    /\ phase[m] = "read"
    /\ m.protocol = "2.x"
    /\ seen[m].stored
    /\ active' = IF toActive THEN active \union {t}
                 ELSE IF m.rank = 2 /\ seen[m].active THEN active \ {t} ELSE active
    /\ placed' = IF m.evse THEN placed \union {t} ELSE placed
    /\ unchecked' = IF toActive /\ ~m.evse THEN unchecked \union {t} ELSE unchecked
    /\ WriteMeter(m)
    /\ Becomes(m, "written")
    /\ UNCHANGED <<station, accepted, others, stored, cost, costs, asked, disturbed, metered>>

\* Mutant: only a start makes the others inactive.
MutantOnlyStart(m) == m.rank = 0 /\ (m.protocol = "1.6" \/ m.evse)

\* deactivateOtherActiveTransactionsAtEvse201: a start or an update that names its EVSE
\* makes the others inactive; in 1.6 a StartTransaction does, accepted or not.
MakesOthersInactive(m) ==
    IF m.protocol = "1.6" THEN m.rank = 0 ELSE m.rank < 2 /\ m.evse

\* deactivateActiveTransactionsByStationIdAndEvseId: the transactions other than t that
\* are active at its EVSE.
Others(t) == {u \in active \intersect placed : u # t /\ EvseOf[u] = EvseOf[t]}

FindOthers(m) ==
    /\ phase[m] = "written"
    /\ MakesOthersInactive(m)
    /\ others' = [others EXCEPT ![m] = Others(m.tx)]
    /\ Becomes(m, "found")
    /\ UNCHANGED <<station, accepted, seen, rows, costs, asked, history>>

\* updateAllByQuery reads the rows again; one that is inactive by now is not written.
LoadOthers(m) ==
    /\ phase[m] = "found"
    /\ others' = [others EXCEPT ![m] = @ \intersect active]
    /\ Becomes(m, "loaded")
    /\ UNCHANGED <<station, accepted, seen, rows, costs, asked, history>>

\* ... and updates one after the other.
MakeInactive(m, u) ==
    /\ phase[m] = "loaded"
    /\ u \in others[m]
    /\ others' = [others EXCEPT ![m] = @ \ {u}]
    /\ active' = active \ {u}
    /\ disturbed' = disturbed \union (active \intersect {u})
    /\ UNCHANGED <<station, phase, accepted, seen, stored, placed, meterStart, kwh, cost,
                   costs, asked, unchecked, metered, late>>

\* Nothing is left to be made inactive.
OthersDone(m) ==
    IF MakesOthersInactive(m) THEN phase[m] = "loaded" /\ others[m] = {}
    ELSE phase[m] = "written"

\* An event without a token is answered with its cost, which is stored, by the energy the
\* handler wrote: that of an end, and that of an update if so configured. An accepted
\* start gets its periodic cost updates after the answer.
Conclude(m) ==
    LET t == m.tx
        bill == Cost(seen[m])
        bills == /\ m.protocol = "2.x" /\ ~m.token /\ bill # 0
                 /\ (m.rank = 2 \/ (m.rank = 1 /\ SendCostUpdated))
    IN
    /\ OthersDone(m)
    /\ cost' = IF bills THEN [cost EXCEPT ![t] = bill] ELSE cost
    /\ late' = IF bills /\ m.rank = 1 /\ EndCounted(t) THEN late \union {t} ELSE late
    /\ notifier' = IF m.rank = 0 /\ m \in accepted /\ notifier[t] = "off"
                   THEN [notifier EXCEPT ![t] = "on"] ELSE notifier
    /\ seen' = [seen EXCEPT ![m] = NoRow]
    /\ accepted' = accepted \ {m}
    /\ Becomes(m, "done")
    /\ UNCHANGED <<station, others, stored, active, placed, meterStart, kwh, tick, asked,
                   disturbed, unchecked, metered>>

\* A step after the write throws, the rest is not done, and AbstractModule answers with
\* a CallError. A handler that throws before is one that goes no further.
Fail(m) ==
    /\ phase[m] \in {"written", "found", "loaded"}
    /\ unchecked' = IF OthersDone(m) THEN unchecked ELSE unchecked \union {m.tx}
    /\ seen' = [seen EXCEPT ![m] = NoRow]
    /\ others' = [others EXCEPT ![m] = {}]
    /\ Becomes(m, "thrown")
    /\ UNCHANGED <<station, accepted, rows, costs, asked, disturbed, metered, late>>

-------------------------------------------------------------------------------
(* OCPP 1.6                                                                   *)

\* StartTransaction: an accepted one gets a row and a number of its own. One that is
\* refused, or whose row cannot be stored, is answered too and makes the others inactive.
StartTransaction(m) ==
    LET t == m.tx IN
    /\ phase[m] = "sent"
    /\ m.protocol = "1.6"
    /\ m.rank = 0
    /\ \/ /\ stored' = stored \union {t}
          /\ active' = active \union {t}
          /\ placed' = placed \union {t}
          /\ meterStart' = [meterStart EXCEPT ![t] = Register(0)]
          /\ metered' = metered \union {t}
       \/ UNCHANGED <<stored, active, placed, meterStart, metered>>
    /\ Becomes(m, "written")
    /\ UNCHANGED <<station, accepted, seen, others, kwh, cost, costs, asked, disturbed,
                   unchecked, late>>

\* MeterValues: updateTransactionByMeterValues.
StoreMeterValues(m) ==
    /\ phase[m] = "read"
    /\ m.protocol = "1.6"
    /\ m.rank = 1
    /\ WriteMeter(m)
    /\ Becomes(m, "done")
    /\ UNCHANGED <<station, accepted, others, stored, active, placed, cost, costs, asked,
                   disturbed, unchecked, metered>>

\* StopTransaction, after its answer: createStopTransaction reads the row again ...
ReadAgain(m) ==
    /\ phase[m] = "read"
    /\ m.protocol = "1.6"
    /\ m.rank = 2
    /\ others' = [others EXCEPT ![m] = active \intersect {m.tx}]
    /\ Becomes(m, "stopping")
    /\ UNCHANGED <<station, accepted, seen, rows, costs, asked, history>>

\* ... and makes it inactive, if it was read as active;
Stop(m) ==
    /\ phase[m] = "stopping"
    /\ active' = active \ others[m]
    /\ others' = [others EXCEPT ![m] = {}]
    /\ Becomes(m, "stopped")
    /\ UNCHANGED <<station, accepted, seen, stored, placed, meterStart, kwh, cost, costs,
                   asked, history>>

\* then the handler saves the row it read first, with the energy since the
\* StartTransaction.
SaveStop(m) ==
    /\ phase[m] = "stopped"
    /\ kwh' = [kwh EXCEPT ![m.tx] = Register(2) - Register(0)]
    /\ active' = IF seen[m].active THEN active \ {m.tx} ELSE active
    /\ seen' = [seen EXCEPT ![m] = NoRow]
    /\ Becomes(m, "done")
    /\ UNCHANGED <<station, accepted, others, stored, placed, meterStart, cost, costs, asked,
                   history>>

-------------------------------------------------------------------------------
(* The rest of the CSMS                                                       *)

\* Mutant: the answer creates the row it does not find.
MutantUpserts(t) ==
    /\ status[t] # "none"
    /\ status' = [status EXCEPT ![t] = "none"]
    /\ LET ongoing == status[t] = "ongoing" IN
       /\ active' = IF ongoing THEN active \union {t} ELSE active \ {t}
       /\ disturbed' = disturbed \union {t}
       /\ unchecked' = IF ongoing THEN unchecked \union {t} ELSE unchecked
    /\ UNCHANGED <<station, handler, stored, placed, meterStart, kwh, cost, costs, queries,
                   metered, late>>

\* updateTransactionStatus, on the answer to GetTransactionStatus.
ApplyStatus(t) ==
    /\ status[t] # "none"
    /\ status' = [status EXCEPT ![t] = "none"]
    /\ IF t \in stored
       THEN LET ongoing == status[t] = "ongoing" IN
            /\ active' = IF ongoing THEN active \union {t} ELSE active \ {t}
            /\ disturbed' = disturbed \union {t}
            /\ unchecked' = IF ongoing THEN unchecked \union {t} ELSE unchecked
       ELSE UNCHANGED <<active, disturbed, unchecked>>
    /\ UNCHANGED <<station, handler, stored, placed, meterStart, kwh, cost, costs, queries,
                   metered, late>>

\* _tryNotify reads the transaction: one that is not there or not active any more, or
\* an error, ends the schedule; one that has a connector and no energy yet is an error.
Tick(t) ==
    /\ notifier[t] = "on"
    /\ \/ /\ t \in active
          /\ t \in placed => kwh[t] # None
          /\ notifier' = [notifier EXCEPT ![t] = "busy"]
          /\ tick' = [tick EXCEPT ![t] = Cost(Row(t))]
       \/ notifier' = [notifier EXCEPT ![t] = "off"] /\ UNCHANGED tick
    /\ UNCHANGED <<station, handler, rows, asked, history>>

\* calculateCostAndNotify: the cost of what was read is stored, and CostUpdated is sent.
NotifyCost(t) ==
    /\ notifier[t] = "busy"
    /\ cost' = [cost EXCEPT ![t] = tick[t]]
    /\ notifier' = [notifier EXCEPT ![t] = "on"]
    /\ tick' = [tick EXCEPT ![t] = 0]
    /\ late' = IF EndCounted(t) THEN late \union {t} ELSE late
    /\ UNCHANGED <<station, handler, stored, active, placed, meterStart, kwh, asked,
                   disturbed, unchecked, metered>>

-------------------------------------------------------------------------------
Handle(m) == \/ Read(m) \/ Insert(m) \/ Update(m)
             \/ FindOthers(m) \/ LoadOthers(m) \/ (\E u \in Transactions : MakeInactive(m, u))
             \/ Conclude(m) \/ Fail(m)

Handle16(m) == \/ StartTransaction(m) \/ StoreMeterValues(m)
               \/ ReadAgain(m) \/ Stop(m) \/ SaveStop(m)

Next ==
    \/ \E m \in Messages : Send(m) \/ Handle(m) \/ Handle16(m)
    \/ \E t \in Transactions : StationReports(t) \/ ApplyStatus(t) \/ Tick(t) \/ NotifyCost(t)

Spec == Init /\ [][Next]_vars

-------------------------------------------------------------------------------
(* Properties                                                                 *)

\* Types of the variables of the transactions (module.ts, TransactionEvent.ts).
TypeOK ==
    /\ protocol \in Protocols
    /\ current \in [Evses -> Transactions \union {None}]
    /\ past \subseteq Transactions
    /\ phase \in [Messages -> Phases]
    /\ accepted \subseteq Messages
    /\ seen \in [Messages -> Snapshot]
    /\ others \in [Messages -> SUBSET Transactions]
    /\ stored \subseteq Transactions
    /\ active \subseteq stored
    /\ placed \subseteq stored
    /\ meterStart \in [Transactions -> Energy]
    /\ kwh \in [Transactions -> Energy]
    /\ cost \in [Transactions -> Int]
    /\ notifier \in [Transactions -> {"off", "on", "busy"}]
    /\ tick \in [Transactions -> Int]
    /\ status \in [Transactions -> {"none", "ongoing", "over"}]
    /\ queries \in Nat
    /\ disturbed \subseteq Transactions
    /\ unchecked \subseteq Transactions
    /\ metered \subseteq Transactions
    /\ late \subseteq Transactions

\* The handler of m will make u inactive: it is still to look for the others, or has u
\* among those it found.
WillMakeInactive(m, u) ==
    \/ phase[m] = "written" /\ MakesOthersInactive(m)
    \/ phase[m] \in {"found", "loaded"} /\ u \in others[m]

\* Two transactions are active at one EVSE only while the handler of one of them is about
\* to make the other inactive, in whatever order the handlers of their events take their
\* steps, unless one was made active without a look at the others: by an event that names
\* no EVSE, by a late answer to GetTransactionStatus, or by a handler that failed
\* half-way.
OneActivePerEvse ==
    \A t, u \in active \ unchecked :
        t # u /\ EvseOf[t] = EvseOf[u]
            => \E m \in Messages : \/ m.tx = t /\ WillMakeInactive(m, u)
                                   \/ m.tx = u /\ WillMakeInactive(m, t)

\* A transaction whose end has reached the database is not active, although an event
\* before the end may be written after it, the end may be repeated, and its handler may
\* throw. It takes an event that is read only then, a query that sets it, or another
\* transaction that made this one inactive before.
EndedStaysInactive ==
    \A t \in Transactions : EndHandled(t) => t \notin active \/ t \in disturbed

\* Whatever handlers of the events of a transaction overlap, are repeated or fail, and
\* whatever the events between measure: once its end is handled the transaction has the
\* energy between its start and its end, and the cost of just that. Its row must have
\* been created by the start, and nothing may have been written after the end by an
\* earlier event or a tick: the code does not keep those from overwriting.
FinalBill ==
    \A m \in Messages :
        m.rank = 2 /\ phase[m] = "done" /\ m.tx \in metered \ late
          /\ (protocol = "1.6" \/ m.meter = "register")
        => /\ kwh[m.tx] = 2
           /\ (protocol = "2.x" /\ ~m.token => cost[m.tx] = 2)

===============================================================================
