---------------------- MODULE TransactionLifecycle_proofs ----------------------
(***************************************************************************)
(* Theorems about TransactionLifecycle, for any transactions, EVSEs and    *)
(* events, in any order of the steps of their handlers.                    *)
(***************************************************************************)
EXTENDS TransactionLifecycle, TLAPS

(***************************************************************************)
(* Types                                                                   *)
(***************************************************************************)

(* A handler that found a row found one that is there: rows are not deleted. *)
SeenStored == \A m \in Messages : seen[m].stored => m.tx \in stored

TypeInv == TypeOK /\ SeenStored

LEMMA MessageType ==
  ASSUME NEW m \in Messages
  PROVE  /\ m.tx \in Transactions /\ m.rank \in 0..2 /\ m.protocol \in Protocols
         /\ m.evse \in BOOLEAN /\ m.token \in BOOLEAN /\ m.meter \in Kinds
         /\ EvseOf[m.tx] \in Evses
  BY MessagesAssumption, EvseOfAssumption DEF Ranks

(* What an event counts is a number, or it leaves what it read.             *)
LEMMA TotalType ==
  ASSUME NEW m \in Messages, NEW row \in Snapshot PROVE Total(m, row) \in Energy
<1>1. m.rank \in Int /\ m.meter \in Kinds /\ row.kwh \in Energy /\ row.start \in Energy
  BY MessageType DEF Snapshot
<1>2. CASE m.meter = "register"
  BY <1>1, <1>2 DEF Total, Register, Energy
<1>3. CASE m.meter = "interval"
  <2>1. Interval(m) \in Int
    BY DEF Interval
  <2>2. Plus(row.kwh, Interval(m)) \in Int
    BY <1>1, <2>1 DEF Plus, Energy
  <2> QED
    BY <1>3, <2>2 DEF Total, Energy
<1>4. CASE m.meter \in {"net", "other", "none"}
  BY <1>1, <1>4 DEF Total, Register, Energy
<1> QED
  BY <1>1, <1>2, <1>3, <1>4 DEF Kinds

LEMMA CostType == ASSUME NEW row \in Snapshot PROVE Cost(row) \in Int
  BY DEF Cost, Snapshot, Energy

(* What a handler writes about the meter, and the row it goes on with.      *)
LEMMA WriteMeterType ==
  ASSUME TypeInv, NEW m \in Messages, WriteMeter(m)
  PROVE  /\ meterStart' \in [Transactions -> Energy]
         /\ kwh' \in [Transactions -> Energy]
         /\ seen' \in [Messages -> Snapshot]
         /\ \A n \in Messages : seen'[n].stored = seen[n].stored
                                /\ seen'[n].active = seen[n].active
         /\ seen'[m].kwh = Total(m, seen[m])
         /\ seen'[m].placed = (seen[m].placed \/ m.evse)
         /\ seen'[m].start = seen[m].start
         /\ \A n \in Messages \ {m} : seen'[n] = seen[n]
         /\ late \subseteq late' /\ late' \subseteq Transactions
<1> DEFINE total == Total(m, seen[m])
           row == [seen[m] EXCEPT !.kwh = total, !.placed = seen[m].placed \/ m.evse]
<1>1. seen[m] \in Snapshot
  BY DEF TypeInv, TypeOK
<1>2. total \in Energy
  BY <1>1, TotalType
<1>3. m.rank \in Int /\ m.tx \in Transactions /\ m.evse \in BOOLEAN
  BY MessageType
<1>4. meterStart' \in [Transactions -> Energy]
  BY <1>3 DEF TypeInv, TypeOK, WriteMeter, Register, Energy
<1>5. kwh' \in [Transactions -> Energy]
  BY <1>2, <1>3 DEF TypeInv, TypeOK, WriteMeter
<1>6. /\ row \in Snapshot /\ row.stored = seen[m].stored /\ row.active = seen[m].active
      /\ row.kwh = total /\ row.start = seen[m].start
  <2> HIDE DEF total
  <2> QED
    BY <1>1, <1>2, <1>3 DEF Snapshot
<1>7. row.placed = (seen[m].placed \/ m.evse)
  <2> HIDE DEF total
  <2> QED
    BY <1>1, <1>2, <1>3, SMT DEF Snapshot
<1>8. seen' = [seen EXCEPT ![m] = row]
  BY DEF WriteMeter
<1> HIDE DEF row, total
<1>9. seen \in [Messages -> Snapshot]
  BY DEF TypeInv, TypeOK
<1>10. seen'[m] = row /\ \A n \in Messages \ {m} : seen'[n] = seen[n]
  BY <1>8, <1>9
<1>11. seen' \in [Messages -> Snapshot]
  BY <1>6, <1>8, <1>9
<1>12. \A n \in Messages : seen'[n].stored = seen[n].stored /\ seen'[n].active = seen[n].active
  BY <1>6, <1>10
<1>13. late \subseteq late' /\ late' \subseteq Transactions
  BY <1>3 DEF WriteMeter, TypeInv, TypeOK
<1> QED
  BY <1>4, <1>5, <1>6, <1>7, <1>10, <1>11, <1>12, <1>13, Zenon DEF total

(* A row as a handler reads it.                                             *)
LEMMA RowType ==
  ASSUME TypeOK, NEW t \in Transactions
  PROVE  /\ Row(t) \in Snapshot
         /\ Row(t).stored = (t \in stored) /\ Row(t).active = (t \in active)
         /\ Row(t).placed = (t \in placed)
         /\ Row(t).start = meterStart[t] /\ Row(t).kwh = kwh[t]
<1>1. Row(t) \in Snapshot
  BY DEF TypeOK, Row, Snapshot
<1>2. /\ Row(t).stored = (t \in stored) /\ Row(t).active = (t \in active)
      /\ Row(t).placed = (t \in placed)
      /\ Row(t).start = meterStart[t] /\ Row(t).kwh = kwh[t]
  BY Zenon DEF Row
<1> QED
  BY <1>1, <1>2, Zenon

LEMMA NoRowType == NoRow \in Snapshot /\ ~NoRow.stored
  BY DEF NoRow, Snapshot, Energy

LEMMA TypeInvInit == Init => TypeInv
<1> SUFFICES ASSUME Init PROVE TypeInv
  OBVIOUS
<1>1. seen \in [Messages -> Snapshot] /\ SeenStored
  BY NoRowType DEF Init, SeenStored
<1>2. phase \in [Messages -> Phases]
  BY DEF Init, Phases
<1>3. /\ kwh \in [Transactions -> Energy] /\ meterStart \in [Transactions -> Energy]
      /\ cost \in [Transactions -> Int] /\ tick \in [Transactions -> Int]
  BY DEF Init, Energy
<1> QED
  BY <1>1, <1>2, <1>3 DEF Init, TypeInv, TypeOK

LEMMA TypeInvNext == TypeInv /\ [Next]_vars => TypeInv'
<1> SUFFICES ASSUME TypeInv, [Next]_vars PROVE TypeInv'
  OBVIOUS
<1> USE MessageType, NoRowType
    DEF TypeInv, TypeOK, SeenStored, station, handler, rows, costs, asked, history, Becomes
<1>1. ASSUME NEW m \in Messages, Send(m) PROVE TypeInv'
  <2>1. phase' \in [Messages -> Phases]
    BY <1>1 DEF Send, Phases
  <2>2. past' \subseteq Transactions /\ current' \in [Evses -> Transactions \union {None}]
    BY <1>1 DEF Send
  <2> QED
    BY <1>1, <2>1, <2>2 DEF Send
<1>2. ASSUME NEW m \in Messages, Read(m) PROVE TypeInv'
  <2>1. phase' \in [Messages -> Phases]
    BY <1>2 DEF Read, Phases
  <2>2. seen' \in [Messages -> Snapshot] /\ \A n \in Messages : seen'[n].stored => n.tx \in stored
    <3>1. Row(m.tx) \in Snapshot /\ (Row(m.tx).stored => m.tx \in stored)
      BY RowType
    <3>2. seen' = seen \/ seen' = [seen EXCEPT ![m] = Row(m.tx)]
      BY <1>2 DEF Read
    <3> QED
      BY <3>1, <3>2
  <2>3. disturbed' \subseteq Transactions
    BY <1>2 DEF Read
  <2> QED
    BY <1>2, <2>1, <2>2, <2>3 DEF Read, Authorize
<1>3. ASSUME NEW m \in Messages, Insert(m) PROVE TypeInv'
  <2>1. phase' \in [Messages -> Phases]
    BY <1>3 DEF Insert, Phases
  <2>2. CASE m.tx \in stored
    BY <1>3, <2>1, <2>2 DEF Insert
  <2>3. CASE m.tx \notin stored
    <3>1. WriteMeter(m)
      BY <1>3, <2>3 DEF Insert
    <3> QED
      BY <1>3, <2>1, <2>3, <3>1, WriteMeterType DEF Insert
  <2> QED
    BY <2>2, <2>3
<1>4. ASSUME NEW m \in Messages, Update(m) PROVE TypeInv'
  <2>1. phase' \in [Messages -> Phases]
    BY <1>4 DEF Update, Phases
  <2>2. WriteMeter(m) /\ m.tx \in stored
    BY <1>4 DEF Update
  <2>3. active' \subseteq stored /\ placed' \subseteq stored /\ unchecked' \subseteq Transactions
    BY <1>4, <2>2 DEF Update
  <2> QED
    BY <1>4, <2>1, <2>2, <2>3, WriteMeterType DEF Update
<1>5. ASSUME NEW m \in Messages, FindOthers(m) \/ LoadOthers(m) \/ ReadAgain(m) PROVE TypeInv'
  <2>1. phase' \in [Messages -> Phases]
    BY <1>5 DEF FindOthers, LoadOthers, ReadAgain, Phases
  <2>2. others' \in [Messages -> SUBSET Transactions]
    BY <1>5 DEF FindOthers, LoadOthers, ReadAgain, Others
  <2> QED
    BY <1>5, <2>1, <2>2 DEF FindOthers, LoadOthers, ReadAgain
<1>6. ASSUME NEW m \in Messages, NEW u \in Transactions, MakeInactive(m, u) PROVE TypeInv'
  <2>1. others' \in [Messages -> SUBSET Transactions]
    BY <1>6 DEF MakeInactive
  <2> QED
    BY <1>6, <2>1 DEF MakeInactive
<1>7. ASSUME NEW m \in Messages, Conclude(m) PROVE TypeInv'
  <2>1. phase' \in [Messages -> Phases]
    BY <1>7 DEF Conclude, Phases
  <2>2. seen' \in [Messages -> Snapshot] /\ \A n \in Messages : seen'[n].stored => n.tx \in stored
    BY <1>7 DEF Conclude
  <2>3. Cost(seen[m]) \in Int
    BY CostType
  <2>4. cost' \in [Transactions -> Int]
    BY <1>7, <2>3 DEF Conclude
  <2>5. notifier' \in [Transactions -> {"off", "on", "busy"}] /\ late' \subseteq Transactions
    BY <1>7 DEF Conclude
  <2> QED
    BY <1>7, <2>1, <2>2, <2>4, <2>5 DEF Conclude
<1>8. ASSUME NEW m \in Messages, Fail(m) PROVE TypeInv'
  <2>1. phase' \in [Messages -> Phases]
    BY <1>8 DEF Fail, Phases
  <2>2. seen' \in [Messages -> Snapshot] /\ \A n \in Messages : seen'[n].stored => n.tx \in stored
    BY <1>8 DEF Fail
  <2>3. others' \in [Messages -> SUBSET Transactions] /\ unchecked' \subseteq Transactions
    BY <1>8 DEF Fail
  <2> QED
    BY <1>8, <2>1, <2>2, <2>3 DEF Fail
<1>9. ASSUME NEW m \in Messages, StartTransaction(m) PROVE TypeInv'
  <2>1. phase' \in [Messages -> Phases]
    BY <1>9 DEF StartTransaction, Phases
  <2>2. meterStart' \in [Transactions -> Energy]
    BY <1>9 DEF StartTransaction, Register, Energy
  <2> QED
    BY <1>9, <2>1, <2>2 DEF StartTransaction
<1>10. ASSUME NEW m \in Messages, StoreMeterValues(m) PROVE TypeInv'
  <2>1. phase' \in [Messages -> Phases]
    BY <1>10 DEF StoreMeterValues, Phases
  <2> QED
    BY <1>10, <2>1, WriteMeterType DEF StoreMeterValues
<1>11. ASSUME NEW m \in Messages, Stop(m) PROVE TypeInv'
  <2>1. phase' \in [Messages -> Phases]
    BY <1>11 DEF Stop, Phases
  <2>2. others' \in [Messages -> SUBSET Transactions]
    BY <1>11 DEF Stop
  <2> QED
    BY <1>11, <2>1, <2>2 DEF Stop
<1>12. ASSUME NEW m \in Messages, SaveStop(m) PROVE TypeInv'
  <2>1. phase' \in [Messages -> Phases]
    BY <1>12 DEF SaveStop, Phases
  <2>2. seen' \in [Messages -> Snapshot] /\ \A n \in Messages : seen'[n].stored => n.tx \in stored
    BY <1>12 DEF SaveStop
  <2>3. kwh' \in [Transactions -> Energy]
    BY <1>12 DEF SaveStop, Register, Energy
  <2> QED
    BY <1>12, <2>1, <2>2, <2>3 DEF SaveStop
<1>13. ASSUME NEW t \in Transactions, StationReports(t) PROVE TypeInv'
  BY <1>13 DEF StationReports
<1>14. ASSUME NEW t \in Transactions, ApplyStatus(t) PROVE TypeInv'
  BY <1>14 DEF ApplyStatus
<1>15. ASSUME NEW t \in Transactions, Tick(t) PROVE TypeInv'
  <2>1. tick' \in [Transactions -> Int]
    <3>1. Cost(Row(t)) \in Int
      BY RowType, CostType
    <3> QED
      BY <1>15, <3>1 DEF Tick
  <2> QED
    BY <1>15, <2>1 DEF Tick
<1>16. ASSUME NEW t \in Transactions, NotifyCost(t) PROVE TypeInv'
  BY <1>16 DEF NotifyCost
<1>17. CASE UNCHANGED vars
  BY <1>17 DEF vars
<1> QED
  BY <1>1, <1>2, <1>3, <1>4, <1>5, <1>6, <1>7, <1>8, <1>9, <1>10, <1>11, <1>12, <1>13, <1>14,
     <1>15, <1>16, <1>17 DEF Next, Handle, Handle16

(* The variables have the values their declarations say, and only a row    *)
(* that is there is active.                                                *)
THEOREM TypeCorrect == Spec => []TypeOK
  BY TypeInvInit, TypeInvNext, PTL DEF Spec, TypeInv

(***************************************************************************)
(* One active transaction per EVSE                                         *)
(***************************************************************************)

(* A handler that makes the others inactive finds by their EVSE only those  *)
(* that have one: an active transaction without one was not checked.       *)
Placed == active \ unchecked \subseteq placed

OneInv == TypeInv /\ Placed /\ OneActivePerEvse

(* A step keeps OneInv if what is active and checked stays among those its  *)
(* neighbours will make inactive, and what becomes active is placed and has *)
(* a handler that is still to look for the others.                         *)
LEMMA OneStep ==
  ASSUME OneInv,
         placed \subseteq placed', unchecked \subseteq unchecked',
         \A n \in Messages, u \in active' \ unchecked' :
            n.tx \in active' \ unchecked' /\ n.tx # u /\ EvseOf[u] = EvseOf[n.tx]
              /\ u \in active /\ WillMakeInactive(n, u)
            => WillMakeInactive(n, u)',
         \A t \in active' \ active :
            \/ t \in unchecked'
            \/ t \in placed' /\ \E m \in Messages :
                  m.tx = t /\ phase'[m] = "written" /\ MakesOthersInactive(m)
  PROVE  Placed' /\ OneActivePerEvse'
<1>1. Placed'
  BY DEF OneInv, Placed
<1>2. OneActivePerEvse'
  <2> SUFFICES ASSUME NEW t \in active' \ unchecked', NEW u \in active' \ unchecked',
                      t # u, EvseOf[t] = EvseOf[u]
               PROVE  \E m \in Messages : \/ m.tx = t /\ WillMakeInactive(m, u)'
                                          \/ m.tx = u /\ WillMakeInactive(m, t)'
    BY DEF OneActivePerEvse
  <2>1. CASE t \in active /\ u \in active
    <3>1. PICK m \in Messages : \/ m.tx = t /\ WillMakeInactive(m, u)
                                \/ m.tx = u /\ WillMakeInactive(m, t)
      BY <2>1 DEF OneInv, OneActivePerEvse
    <3> QED
      BY <2>1, <3>1
  <2>2. CASE t \notin active
    BY <2>2 DEF WillMakeInactive
  <2>3. CASE u \notin active
    BY <2>3 DEF WillMakeInactive
  <2> QED
    BY <2>1, <2>2, <2>3
<1> QED
  BY <1>1, <1>2

LEMMA OneInvInit == Init => OneInv
<1> SUFFICES ASSUME Init PROVE OneInv
  OBVIOUS
<1> QED
  BY TypeInvInit DEF Init, OneInv, Placed, OneActivePerEvse

LEMMA OneInvNext == OneInv /\ [Next]_vars => OneInv'
<1> SUFFICES ASSUME OneInv, [Next]_vars PROVE Placed' /\ OneActivePerEvse'
  BY TypeInvNext DEF OneInv
<1> USE DEF station, handler, rows, costs, asked, history, Becomes
<1>t. phase \in [Messages -> Phases] /\ others \in [Messages -> SUBSET Transactions]
  BY DEF OneInv, TypeInv, TypeOK
<1>1. ASSUME NEW m \in Messages,
             Send(m) \/ Read(m) \/ StoreMeterValues(m) \/ ReadAgain(m) \/ Stop(m) \/ SaveStop(m)
      PROVE  Placed' /\ OneActivePerEvse'
  <2>1. /\ phase[m] \in {"new", "sent", "read", "stopping", "stopped"}
        /\ \A n \in Messages \ {m} : phase'[n] = phase[n] /\ others'[n] = others[n]
        /\ placed' = placed /\ unchecked' = unchecked /\ active' \subseteq active
    BY <1>1, <1>t DEF Send, Read, StoreMeterValues, ReadAgain, Stop, SaveStop
  <2>2. \A n \in Messages, u \in Transactions :
           WillMakeInactive(n, u) => WillMakeInactive(n, u)'
    BY <2>1 DEF WillMakeInactive
  <2>3. active' \subseteq Transactions
    BY <2>1 DEF OneInv, TypeInv, TypeOK
  <2> QED
    BY <2>1, <2>2, <2>3, OneStep
<1>2. ASSUME NEW m \in Messages, Insert(m) \/ Update(m) PROVE Placed' /\ OneActivePerEvse'
  <2>1. /\ phase[m] = "read" /\ others' = others /\ m.protocol = "2.x"
        /\ \A n \in Messages \ {m} : phase'[n] = phase[n]
        /\ placed \subseteq placed' /\ unchecked \subseteq unchecked'
    BY <1>2, <1>t DEF Insert, Update
  <2>2. \A n \in Messages, u \in Transactions :
           WillMakeInactive(n, u) => WillMakeInactive(n, u)'
    BY <2>1 DEF WillMakeInactive
  <2>3. \A t \in active' \ active :
          \/ t \in unchecked'
          \/ t \in placed' /\ t = m.tx /\ phase'[m] = "written" /\ MakesOthersInactive(m)
    BY <1>2, <1>t, <2>1 DEF Insert, Update, MakesOthersInactive
  <2>4. active' \subseteq Transactions
    BY TypeInvNext DEF OneInv, TypeInv, TypeOK
  <2> QED
    BY <2>1, <2>2, <2>3, <2>4, OneStep
<1>3. ASSUME NEW m \in Messages, FindOthers(m) PROVE Placed' /\ OneActivePerEvse'
  <2>1. /\ others' = [others EXCEPT ![m] = Others(m.tx)] /\ phase' = [phase EXCEPT ![m] = "found"]
        /\ active' = active /\ placed' = placed /\ unchecked' = unchecked
    BY <1>3 DEF FindOthers
  <2>2. ASSUME NEW n \in Messages, NEW u \in active \ unchecked,
               n.tx # u, EvseOf[u] = EvseOf[n.tx], WillMakeInactive(n, u)
        PROVE  WillMakeInactive(n, u)'
    <3>1. CASE n = m
      <4>1. u \in Others(m.tx)
        BY <2>2, <3>1 DEF Others, OneInv, Placed
      <4> QED
        BY <2>1, <3>1, <4>1, <1>t DEF WillMakeInactive
    <3>2. CASE n # m
      BY <2>1, <2>2, <3>2, <1>t DEF WillMakeInactive
    <3> QED
      BY <3>1, <3>2
  <2> QED
    BY <2>1, <2>2, OneStep
<1>4. ASSUME NEW m \in Messages, LoadOthers(m) PROVE Placed' /\ OneActivePerEvse'
  <2>1. /\ others' = [others EXCEPT ![m] = @ \intersect active]
        /\ phase[m] = "found" /\ phase' = [phase EXCEPT ![m] = "loaded"]
        /\ active' = active /\ placed' = placed /\ unchecked' = unchecked
    BY <1>4 DEF LoadOthers
  <2>2. \A n \in Messages, u \in active : WillMakeInactive(n, u) => WillMakeInactive(n, u)'
    BY <2>1, <1>t DEF WillMakeInactive
  <2> QED
    BY <2>1, <2>2, OneStep
<1>5. ASSUME NEW m \in Messages, NEW v \in Transactions, MakeInactive(m, v)
      PROVE  Placed' /\ OneActivePerEvse'
  <2>1. /\ others' = [others EXCEPT ![m] = @ \ {v}] /\ phase' = phase
        /\ active' = active \ {v} /\ placed' = placed /\ unchecked' = unchecked
    BY <1>5 DEF MakeInactive
  <2>2. \A n \in Messages, u \in active' : WillMakeInactive(n, u) => WillMakeInactive(n, u)'
    BY <2>1, <1>t DEF WillMakeInactive
  <2> QED
    BY <2>1, <2>2, OneStep
<1>6. ASSUME NEW m \in Messages, Conclude(m) PROVE Placed' /\ OneActivePerEvse'
  <2>1. /\ OthersDone(m) /\ phase' = [phase EXCEPT ![m] = "done"] /\ others' = others
        /\ active' = active /\ placed' = placed /\ unchecked' = unchecked
    BY <1>6 DEF Conclude
  <2>2. \A u \in Transactions : ~WillMakeInactive(m, u)
    BY <2>1 DEF WillMakeInactive, OthersDone
  <2>3. \A n \in Messages, u \in Transactions :
           WillMakeInactive(n, u) => WillMakeInactive(n, u)'
    BY <2>1, <2>2, <1>t DEF WillMakeInactive
  <2>4. active \subseteq Transactions
    BY DEF OneInv, TypeInv, TypeOK
  <2> QED
    BY <2>1, <2>3, <2>4, OneStep
<1>7. ASSUME NEW m \in Messages, Fail(m) PROVE Placed' /\ OneActivePerEvse'
  <2>1. /\ phase' = [phase EXCEPT ![m] = "thrown"] /\ others' = [others EXCEPT ![m] = {}]
        /\ active' = active /\ placed' = placed /\ unchecked \subseteq unchecked'
        /\ OthersDone(m) \/ m.tx \in unchecked'
    BY <1>7 DEF Fail
  <2>2. \A u \in Transactions : OthersDone(m) => ~WillMakeInactive(m, u)
    BY DEF WillMakeInactive, OthersDone
  <2>3. \A n \in Messages, u \in Transactions :
           n.tx \notin unchecked' /\ WillMakeInactive(n, u) => WillMakeInactive(n, u)'
    BY <2>1, <2>2, <1>t DEF WillMakeInactive
  <2>4. active \subseteq Transactions
    BY DEF OneInv, TypeInv, TypeOK
  <2> QED
    BY <2>1, <2>3, <2>4, OneStep
<1>8. ASSUME NEW m \in Messages, StartTransaction(m) PROVE Placed' /\ OneActivePerEvse'
  <2>1. /\ phase[m] = "sent" /\ phase' = [phase EXCEPT ![m] = "written"] /\ others' = others
        /\ placed \subseteq placed' /\ unchecked' = unchecked
        /\ \A t \in active' \ active : t \in placed' /\ t = m.tx
        /\ MakesOthersInactive(m)
    BY <1>8 DEF StartTransaction, MakesOthersInactive
  <2>2. \A n \in Messages, u \in Transactions :
           WillMakeInactive(n, u) => WillMakeInactive(n, u)'
    BY <2>1, <1>t DEF WillMakeInactive
  <2>3. active' \subseteq Transactions
    BY TypeInvNext DEF OneInv, TypeInv, TypeOK
  <2>4. phase'[m] = "written"
    BY <2>1, <1>t
  <2> QED
    BY <2>1, <2>2, <2>3, <2>4, OneStep
<1>9. ASSUME NEW t \in Transactions,
             StationReports(t) \/ ApplyStatus(t) \/ Tick(t) \/ NotifyCost(t)
      PROVE  Placed' /\ OneActivePerEvse'
  <2>1. /\ phase' = phase /\ others' = others /\ placed' = placed
        /\ unchecked \subseteq unchecked' /\ active' \ active \subseteq unchecked'
    BY <1>9 DEF StationReports, ApplyStatus, Tick, NotifyCost
  <2>2. \A n \in Messages, u \in active' : WillMakeInactive(n, u) => WillMakeInactive(n, u)'
    BY <2>1 DEF WillMakeInactive
  <2> QED
    BY <2>1, <2>2, OneStep
<1>10. CASE UNCHANGED vars
  <2>1. \A n \in Messages, u \in active' : WillMakeInactive(n, u) => WillMakeInactive(n, u)'
    BY <1>10 DEF WillMakeInactive, vars
  <2> QED
    BY <1>10, <2>1, OneStep DEF vars
<1> QED
  BY <1>1, <1>2, <1>3, <1>4, <1>5, <1>6, <1>7, <1>8, <1>9, <1>10 DEF Next, Handle, Handle16

(* Two transactions are active at an EVSE only while the handler of one of  *)
(* them will make the other inactive, or one was made active without a look. *)
THEOREM OneActiveAlways == Spec => []OneActivePerEvse
  BY OneInvInit, OneInvNext, PTL DEF Spec, OneInv

(***************************************************************************)
(* What has ended is not active                                            *)
(***************************************************************************)

(* The handlers run for events of the station's protocol only.             *)
OwnProtocol == \A m \in Messages : phase[m] # "new" => m.protocol = protocol

(* OCPP 1.6: a row is created by the one StartTransaction, and an event of  *)
(* a transaction without a row goes no further.                            *)
StartOf16 ==
  protocol = "1.6" =>
    \A t \in stored : \E m \in Messages :
      m.tx = t /\ m.rank = 0 /\ m.protocol = "1.6" /\ phase[m] \notin {"new", "sent"}

Read16 ==
  \A m \in Messages :
    phase[m] \in {"read", "stopping"} /\ m.protocol = "1.6" => m.tx \in stored

(* OCPP 1.6 knows no query; and what a StopTransaction has not read as      *)
(* active is not active.                                                   *)
StopInv ==
  /\ protocol = "1.6" => \A t \in Transactions : status[t] = "none"
  /\ \A m \in Messages : phase[m] \in {"stopping", "stopped"} =>
        m.protocol = "1.6" /\ m.rank = 2
  /\ \A m \in Messages : phase[m] = "stopping" =>
        /\ others[m] \subseteq {m.tx}
        /\ m.tx \in others[m] \/ m.tx \notin active

(* An end that reached the database has a row.                             *)
EndIsStored == \A t \in Transactions : EndHandled(t) => t \in stored

(* A row is inactive because it ended or because it was disturbed, and so   *)
(* is one that a handler has read as inactive: before the end, the second.  *)
InactiveHasCause ==
  \A t \in Transactions : t \in stored /\ t \notin active => t \in disturbed \/ EndHandled(t)

SeenHasCause ==
  \A m \in Messages :
    m.protocol = "2.x" /\ phase[m] = "read" /\ seen[m].stored /\ ~seen[m].active
      => m.tx \in disturbed \/ (m.rank = 2 /\ EndHandled(m.tx))

EndInv ==
  /\ TypeInv /\ OwnProtocol /\ StartOf16 /\ Read16 /\ StopInv /\ EndIsStored
  /\ InactiveHasCause /\ SeenHasCause /\ EndedStaysInactive

(* What reached the database stays there, and the handler of one event      *)
(* says nothing of another.                                                *)
LEMMA EndStays ==
  ASSUME TypeOK, [Next]_vars, NEW t \in Transactions, EndHandled(t) PROVE EndHandled(t)'
<1> SUFFICES ASSUME NEW n \in Messages, Handled(n) PROVE Handled(n)'
  BY DEF EndHandled
<1> USE DEF TypeOK, Handled, Becomes, handler
<1>1. ASSUME NEW m \in Messages, Send(m) PROVE Handled(n)'
  BY <1>1 DEF Send
<1>2. ASSUME NEW m \in Messages, Handle(m) PROVE Handled(n)'
  <2>1. CASE Read(m)
    BY <2>1 DEF Read
  <2>2. CASE Insert(m) \/ Update(m)
    BY <2>2 DEF Insert, Update
  <2>3. CASE FindOthers(m) \/ LoadOthers(m) \/ \E u \in Transactions : MakeInactive(m, u)
    BY <2>3 DEF FindOthers, LoadOthers, MakeInactive
  <2>4. CASE Conclude(m) \/ Fail(m)
    BY <2>4 DEF Conclude, Fail
  <2> QED
    BY <1>2, <2>1, <2>2, <2>3, <2>4 DEF Handle
<1>3. ASSUME NEW m \in Messages, Handle16(m) PROVE Handled(n)'
  <2>1. CASE StartTransaction(m) \/ StoreMeterValues(m)
    BY <2>1 DEF StartTransaction, StoreMeterValues
  <2>2. CASE ReadAgain(m) \/ Stop(m) \/ SaveStop(m)
    BY <2>2 DEF ReadAgain, Stop, SaveStop
  <2> QED
    BY <1>3, <2>1, <2>2 DEF Handle16
<1>4. ASSUME NEW u \in Transactions, StationReports(u) \/ ApplyStatus(u) \/ Tick(u) \/ NotifyCost(u)
      PROVE  Handled(n)'
  BY <1>4 DEF StationReports, ApplyStatus, Tick, NotifyCost
<1>5. CASE UNCHANGED vars
  BY <1>5 DEF vars
<1> QED
  BY <1>1, <1>2, <1>3, <1>4, <1>5 DEF Next

(* A step that handles no end handles none.                                *)
LEMMA NoEnd ==
  ASSUME NEW m \in Messages, \A n \in Messages \ {m} : phase'[n] = phase[n],
         m.rank < 2 \/ (Handled(m)' => Handled(m)),
         NEW t \in Transactions, EndHandled(t)'
  PROVE  EndHandled(t)
<1>1. PICK n \in Messages : n.tx = t /\ n.rank = 2 /\ Handled(n)'
  BY DEF EndHandled
<1>2. CASE n # m
  BY <1>1, <1>2 DEF Handled, EndHandled
<1>3. CASE n = m
  BY <1>1, <1>3 DEF EndHandled
<1> QED
  BY <1>2, <1>3

(* EndInv in the next state, but for the types and StopInv.                 *)
EndGoal == OwnProtocol' /\ StartOf16' /\ Read16' /\ EndIsStored'
           /\ InactiveHasCause' /\ SeenHasCause' /\ EndedStaysInactive'

(* A step that handles no end, creates no row and keeps the rows it does    *)
(* not count as disturbed, but for those that ended, keeps EndInv.          *)
LEMMA QuietStep ==
  ASSUME EndInv, [Next]_vars, protocol' = protocol, stored' = stored,
         disturbed \subseteq disturbed',
         \A t \in Transactions : t \notin disturbed' =>
            /\ t \in active' => t \in active
            /\ t \in active /\ t \notin active' => EndHandled(t),
         \A t \in Transactions : EndHandled(t)' => EndHandled(t),
         \A m \in Messages : phase[m] = "new" /\ phase'[m] # "new" => m.protocol = protocol,
         \A m \in Messages : phase[m] \notin {"new", "sent"} => phase'[m] \notin {"new", "sent"},
         \A m \in Messages : phase'[m] = "read" => phase[m] = "read",
         \A m \in Messages : phase'[m] = "stopping" => phase[m] \in {"read", "stopping"},
         \A m \in Messages : phase'[m] = "read" =>
            seen'[m].stored = seen[m].stored /\ seen'[m].active = seen[m].active
  PROVE  EndGoal
<1>1. \A t \in Transactions : EndHandled(t) => EndHandled(t)'
  BY EndStays DEF EndInv, TypeInv
<1>2. OwnProtocol'
  BY DEF EndInv, OwnProtocol
<1>3. StartOf16'
  BY DEF EndInv, StartOf16
<1>4. Read16'
  BY DEF EndInv, Read16
<1>5. EndIsStored'
  BY DEF EndInv, EndIsStored
<1>6. InactiveHasCause'
  BY <1>1 DEF EndInv, InactiveHasCause
<1>7. SeenHasCause'
  <2> SUFFICES ASSUME NEW m \in Messages, m.protocol = "2.x", phase'[m] = "read",
                      seen'[m].stored, ~seen'[m].active
               PROVE  m.tx \in disturbed' \/ (m.rank = 2 /\ EndHandled(m.tx)')
    BY DEF SeenHasCause
  <2> QED
    BY <1>1, MessageType DEF EndInv, SeenHasCause
<1>8. EndedStaysInactive'
  BY DEF EndInv, EndedStaysInactive
<1> QED
  BY <1>2, <1>3, <1>4, <1>5, <1>6, <1>7, <1>8 DEF EndGoal

LEMMA EndInvInit == Init => EndInv
<1> SUFFICES ASSUME Init PROVE EndInv
  OBVIOUS
<1>1. \A m \in Messages : phase[m] = "new"
  BY DEF Init
<1>2. \A t \in Transactions : ~EndHandled(t)
  BY <1>1 DEF EndHandled, Handled
<1>3. StopInv
  BY <1>1 DEF Init, StopInv
<1> QED
  BY <1>1, <1>2, <1>3, TypeInvInit DEF Init, EndInv, OwnProtocol, StartOf16, Read16,
     EndIsStored, InactiveHasCause, SeenHasCause, EndedStaysInactive

(* A handler that reads keeps EndInv: what it reads as inactive has a cause. *)
LEMMA ReadStep == ASSUME EndInv, NEW m \in Messages, Read(m) PROVE EndGoal
<1> USE DEF EndInv, rows, station, Becomes
<1>t. phase \in [Messages -> Phases] /\ seen \in [Messages -> Snapshot]
  BY DEF TypeInv, TypeOK
<1>1. \A t \in Transactions : EndHandled(t)' <=> EndHandled(t)
  <2>1. \A n \in Messages : Handled(n)' <=> Handled(n)
    BY <1>t DEF Read, Handled
  <2> QED
    BY <2>1 DEF EndHandled
<1>2. stored' = stored /\ active' = active /\ protocol' = protocol
  BY DEF Read
<1>3. OwnProtocol'
  BY <1>t, <1>2 DEF OwnProtocol, Read
<1>4. StartOf16'
  <2>1. \A n \in Messages : phase[n] \notin {"new", "sent"} => phase'[n] \notin {"new", "sent"}
    BY <1>t DEF Read
  <2> QED
    BY <2>1, <1>2 DEF StartOf16
<1>5. Read16'
  BY <1>t, <1>2 DEF Read16, Read
<1>6. disturbed \subseteq disturbed'
  BY DEF Read
<1>7. EndIsStored' /\ InactiveHasCause' /\ EndedStaysInactive'
  BY <1>1, <1>2, <1>6 DEF EndIsStored, InactiveHasCause, EndedStaysInactive
<1>8. SeenHasCause'
  <2> SUFFICES ASSUME NEW n \in Messages, n.protocol = "2.x", phase'[n] = "read",
                      seen'[n].stored, ~seen'[n].active
               PROVE  n.tx \in disturbed' \/ (n.rank = 2 /\ EndHandled(n.tx)')
    BY DEF SeenHasCause
  <2>t. n.tx \in Transactions /\ n.rank \in 0..2
    BY MessageType
  <2>1. CASE n # m
    <3>1. phase'[n] = phase[n] /\ seen'[n] = seen[n]
      BY <1>t, <2>1 DEF Read
    <3> QED
      BY <1>1, <1>6, <2>t, <3>1 DEF SeenHasCause
  <2>2. CASE n = m
    <3>1. seen'[m] = Row(m.tx)
      BY <1>t, <2>2 DEF Read
    <3>2. m.tx \in stored /\ m.tx \notin active
      <4>1. Row(m.tx).stored = (m.tx \in stored) /\ Row(m.tx).active = (m.tx \in active)
        BY Zenon DEF Row
      <4>2. seen'[m].stored /\ ~seen'[m].active
        BY <2>2
      <4> QED
        BY <3>1, <4>1, <4>2
    <3>3. m.tx \in disturbed \/ EndHandled(m.tx)
      BY <2>2, <2>t, <3>2 DEF InactiveHasCause
    <3>4. m.rank < 2 /\ EndHandled(m.tx) => m.tx \in disturbed'
      BY <1>t, <2>2 DEF Read
    <3> QED
      BY <1>1, <1>6, <2>2, <2>t, <3>3, <3>4
  <2> QED
    BY <2>1, <2>2
<1> QED
  BY <1>3, <1>4, <1>5, <1>7, <1>8 DEF EndGoal

(* A row that is created was not there, so nothing of it had ended.         *)
LEMMA InsertStep == ASSUME EndInv, [Next]_vars, NEW m \in Messages, Insert(m) PROVE EndGoal
<1> USE DEF EndInv, station, Becomes
<1>t. /\ phase \in [Messages -> Phases] /\ active \subseteq stored
      /\ m.tx \in Transactions /\ m.rank \in 0..2
  BY MessageType DEF TypeInv, TypeOK
<1>0. \A n \in Messages \ {m} : phase'[n] = phase[n]
  BY <1>t DEF Insert
<1>1. CASE m.tx \in stored
  <2>1. Handled(m)' => Handled(m)
    BY <1>1, <1>t DEF Insert, Handled
  <2>2. \A t \in Transactions : EndHandled(t)' => EndHandled(t)
    BY <1>0, <2>1, NoEnd
  <2>3. seen' = seen /\ stored' = stored /\ active' = active
    BY <1>1 DEF Insert
  <2>4. /\ \A n \in Messages : phase[n] = "new" /\ phase'[n] # "new" => n.protocol = protocol
        /\ \A n \in Messages : phase[n] \notin {"new", "sent"} => phase'[n] \notin {"new", "sent"}
        /\ \A n \in Messages : phase'[n] = "read" => phase[n] = "read" /\ seen'[n] = seen[n]
        /\ \A n \in Messages : phase'[n] = "stopping" => phase[n] = "stopping"
    BY <1>1, <1>t, <2>3 DEF Insert
  <2>5. disturbed' = disturbed /\ protocol' = protocol
    BY DEF Insert
  <2> QED
    BY <2>2, <2>3, <2>4, <2>5, QuietStep
<1>2. CASE m.tx \notin stored
  <2>1. /\ stored' = stored \union {m.tx} /\ disturbed' = disturbed /\ protocol' = protocol
        /\ phase' = [phase EXCEPT ![m] = "written"]
        /\ active' = IF m.rank < 2 THEN active \union {m.tx} ELSE active
        /\ phase[m] = "read" /\ m.protocol = "2.x" /\ WriteMeter(m)
    BY <1>2 DEF Insert
  <2>2. ~EndHandled(m.tx)
    BY <1>2, <1>t DEF EndIsStored
  <2>3. \A t \in Transactions : t # m.tx => (EndHandled(t)' <=> EndHandled(t))
    BY <1>0 DEF EndHandled, Handled
  <2>4. m.rank < 2 => ~EndHandled(m.tx)'
    BY <1>0, <2>2, <1>t, NoEnd
  <2>5. m.rank = 2 => EndHandled(m.tx)'
    BY <2>1, <1>t DEF EndHandled, Handled
  <2>6. protocol = "2.x"
    BY <2>1 DEF OwnProtocol
  <2>7. OwnProtocol' /\ StartOf16'
    BY <2>1, <2>6, <1>t DEF OwnProtocol, StartOf16
  <2>8. Read16'
    BY <2>1, <1>t DEF Read16
  <2>9. EndIsStored'
    BY <2>1, <2>3 DEF EndIsStored
  <2>10. InactiveHasCause'
    BY <2>1, <2>3, <2>5, <1>t DEF InactiveHasCause
  <2>11. SeenHasCause'
    <3> SUFFICES ASSUME NEW n \in Messages, n.protocol = "2.x", phase'[n] = "read",
                        seen'[n].stored, ~seen'[n].active
                 PROVE  n.tx \in disturbed \/ (n.rank = 2 /\ EndHandled(n.tx)')
      BY <2>1 DEF SeenHasCause
    <3>1. n # m /\ phase[n] = "read"
      BY <2>1, <1>t
    <3>2. seen[n].stored /\ ~seen[n].active
      BY <2>1, WriteMeterType
    <3>3. n.tx \in Transactions
      BY MessageType
    <3> QED
      BY <2>1, <3>1, <3>2, <3>3, EndStays DEF SeenHasCause, TypeInv
  <2>12. EndedStaysInactive'
    BY <2>1, <2>3, <2>4, <1>2, <1>t DEF EndedStaysInactive
  <2> QED
    BY <2>7, <2>8, <2>9, <2>10, <2>11, <2>12 DEF EndGoal
<1> QED
  BY <1>1, <1>2

(* An event that reactivates a row has read it as inactive before the end,  *)
(* so the row counts as disturbed.                                         *)
LEMMA UpdateStep == ASSUME EndInv, [Next]_vars, NEW m \in Messages, Update(m) PROVE EndGoal
<1> USE DEF EndInv, station, Becomes
<1>t. /\ phase \in [Messages -> Phases] /\ active \subseteq stored
      /\ m.tx \in Transactions /\ m.rank \in 0..2
  BY MessageType DEF TypeInv, TypeOK
<1>1. /\ stored' = stored /\ disturbed' = disturbed /\ protocol' = protocol
      /\ phase' = [phase EXCEPT ![m] = "written"]
      /\ phase[m] = "read" /\ m.protocol = "2.x" /\ seen[m].stored /\ WriteMeter(m)
  BY DEF Update
<1>2. /\ m.rank < 2 /\ ~seen[m].active => active' = active \union {m.tx}
      /\ m.rank = 2 /\ seen[m].active => active' = active \ {m.tx}
      /\ m.rank < 2 /\ seen[m].active => active' = active
      /\ m.rank = 2 /\ ~seen[m].active => active' = active
  BY <1>t DEF Update
<1>3. m.tx \in stored
  BY <1>1 DEF TypeInv, SeenStored
<1>4. \A t \in Transactions : t # m.tx => (EndHandled(t)' <=> EndHandled(t))
  BY <1>1, <1>t DEF EndHandled, Handled
<1>5. m.rank < 2 => (EndHandled(m.tx)' => EndHandled(m.tx))
  BY <1>1, <1>t, NoEnd
<1>6. m.rank = 2 => EndHandled(m.tx)'
  BY <1>1, <1>t DEF EndHandled, Handled
<1>7. ~seen[m].active => m.tx \in disturbed \/ (m.rank = 2 /\ EndHandled(m.tx))
  BY <1>1 DEF SeenHasCause
<1>8. \A t \in Transactions : EndHandled(t) => EndHandled(t)'
  BY EndStays DEF TypeInv
<1>9. OwnProtocol' /\ StartOf16'
  BY <1>1, <1>t DEF OwnProtocol, StartOf16
<1>10. Read16'
  BY <1>1, <1>t DEF Read16
<1>11. EndIsStored'
  BY <1>1, <1>3, <1>4 DEF EndIsStored
<1>12. InactiveHasCause'
  <2> SUFFICES ASSUME NEW t \in Transactions, t \in stored, t \notin active'
               PROVE  t \in disturbed \/ EndHandled(t)'
    BY <1>1 DEF InactiveHasCause
  <2>1. CASE t \notin active
    BY <1>8, <2>1 DEF InactiveHasCause
  <2>2. CASE t \in active
    <3>1. t = m.tx /\ m.rank = 2
      BY <1>2, <1>t, <2>2
    <3> QED
      BY <1>6, <3>1
  <2> QED
    BY <2>1, <2>2
<1>13. SeenHasCause'
  <2> SUFFICES ASSUME NEW n \in Messages, n.protocol = "2.x", phase'[n] = "read",
                      seen'[n].stored, ~seen'[n].active
               PROVE  n.tx \in disturbed \/ (n.rank = 2 /\ EndHandled(n.tx)')
    BY <1>1 DEF SeenHasCause
  <2>1. n # m /\ phase[n] = "read"
    BY <1>1, <1>t
  <2>2. seen[n].stored /\ ~seen[n].active
    BY <1>1, WriteMeterType
  <2>3. n.tx \in Transactions
    BY MessageType
  <2> QED
    BY <1>8, <2>1, <2>2, <2>3 DEF SeenHasCause
<1>14. EndedStaysInactive'
  <2> SUFFICES ASSUME NEW t \in Transactions, EndHandled(t)', t \in active'
               PROVE  t \in disturbed
    BY <1>1 DEF EndedStaysInactive
  <2>1. CASE t # m.tx
    <3>1. EndHandled(t) /\ t \in active
      BY <1>2, <1>4, <1>t, <2>1
    <3> QED
      BY <3>1 DEF EndedStaysInactive
  <2>2. CASE t = m.tx
    <3>1. CASE ~seen[m].active
      BY <1>2, <1>7, <1>t, <2>2, <3>1 DEF EndedStaysInactive
    <3>2. CASE seen[m].active
      <4>1. m.rank < 2 /\ t \in active
        BY <1>2, <1>t, <2>2, <3>2
      <4> QED
        BY <1>5, <2>2, <4>1 DEF EndedStaysInactive
    <3> QED
      BY <3>1, <3>2
  <2> QED
    BY <2>1, <2>2
<1> QED
  BY <1>9, <1>10, <1>11, <1>12, <1>13, <1>14 DEF EndGoal

(* OCPP 1.6: the one start of a transaction comes before its row.           *)
LEMMA StartStep ==
  ASSUME EndInv, [Next]_vars, NEW m \in Messages, StartTransaction(m) PROVE EndGoal
<1> USE DEF EndInv, station, Becomes
<1>t. /\ phase \in [Messages -> Phases]
      /\ m.tx \in Transactions /\ m.rank \in 0..2
  BY MessageType DEF TypeInv, TypeOK
<1>1. /\ disturbed' = disturbed /\ protocol' = protocol /\ seen' = seen
      /\ phase' = [phase EXCEPT ![m] = "written"]
      /\ phase[m] = "sent" /\ m.protocol = "1.6" /\ m.rank = 0
  BY DEF StartTransaction
<1>2. \/ stored' = stored /\ active' = active
      \/ stored' = stored \union {m.tx} /\ active' = active \union {m.tx}
  BY DEF StartTransaction
<1>3. protocol = "1.6"
  BY <1>1 DEF OwnProtocol
<1>4. m.tx \notin stored
  BY <1>1, <1>3, MessagesAssumption DEF StartOf16
<1>5. \A t \in Transactions : EndHandled(t)' <=> EndHandled(t)
  <2>1. \A t \in Transactions : EndHandled(t)' => EndHandled(t)
    BY <1>1, <1>t, NoEnd
  <2> QED
    BY <2>1, EndStays DEF TypeInv
<1>6. OwnProtocol'
  BY <1>1, <1>3, <1>t DEF OwnProtocol
<1>7. StartOf16'
  <2>1. \A n \in Messages : phase[n] \notin {"new", "sent"} => phase'[n] \notin {"new", "sent"}
    BY <1>1, <1>t
  <2>2. phase'[m] \notin {"new", "sent"}
    BY <1>1, <1>t
  <2> QED
    BY <1>1, <1>2, <2>1, <2>2 DEF StartOf16
<1>8. Read16'
  BY <1>1, <1>2, <1>t DEF Read16
<1>9. EndIsStored'
  BY <1>2, <1>5 DEF EndIsStored
<1>10. InactiveHasCause'
  BY <1>1, <1>2, <1>5 DEF InactiveHasCause
<1>11. SeenHasCause'
  <2> SUFFICES ASSUME NEW n \in Messages, n.protocol = "2.x", phase'[n] = "read",
                      seen'[n].stored, ~seen'[n].active
               PROVE  n.tx \in disturbed \/ (n.rank = 2 /\ EndHandled(n.tx)')
    BY <1>1 DEF SeenHasCause
  <2>1. phase[n] = "read" /\ seen[n].stored /\ ~seen[n].active /\ n.tx \in Transactions
    BY <1>1, <1>t, MessageType
  <2> QED
    BY <1>5, <2>1 DEF SeenHasCause
<1>12. EndedStaysInactive'
  BY <1>1, <1>2, <1>4, <1>5 DEF EndedStaysInactive, EndIsStored
<1> QED
  BY <1>6, <1>7, <1>8, <1>9, <1>10, <1>11, <1>12 DEF EndGoal

(* OCPP 1.6: what a StopTransaction has not made inactive was inactive when *)
(* it looked, and stays so.                                                *)
LEMMA StopStep == ASSUME EndInv, [Next]_vars, NEW m \in Messages, Stop(m) PROVE EndGoal
<1> USE DEF EndInv, station, Becomes
<1>t. /\ phase \in [Messages -> Phases] /\ m.tx \in Transactions
  BY MessageType DEF TypeInv, TypeOK
<1>1. /\ stored' = stored /\ disturbed' = disturbed /\ protocol' = protocol /\ seen' = seen
      /\ phase' = [phase EXCEPT ![m] = "stopped"] /\ phase[m] = "stopping"
      /\ active' = active \ others[m]
  BY DEF Stop, history
<1>2. m.protocol = "1.6" /\ m.rank = 2 /\ others[m] \subseteq {m.tx}
  BY <1>1 DEF StopInv
<1>3. m.tx \in stored
  BY <1>1, <1>2 DEF Read16
<1>4. m.tx \notin active'
  BY <1>1 DEF StopInv
<1>5. \A t \in Transactions : t # m.tx => (EndHandled(t)' <=> EndHandled(t))
  BY <1>1, <1>t DEF EndHandled, Handled
<1>6. EndHandled(m.tx)'
  BY <1>1, <1>2, <1>t DEF EndHandled, Handled
<1>7. OwnProtocol' /\ StartOf16' /\ Read16'
  BY <1>1, <1>t DEF OwnProtocol, StartOf16, Read16
<1>8. EndIsStored'
  BY <1>1, <1>3, <1>5 DEF EndIsStored
<1>9. InactiveHasCause'
  BY <1>1, <1>2, <1>5, <1>6 DEF InactiveHasCause
<1>10. SeenHasCause'
  <2> SUFFICES ASSUME NEW n \in Messages, n.protocol = "2.x", phase'[n] = "read",
                      seen'[n].stored, ~seen'[n].active
               PROVE  n.tx \in disturbed' \/ (n.rank = 2 /\ EndHandled(n.tx)')
    BY DEF SeenHasCause
  <2>1. phase[n] = "read" /\ n.tx \in Transactions
    BY <1>1, <1>t, MessageType
  <2> QED
    BY <1>1, <1>5, <1>6, <2>1 DEF SeenHasCause
<1>11. EndedStaysInactive'
  BY <1>1, <1>4, <1>5 DEF EndedStaysInactive
<1> QED
  BY <1>7, <1>8, <1>9, <1>10, <1>11 DEF EndGoal

LEMMA StopInvNext == ASSUME EndInv, [Next]_vars PROVE StopInv'
<1> USE DEF EndInv, station, handler, rows, costs, asked, history, Becomes
<1>t. phase \in [Messages -> Phases] /\ others \in [Messages -> SUBSET Transactions]
  BY DEF TypeInv, TypeOK
(* A step that makes none active in OCPP 1.6 and asks nothing.              *)
<1>q. ASSUME protocol' = protocol, status' = status,
             \A m \in Messages : phase'[m] = "stopping" =>
                /\ phase[m] = "stopping" /\ others'[m] = others[m]
                /\ m.protocol = "1.6" => (m.tx \in active' => m.tx \in active),
             \A m \in Messages : phase'[m] = "stopped" => phase[m] \in {"stopping", "stopped"}
      PROVE  StopInv'
  BY <1>q DEF StopInv
<1>1. ASSUME NEW m \in Messages, Send(m) \/ Read(m) \/ FindOthers(m) \/ LoadOthers(m)
             \/ Conclude(m) \/ Fail(m) \/ StoreMeterValues(m)
      PROVE  StopInv'
  <2>1. /\ protocol' = protocol /\ status' = status /\ active' = active
        /\ phase[m] # "stopping" /\ phase'[m] \notin {"stopping", "stopped"}
        /\ \A n \in Messages \ {m} : phase'[n] = phase[n] /\ others'[n] = others[n]
    BY <1>1, <1>t DEF Send, Read, FindOthers, LoadOthers, Conclude, Fail, StoreMeterValues,
       OthersDone
  <2> QED
    BY <2>1, <1>q
<1>2. ASSUME NEW m \in Messages, Insert(m) \/ Update(m) PROVE StopInv'
  <2>1. /\ protocol' = protocol /\ status' = status /\ others' = others
        /\ phase[m] = "read" /\ phase'[m] \in {"written", "failed"}
        /\ m.protocol = "2.x"
        /\ \A n \in Messages \ {m} : phase'[n] = phase[n]
    BY <1>2, <1>t DEF Insert, Update
  <2>2. protocol = "2.x"
    BY <2>1 DEF OwnProtocol
  <2>3. \A n \in Messages : phase'[n] # "stopping"
    BY <2>1, <2>2 DEF StopInv, OwnProtocol
  <2> QED
    BY <2>1, <2>3, <1>q
<1>3. ASSUME NEW m \in Messages, NEW u \in Transactions, MakeInactive(m, u) PROVE StopInv'
  <2>1. /\ protocol' = protocol /\ status' = status /\ active' \subseteq active
        /\ phase' = phase /\ phase[m] = "loaded"
        /\ \A n \in Messages \ {m} : others'[n] = others[n]
    BY <1>3, <1>t DEF MakeInactive
  <2> QED
    BY <2>1, <1>q
<1>4. ASSUME NEW m \in Messages, StartTransaction(m) PROVE StopInv'
  <2>1. /\ protocol' = protocol /\ status' = status /\ others' = others
        /\ phase' = [phase EXCEPT ![m] = "written"] /\ active' \subseteq active \union {m.tx}
        /\ m.protocol = "1.6" /\ m.rank = 0 /\ phase[m] = "sent"
    BY <1>4 DEF StartTransaction
  <2>2. m.tx \notin stored
    BY <2>1, MessagesAssumption DEF StartOf16, OwnProtocol
  <2>3. \A n \in Messages : phase'[n] = "stopping" =>
           phase[n] = "stopping" /\ n.protocol = "1.6" /\ n.tx \in stored
    BY <2>1, <1>t DEF StopInv, Read16
  <2> QED
    BY <2>1, <2>2, <2>3, <1>q
<1>5. ASSUME NEW m \in Messages, ReadAgain(m) PROVE StopInv'
  <2>1. /\ protocol' = protocol /\ status' = status /\ active' = active
        /\ phase' = [phase EXCEPT ![m] = "stopping"] /\ m.protocol = "1.6" /\ m.rank = 2
        /\ others' = [others EXCEPT ![m] = active \intersect {m.tx}]
    BY <1>5 DEF ReadAgain
  <2> QED
    BY <2>1, <1>t DEF StopInv
<1>6. ASSUME NEW m \in Messages, Stop(m) \/ SaveStop(m) PROVE StopInv'
  <2>1. /\ protocol' = protocol /\ status' = status /\ active' \subseteq active
        /\ phase'[m] # "stopping" /\ (phase'[m] = "stopped" => phase[m] = "stopping")
        /\ \A n \in Messages \ {m} : phase'[n] = phase[n] /\ others'[n] = others[n]
    BY <1>6, <1>t DEF Stop, SaveStop
  <2> QED
    BY <2>1, <1>q
<1>7. ASSUME NEW t \in Transactions, StationReports(t) \/ ApplyStatus(t) PROVE StopInv'
  <2>1. protocol' = protocol /\ phase' = phase /\ protocol # "1.6"
    BY <1>7 DEF StationReports, ApplyStatus, StopInv
  <2>2. \A n \in Messages : phase[n] # "stopping"
    BY <2>1 DEF StopInv, OwnProtocol
  <2> QED
    BY <2>1, <2>2 DEF StopInv
<1>8. ASSUME NEW t \in Transactions, Tick(t) \/ NotifyCost(t) PROVE StopInv'
  BY <1>8, <1>q DEF Tick, NotifyCost
<1>9. CASE UNCHANGED vars
  BY <1>9, <1>q DEF vars
<1> QED
  BY <1>1, <1>2, <1>3, <1>4, <1>5, <1>6, <1>7, <1>8, <1>9 DEF Next, Handle, Handle16

LEMMA EndInvNext == EndInv /\ [Next]_vars => EndInv'
<1> SUFFICES ASSUME EndInv, [Next]_vars PROVE EndGoal
  BY TypeInvNext, StopInvNext DEF EndInv, EndGoal
<1> USE DEF station, handler, rows, costs, asked, history, Becomes
<1>t. phase \in [Messages -> Phases] /\ seen \in [Messages -> Snapshot]
  BY DEF EndInv, TypeInv, TypeOK
<1>1. ASSUME NEW m \in Messages, Send(m) \/ FindOthers(m) \/ LoadOthers(m) \/ ReadAgain(m)
      PROVE  EndGoal
  <2>1. /\ protocol' = protocol /\ stored' = stored /\ active' = active /\ seen' = seen
        /\ disturbed' = disturbed /\ (phase[m] = "new" => m.protocol = protocol)
        /\ \A n \in Messages \ {m} : phase'[n] = phase[n]
        /\ phase[m] \notin {"new", "sent"} => phase'[m] \notin {"new", "sent"}
        /\ phase'[m] # "read" /\ (phase'[m] = "stopping" => phase[m] = "read")
        /\ Handled(m)' => Handled(m)
    BY <1>1, <1>t DEF Send, FindOthers, LoadOthers, ReadAgain, Handled
  <2>2. \A t \in Transactions : EndHandled(t)' => EndHandled(t)
    BY <2>1, NoEnd
  <2> QED
    BY <2>1, <2>2, QuietStep
<1>2. ASSUME NEW m \in Messages, Conclude(m) \/ Fail(m) \/ StoreMeterValues(m) PROVE EndGoal
  <2>1. /\ protocol' = protocol /\ stored' = stored /\ active' = active
        /\ disturbed' = disturbed
        /\ phase[m] \in {"written", "found", "loaded", "read"}
        /\ \A n \in Messages \ {m} : phase'[n] = phase[n]
        /\ phase'[m] \in {"done", "thrown"}
        /\ m.rank < 2 \/ Handled(m)
    BY <1>2, <1>t DEF Conclude, Fail, StoreMeterValues, OthersDone, Handled
  <2>2. \A n \in Messages \ {m} : seen'[n] = seen[n]
    BY <1>2, <1>t, WriteMeterType DEF Conclude, Fail, StoreMeterValues, EndInv
  <2>3. \A t \in Transactions : EndHandled(t)' => EndHandled(t)
    BY <2>1, NoEnd
  <2> QED
    BY <2>1, <2>2, <2>3, QuietStep
<1>3. ASSUME NEW m \in Messages, NEW u \in Transactions, MakeInactive(m, u) PROVE EndGoal
  <2>1. /\ protocol' = protocol /\ stored' = stored /\ phase' = phase /\ seen' = seen
        /\ disturbed \subseteq disturbed' /\ active' \subseteq active
        /\ active \ active' \subseteq disturbed'
    BY <1>3 DEF MakeInactive
  <2>2. \A t \in Transactions : EndHandled(t)' => EndHandled(t)
    BY <2>1 DEF EndHandled, Handled
  <2> QED
    BY <2>1, <2>2, QuietStep
<1>4. ASSUME NEW m \in Messages, SaveStop(m) PROVE EndGoal
  <2>1. /\ protocol' = protocol /\ stored' = stored /\ disturbed' = disturbed
        /\ phase[m] = "stopped" /\ phase' = [phase EXCEPT ![m] = "done"]
        /\ seen' = [seen EXCEPT ![m] = NoRow]
        /\ active' \subseteq active /\ active \ active' \subseteq {m.tx}
    BY <1>4 DEF SaveStop
  <2>2. Handled(m) /\ m.rank \in 0..2 /\ m.tx \in Transactions
    BY <2>1, MessageType DEF Handled
  <2>3. m.rank = 2
    BY <2>1 DEF EndInv, StopInv
  <2>4. \A t \in Transactions : EndHandled(t)' => EndHandled(t)
    BY <2>1, <2>2, <1>t DEF EndHandled, Handled
  <2>5. \A t \in active \ active' : EndHandled(t)
    BY <2>1, <2>2, <2>3 DEF EndHandled
  <2> QED
    BY <2>1, <2>4, <2>5, <1>t, QuietStep
<1>5. ASSUME NEW m \in Messages, Handle(m) PROVE EndGoal
  BY <1>1, <1>2, <1>3, <1>5, ReadStep, InsertStep, UpdateStep DEF Handle
<1>6. ASSUME NEW m \in Messages, Handle16(m) PROVE EndGoal
  BY <1>1, <1>2, <1>4, <1>6, StartStep, StopStep DEF Handle16
<1>7. ASSUME NEW t \in Transactions, ApplyStatus(t) PROVE EndGoal
  <2>1. /\ protocol' = protocol /\ stored' = stored /\ phase' = phase /\ seen' = seen
        /\ disturbed \subseteq disturbed'
    BY <1>7 DEF ApplyStatus
  <2>2. \A u \in Transactions : u \notin disturbed' => (u \in active' <=> u \in active)
    BY <1>7 DEF ApplyStatus
  <2>3. \A u \in Transactions : EndHandled(u)' => EndHandled(u)
    BY <2>1 DEF EndHandled, Handled
  <2> QED
    BY <2>1, <2>2, <2>3, QuietStep
<1>8. ASSUME \/ \E t \in Transactions : StationReports(t) \/ Tick(t) \/ NotifyCost(t)
             \/ UNCHANGED vars
      PROVE  EndGoal
  <2>1. /\ protocol' = protocol /\ stored' = stored /\ active' = active /\ phase' = phase
        /\ seen' = seen /\ disturbed' = disturbed
    BY <1>8 DEF StationReports, Tick, NotifyCost, vars
  <2>2. \A u \in Transactions : EndHandled(u)' => EndHandled(u)
    BY <2>1 DEF EndHandled, Handled
  <2> QED
    BY <2>1, <2>2, QuietStep
<1> QED
  BY <1>1, <1>5, <1>6, <1>7, <1>8 DEF Next

(* A transaction whose end reached the database is active again only after  *)
(* it was disturbed: an event read after the end, a query, another one.     *)
THEOREM EndedAlwaysInactive == Spec => []EndedStaysInactive
  BY EndInvInit, EndInvNext, PTL DEF Spec, EndInv

(***************************************************************************)
(* The final bill                                                          *)
(***************************************************************************)

(* The row is the one the start created, and so is what a handler has read. *)
MeterOf(t) ==
  /\ t \in placed /\ meterStart[t] = Register(0)
  /\ \A m \in Messages : m.tx = t /\ seen[m].stored =>
        seen[m].start = Register(0) /\ seen[m].placed

(* An end whose energy is that between the two registers.                   *)
Counts(m) == m.rank = 2 /\ (m.protocol = "1.6" \/ m.meter = "register")

(* It writes that energy, and its handler goes on with what it wrote ...    *)
EnergyOf(t) ==
  \A m \in Messages : m.tx = t /\ Counts(m) =>
    /\ Handled(m) /\ phase[m] # "stopped" => kwh[t] = 2
    /\ m.protocol = "2.x" /\ phase[m] = "written" => seen[m].kwh = 2 /\ seen[m].placed

(* ... to store the cost of just that.                                      *)
CostOf(t) ==
  \A m \in Messages :
    m.tx = t /\ Counts(m) /\ m.protocol = "2.x" /\ ~m.token /\ phase[m] = "done"
      => cost[t] = 2

Bill(t) == MeterOf(t) /\ EnergyOf(t) /\ CostOf(t)

(* A row that is not there has no register reading.                         *)
NoMeter ==
  /\ \A t \in Transactions \ stored : meterStart[t] = None
  /\ \A m \in Messages : phase[m] = "read" /\ ~seen[m].stored => seen[m].start = None

BillInv ==
  /\ metered \subseteq placed
  /\ \A m \in Messages : phase[m] = "read" /\ m.protocol = "1.6" => seen[m].stored
  /\ \A t \in metered \ late : Bill(t)

(* The ends of a transaction count alike.                                   *)
LEMMA EndsAlike ==
  ASSUME NEW m \in Messages, NEW n \in Messages, Counts(n),
         m.rank = 2, m.tx = n.tx, m.protocol = n.protocol
  PROVE  Counts(m)
  BY MessagesAssumption DEF Counts

(* A step that writes neither the energy nor the cost of t, and ends no     *)
(* handler of its end.                                                     *)
LEMMA QuietBill ==
  ASSUME NEW t \in Transactions, Bill(t),
         t \in placed', meterStart'[t] = meterStart[t], kwh'[t] = kwh[t], cost'[t] = cost[t],
         \A n \in Messages : n.tx = t => seen'[n] = seen[n] \/ ~seen'[n].stored,
         \A n \in Messages : n.tx = t /\ n.rank = 2 =>
            /\ Handled(n)' /\ phase'[n] # "stopped" => Handled(n) /\ phase[n] # "stopped"
            /\ phase'[n] = "written" => phase[n] = "written" /\ seen'[n] = seen[n]
            /\ phase'[n] = "done" => phase[n] = "done"
  PROVE  Bill(t)'
<1>1. MeterOf(t)'
  BY DEF Bill, MeterOf
<1>2. EnergyOf(t)'
  BY DEF Bill, EnergyOf, Counts
<1>3. CostOf(t)'
  BY DEF Bill, CostOf, Counts
<1> QED
  BY <1>1, <1>2, <1>3 DEF Bill

(* A row that its start creates has not ended, and nobody has read it.      *)
LEMMA NewBill ==
  ASSUME EndInv, NEW t \in Transactions \ stored,
         t \in placed', meterStart'[t] = Register(0),
         \A n \in Messages : n.tx = t => seen'[n].stored = seen[n].stored,
         \A n \in Messages : n.tx = t /\ n.rank = 2 => phase'[n] = phase[n]
  PROVE  Bill(t)'
<1>1. \A n \in Messages : n.tx = t => ~seen'[n].stored
  BY DEF EndInv, TypeInv, SeenStored
<1>2. ~EndHandled(t)
  BY DEF EndInv, EndIsStored
<1>3. \A n \in Messages : n.tx = t /\ n.rank = 2 => ~Handled(n)'
  BY <1>2 DEF EndHandled, Handled
<1>4. MeterOf(t)'
  BY <1>1 DEF MeterOf
<1>5. EnergyOf(t)' /\ CostOf(t)'
  BY <1>3 DEF EnergyOf, CostOf, Counts, Handled
<1> QED
  BY <1>4, <1>5 DEF Bill

(* An event that finds the row: its end writes the energy since the start,  *)
(* and one before the end may write what it likes before that.              *)
LEMMA WriteBill ==
  ASSUME EndInv, NEW t \in Transactions \ late', Bill(t), NEW m \in Messages, m.tx = t,
         phase[m] = "read", WriteMeter(m), seen[m].stored,
         placed \subseteq placed', cost' = cost,
         \/ phase' = [phase EXCEPT ![m] = "written"] /\ m.protocol = "2.x"
         \/ phase' = [phase EXCEPT ![m] = "done"] /\ m.rank = 1
  PROVE  Bill(t)'
<1>t. /\ phase \in [Messages -> Phases] /\ seen \in [Messages -> Snapshot]
      /\ kwh \in [Transactions -> Energy] /\ meterStart \in [Transactions -> Energy]
      /\ m.rank \in 0..2 /\ m.evse \in BOOLEAN /\ TypeInv
  BY MessageType DEF EndInv, TypeInv, TypeOK
<1>1. seen[m].start = Register(0) /\ seen[m].placed /\ seen[m].start # None
  BY NoneAssumption DEF Bill, MeterOf, Register
<1>2. /\ seen'[m].start = Register(0) /\ seen'[m].placed
      /\ \A n \in Messages \ {m} : seen'[n] = seen[n]
  BY <1>1, <1>t, WriteMeterType
<1>3. meterStart'[t] = meterStart[t]
  BY <1>1 DEF WriteMeter
<1>4. MeterOf(t)'
  BY <1>2, <1>3 DEF Bill, MeterOf
<1>5. /\ \A n \in Messages \ {m} : phase'[n] = phase[n] /\ (Handled(n)' <=> Handled(n))
      /\ m.rank = 2 => phase'[m] # "done"
  BY <1>t DEF Handled
<1>6. CostOf(t)'
  BY <1>5 DEF Bill, CostOf, Counts
<1>7. ASSUME NEW n \in Messages, n.tx = t, Counts(n), Handled(n)' \/ phase'[n] = "written"
      PROVE  /\ phase'[n] # "stopped" => kwh'[t] = 2
             /\ n.protocol = "2.x" /\ phase'[n] = "written" => seen'[n].kwh = 2 /\ seen'[n].placed
  <2>1. n.protocol = protocol /\ m.protocol = protocol
    <3>1. phase[n] # "new" /\ phase[m] # "new"
      BY <1>5, <1>7, <1>t DEF Handled
    <3> QED
      BY <3>1 DEF EndInv, OwnProtocol
  <2>2. CASE m.rank = 2
    <3>1. m.meter = "register" /\ m.protocol = "2.x"
      BY <1>7, <2>1, <2>2, EndsAlike DEF Counts
    <3>2. Total(m, seen[m]) = 2
      BY <1>1, <2>2, <3>1 DEF Total, Register
    <3>3. kwh'[t] = 2
      BY <3>1, <3>2, <1>t DEF WriteMeter
    <3>4. seen'[m].kwh = 2
      BY <3>2, <1>t, WriteMeterType
    <3>5. n # m /\ phase'[n] = "written" /\ n.protocol = "2.x"
             => seen[n].kwh = 2 /\ seen[n].placed
      BY <1>5, <1>7 DEF Bill, EnergyOf
    <3> QED
      BY <1>2, <3>3, <3>4, <3>5
  <2>3. CASE m.rank < 2
    <3>1. n # m
      BY <1>7, <2>3 DEF Counts
    <3>2. Handled(n)' /\ phase'[n] # "stopped" => EndCounted(t)
      BY <1>5, <1>7, <3>1 DEF EndCounted, Counts
    <3>3. m.meter # "none" => ~EndCounted(t)
      BY <1>t, <2>3 DEF WriteMeter
    <3>4. m.meter = "none" => kwh' = kwh
      BY DEF WriteMeter
    <3>5. Handled(n)
      BY <1>5, <1>7, <3>1 DEF Handled
    <3> QED
      BY <1>2, <1>5, <1>7, <3>1, <3>2, <3>3, <3>4, <3>5 DEF Bill, EnergyOf
  <2> QED
    BY <1>t, <2>2, <2>3
<1>8. EnergyOf(t)'
  BY <1>7 DEF EnergyOf, Handled
<1> QED
  BY <1>4, <1>6, <1>8 DEF Bill

(* The end of a handler: an end stores the cost of what it wrote, and a     *)
(* running cost after an end is one of those the property sets aside.       *)
LEMMA ConcludeBill ==
  ASSUME EndInv, NEW t \in Transactions \ late', Bill(t), NEW m \in Messages, m.tx = t,
         Conclude(m)
  PROVE  Bill(t)'
<1> USE DEF Becomes
<1>t. /\ phase \in [Messages -> Phases] /\ seen \in [Messages -> Snapshot]
      /\ cost \in [Transactions -> Int] /\ m.rank \in 0..2 /\ m.protocol \in Protocols
  BY MessageType DEF EndInv, TypeInv, TypeOK
<1>1. /\ phase' = [phase EXCEPT ![m] = "done"] /\ seen' = [seen EXCEPT ![m] = NoRow]
      /\ phase[m] \in {"written", "loaded"} /\ (m.rank = 2 => phase[m] = "written")
      /\ UNCHANGED <<placed, meterStart, kwh>>
  BY <1>t DEF Conclude, OthersDone, MakesOthersInactive
<1>2. MeterOf(t)'
  BY <1>1, <1>t, NoRowType DEF Bill, MeterOf
<1>3. EnergyOf(t)'
  BY <1>1, <1>t DEF Bill, EnergyOf, Handled
<1>4. CostOf(t)'
  <2> SUFFICES ASSUME NEW n \in Messages, n.tx = t, Counts(n), n.protocol = "2.x", ~n.token,
                      phase'[n] = "done"
               PROVE  cost'[t] = 2
    BY DEF CostOf
  <2>1. m.protocol = n.protocol
    <3>1. phase[m] # "new" /\ phase[n] # "new"
      BY <1>1, <1>t
    <3> QED
      BY <3>1 DEF EndInv, OwnProtocol
  <2>2. n # m => cost[t] = 2
    BY <1>1, <1>t DEF Bill, CostOf
  <2>3. CASE m.rank = 2
    <3>1. Counts(m)
      BY <2>1, <2>3, EndsAlike
    <3>2. seen[m].kwh = 2 /\ seen[m].placed
      BY <1>1, <2>1, <2>3, <3>1 DEF Bill, EnergyOf
    <3>3. Cost(seen[m]) = 2
      BY <3>2, NoneAssumption DEF Cost
    <3>4. ~m.token => cost' = [cost EXCEPT ![t] = 2]
      BY <2>1, <2>3, <3>3 DEF Conclude
    <3>5. m.token => cost' = cost
      BY DEF Conclude
    <3> QED
      BY <1>t, <2>2, <3>4, <3>5, MessageType
  <2>4. CASE m.rank < 2
    <3>1. n # m /\ phase[n] = "done" /\ n.rank = 2
      BY <1>1, <1>t, <2>4 DEF Counts
    <3>2. EndCounted(t)
      BY <3>1 DEF EndCounted, Handled
    <3>3. cost'[t] = cost[t]
      BY <1>t, <2>4, <3>2 DEF Conclude
    <3> QED
      BY <2>2, <3>1, <3>3
  <2> QED
    BY <1>t, <2>3, <2>4
<1> QED
  BY <1>2, <1>3, <1>4 DEF Bill

LEMMA NoMeterNext == EndInv /\ NoMeter /\ [Next]_vars => NoMeter'
<1> SUFFICES ASSUME EndInv, NoMeter, [Next]_vars PROVE NoMeter'
  OBVIOUS
<1> USE DEF station, handler, rows, costs, asked, history, Becomes
<1>t. /\ phase \in [Messages -> Phases] /\ seen \in [Messages -> Snapshot]
      /\ meterStart \in [Transactions -> Energy] /\ TypeInv
  BY DEF EndInv, TypeInv, TypeOK
<1>m. \A n \in Messages : n.tx \in Transactions
  BY MessageType
(* A step that sets the reading of a row that is there only.                *)
<1>q. ASSUME \A t \in Transactions \ stored' : t \notin stored /\ meterStart'[t] = meterStart[t],
             \A n \in Messages : phase'[n] = "read" => phase[n] = "read" /\ seen'[n] = seen[n]
      PROVE  NoMeter'
  BY <1>q DEF NoMeter
<1>1. ASSUME NEW m \in Messages, Handle(m) \/ Handle16(m), ~Read(m) PROVE NoMeter'
  <2>1. CASE Insert(m)
    <3>1. CASE m.tx \in stored
      BY <1>t, <1>q, <2>1, <3>1 DEF Insert
    <3>2. CASE m.tx \notin stored
      <4>1. /\ WriteMeter(m) /\ stored' = stored \union {m.tx} /\ phase[m] = "read"
            /\ phase' = [phase EXCEPT ![m] = "written"]
        BY <2>1, <3>2 DEF Insert
      <4>2. \A n \in Messages \ {m} : seen'[n] = seen[n]
        BY <1>t, <4>1, WriteMeterType
      <4>3. \A t \in Transactions \ stored' : meterStart'[t] = meterStart[t]
        BY <1>t, <4>1 DEF WriteMeter
      <4> QED
        BY <1>t, <1>q, <4>1, <4>2, <4>3
    <3> QED
      BY <3>1, <3>2
  <2>2. CASE Update(m) \/ StoreMeterValues(m)
    <3>1. /\ WriteMeter(m) /\ stored' = stored /\ phase[m] = "read" /\ phase'[m] # "read"
          /\ \A n \in Messages \ {m} : phase'[n] = phase[n]
      BY <1>t, <2>2 DEF Update, StoreMeterValues
    <3>2. m.tx \in stored
      BY <2>2, <3>1 DEF EndInv, TypeInv, SeenStored, Read16, Update, StoreMeterValues
    <3>3. \A n \in Messages \ {m} : seen'[n] = seen[n]
      BY <1>t, <3>1, WriteMeterType
    <3>4. \A t \in Transactions \ stored : meterStart'[t] = meterStart[t]
      BY <1>t, <3>1, <3>2 DEF WriteMeter
    <3> QED
      BY <1>q, <3>1, <3>3, <3>4
  <2>3. CASE FindOthers(m) \/ LoadOthers(m) \/ (\E u \in Transactions : MakeInactive(m, u))
             \/ ReadAgain(m) \/ Stop(m)
    BY <1>t, <1>q, <2>3 DEF FindOthers, LoadOthers, MakeInactive, ReadAgain, Stop
  <2>4. CASE Conclude(m) \/ Fail(m) \/ SaveStop(m)
    <3>1. /\ UNCHANGED <<stored, meterStart>> /\ phase'[m] # "read"
          /\ \A n \in Messages \ {m} : phase'[n] = phase[n] /\ seen'[n] = seen[n]
      BY <1>t, <2>4 DEF Conclude, Fail, SaveStop
    <3> QED
      BY <1>q, <3>1
  <2>5. CASE StartTransaction(m)
    BY <1>t, <1>q, <2>5 DEF StartTransaction
  <2> QED
    BY <1>1, <2>1, <2>2, <2>3, <2>4, <2>5 DEF Handle, Handle16
<1>2. ASSUME NEW m \in Messages, Read(m) PROVE NoMeter'
  <2>1. /\ UNCHANGED <<stored, meterStart>>
        /\ \A n \in Messages \ {m} : phase'[n] = phase[n] /\ seen'[n] = seen[n]
        /\ phase'[m] = "read" => seen'[m] = Row(m.tx)
    BY <1>2, <1>t DEF Read
  <2>2. Row(m.tx).start = meterStart[m.tx] /\ (~Row(m.tx).stored => m.tx \notin stored)
    BY Zenon DEF Row
  <2> QED
    BY <1>m, <2>1, <2>2 DEF NoMeter
<1>3. ASSUME \/ \E m \in Messages : Send(m)
             \/ \E t \in Transactions : StationReports(t) \/ ApplyStatus(t) \/ Tick(t) \/ NotifyCost(t)
             \/ UNCHANGED vars
      PROVE  NoMeter'
  <2>1. /\ UNCHANGED <<stored, meterStart, seen>>
        /\ \A n \in Messages : phase'[n] = "read" => phase[n] = "read"
    BY <1>3, <1>t DEF Send, StationReports, ApplyStatus, Tick, NotifyCost, vars
  <2> QED
    BY <1>q, <2>1
<1> QED
  BY <1>1, <1>2, <1>3 DEF Next

LEMMA BillInvNext == EndInv /\ NoMeter /\ BillInv /\ [Next]_vars => BillInv'
<1> SUFFICES ASSUME EndInv, NoMeter, BillInv, [Next]_vars PROVE BillInv'
  OBVIOUS
<1> USE DEF station, handler, rows, costs, asked, history, Becomes
<1>t. /\ phase \in [Messages -> Phases] /\ seen \in [Messages -> Snapshot]
      /\ kwh \in [Transactions -> Energy] /\ cost \in [Transactions -> Int]
      /\ meterStart \in [Transactions -> Energy]
      /\ active \subseteq stored /\ placed \subseteq stored /\ metered \subseteq placed
      /\ TypeInv /\ metered \subseteq Transactions
  BY DEF EndInv, TypeInv, TypeOK, BillInv
<1>m. \A n \in Messages : n.tx \in Transactions /\ n.rank \in 0..2
  BY MessageType
(* A step in which no row is created, and no handler comes to read a row.   *)
<1>q. ASSUME metered' = metered, placed \subseteq placed',
             \A n \in Messages : phase'[n] = "read" => phase[n] = "read" /\ seen'[n] = seen[n],
             \A t \in metered \ late' : Bill(t)'
      PROVE  BillInv'
  BY <1>q DEF BillInv
<1>b. late \subseteq late' => \A t \in metered \ late' : Bill(t)
  BY DEF BillInv
<1>1. ASSUME NEW m \in Messages,
             Send(m) \/ FindOthers(m) \/ LoadOthers(m) \/ Fail(m) \/ ReadAgain(m) \/ Stop(m)
      PROVE  BillInv'
  <2>1. /\ UNCHANGED <<metered, late, placed, meterStart, kwh, cost>>
        /\ \A n \in Messages \ {m} : phase'[n] = phase[n]
        /\ \A n \in Messages : seen'[n] = seen[n] \/ (n = m /\ seen'[n] = NoRow)
        /\ phase'[m] \notin {"read", "done", "written"}
        /\ m.rank = 2 /\ Handled(m)' /\ phase'[m] # "stopped"
              => Handled(m) /\ phase[m] # "stopped"
    BY <1>1, <1>t DEF Send, FindOthers, LoadOthers, Fail, ReadAgain, Stop, Handled
  <2>2. ASSUME NEW t \in metered \ late PROVE Bill(t)'
    <3>1. Bill(t) /\ t \in placed'
      BY <1>b, <1>t, <2>1
    <3>2. \A n \in Messages : seen'[n] = seen[n] \/ ~seen'[n].stored
      BY <2>1, NoRowType
    <3>3. \A n \in Messages \ {m} : seen'[n] = seen[n] /\ (Handled(n)' <=> Handled(n))
      BY <2>1 DEF Handled
    <3> QED
      BY <1>t, <2>1, <3>1, <3>2, <3>3, QuietBill
  <2> QED
    BY <2>1, <2>2, <1>q
<1>2. ASSUME NEW m \in Messages, Read(m) PROVE BillInv'
  <2>1. /\ UNCHANGED <<metered, late, placed, meterStart, kwh, cost>>
        /\ phase[m] = "sent"
        /\ \A n \in Messages \ {m} : phase'[n] = phase[n] /\ seen'[n] = seen[n]
        /\ \/ phase'[m] = "failed" /\ seen' = seen
           \/ phase'[m] = "read" /\ seen'[m] = Row(m.tx)
              /\ (m.protocol = "1.6" => m.tx \in stored)
    BY <1>2, <1>t DEF Read
  <2>2. \A n \in Messages : phase'[n] = "read" /\ n.protocol = "1.6" => seen'[n].stored
    <3>1. m.tx \in stored => Row(m.tx).stored
      BY Zenon DEF Row
    <3> QED
      BY <2>1, <3>1 DEF BillInv
  <2>3. ASSUME NEW t \in metered \ late PROVE Bill(t)'
    <3>1. Bill(t)
      BY <1>b, <2>1
    <3>2. \A n \in Messages : Handled(n)' <=> Handled(n)
      BY <2>1 DEF Handled
    <3>3. MeterOf(t)'
      <4>1. m.tx = t /\ seen'[m].stored => seen'[m].start = Register(0) /\ seen'[m].placed
        <5>1. CASE seen' = seen
          BY <3>1, <5>1 DEF Bill, MeterOf
        <5>2. CASE seen'[m] = Row(m.tx)
          <6>1. Row(t).start = meterStart[t] /\ (Row(t).placed <=> t \in placed)
            BY Zenon DEF Row
          <6> QED
            BY <3>1, <5>2, <6>1 DEF Bill, MeterOf
        <5> QED
          BY <2>1, <5>1, <5>2
      <4> QED
        BY <2>1, <3>1, <4>1 DEF Bill, MeterOf
    <3>4. EnergyOf(t)'
      BY <2>1, <3>1, <3>2 DEF Bill, EnergyOf, Handled
    <3>5. CostOf(t)'
      BY <2>1, <3>1 DEF Bill, CostOf
    <3> QED
      BY <3>3, <3>4, <3>5 DEF Bill
  <2> QED
    BY <2>1, <2>2, <2>3 DEF BillInv
<1>3. ASSUME NEW m \in Messages, Insert(m) PROVE BillInv'
  <2>1. /\ phase[m] = "read" /\ cost' = cost /\ \A n \in Messages \ {m} : phase'[n] = phase[n]
        /\ phase'[m] \in {"failed", "written"} /\ ~seen[m].stored /\ placed \subseteq placed'
    BY <1>3, <1>t DEF Insert
  <2>2. CASE m.tx \in stored
    <3>1. /\ UNCHANGED <<metered, late, placed, meterStart, kwh, seen>>
          /\ phase'[m] = "failed"
      BY <1>3, <1>t, <2>2 DEF Insert
    <3>2. ASSUME NEW t \in metered \ late PROVE Bill(t)'
      <4>1. Bill(t) /\ t \in placed'
        BY <1>b, <1>t, <3>1
      <4>2. \A n \in Messages : Handled(n)' => Handled(n)
        BY <2>1, <3>1 DEF Handled
      <4> QED
        BY <1>t, <2>1, <3>1, <4>1, <4>2, QuietBill
    <3> QED
      BY <2>1, <3>1, <3>2, <1>q
  <2>3. CASE m.tx \notin stored
    <3>1. /\ WriteMeter(m) /\ phase'[m] = "written"
          /\ metered' = IF m.rank = 0 /\ m.evse /\ m.meter = "register"
                        THEN metered \union {m.tx} ELSE metered
          /\ placed' = IF m.evse THEN placed \union {m.tx} ELSE placed
      BY <1>3, <1>t, <2>3 DEF Insert
    <3>2. /\ \A n \in Messages \ {m} : seen'[n] = seen[n]
          /\ \A n \in Messages : seen'[n].stored = seen[n].stored
          /\ late \subseteq late'
      BY <1>t, <3>1, WriteMeterType
    <3>3. metered' \subseteq placed'
      BY <1>t, <3>1
    <3>4. \A n \in Messages : phase'[n] = "read" /\ n.protocol = "1.6" => seen'[n].stored
      BY <2>1, <3>1, <3>2 DEF BillInv
    <3>5. ASSUME NEW t \in metered' \ late', t # m.tx PROVE Bill(t)'
      <4>1. t \in metered \ late /\ t \in placed' /\ Bill(t)
        BY <1>t, <3>1, <3>2, <3>5 DEF BillInv
      <4>2. /\ meterStart'[t] = meterStart[t] /\ kwh'[t] = kwh[t]
            /\ \A n \in Messages : n.tx = t => n # m
        BY <1>t, <3>1, <3>5, <4>1 DEF WriteMeter
      <4>3. \A n \in Messages \ {m} : Handled(n)' => Handled(n)
        BY <2>1 DEF Handled
      <4> QED
        BY <1>t, <2>1, <3>2, <4>1, <4>2, <4>3, QuietBill
    <3>6. ASSUME m.tx \in metered' PROVE Bill(m.tx)'
      <4>1. m.rank = 0 /\ m.evse /\ m.meter = "register" /\ m.tx \in placed'
        BY <1>t, <2>3, <3>1, <3>6
      <4>2. seen[m].start = None
        BY <1>3 DEF Insert, NoMeter
      <4>3. meterStart'[m.tx] = Register(0)
        BY <1>m, <1>t, <3>1, <4>1, <4>2 DEF WriteMeter
      <4> QED
        BY <1>m, <2>1, <2>3, <3>2, <4>1, <4>3, NewBill
    <3> QED
      BY <3>3, <3>4, <3>5, <3>6 DEF BillInv
  <2> QED
    BY <2>2, <2>3
<1>4. ASSUME NEW m \in Messages, Update(m) \/ StoreMeterValues(m) PROVE BillInv'
  <2>1. /\ phase[m] = "read" /\ WriteMeter(m) /\ cost' = cost /\ metered' = metered
        /\ \A n \in Messages \ {m} : phase'[n] = phase[n]
        /\ phase'[m] # "read" /\ placed \subseteq placed'
        /\ \/ phase' = [phase EXCEPT ![m] = "written"] /\ m.protocol = "2.x"
           \/ phase' = [phase EXCEPT ![m] = "done"] /\ m.rank = 1
    BY <1>4, <1>t DEF Update, StoreMeterValues
  <2>2. seen[m].stored
    BY <1>4 DEF Update, StoreMeterValues, BillInv
  <2>3. (\A n \in Messages \ {m} : seen'[n] = seen[n]) /\ late \subseteq late'
    BY <1>t, <2>1, WriteMeterType
  <2>4. ASSUME NEW t \in metered \ late' PROVE Bill(t)'
    <3>1. Bill(t) /\ t \in placed'
      BY <1>b, <1>t, <2>1, <2>3
    <3>2. CASE m.tx = t
      BY <1>t, <2>1, <2>2, <3>1, <3>2, WriteBill
    <3>3. CASE m.tx # t
      <4>1. meterStart'[t] = meterStart[t] /\ kwh'[t] = kwh[t]
        BY <1>t, <2>1, <3>3 DEF WriteMeter
      <4>2. \A n \in Messages \ {m} : Handled(n)' => Handled(n)
        BY <2>1 DEF Handled
      <4> QED
        BY <1>t, <2>1, <2>3, <3>1, <3>3, <4>1, <4>2, QuietBill
    <3> QED
      BY <3>2, <3>3
  <2> QED
    BY <2>1, <2>3, <2>4, <1>q
<1>5. ASSUME NEW m \in Messages, Conclude(m) PROVE BillInv'
  <2>1. /\ UNCHANGED <<metered, placed, meterStart, kwh>> /\ late \subseteq late'
        /\ phase' = [phase EXCEPT ![m] = "done"] /\ seen' = [seen EXCEPT ![m] = NoRow]
    BY <1>5 DEF Conclude
  <2>2. ASSUME NEW t \in metered \ late' PROVE Bill(t)'
    <3>1. Bill(t) /\ t \in placed'
      BY <1>b, <1>t, <2>1
    <3>2. CASE m.tx = t
      BY <1>5, <1>t, <3>1, <3>2, ConcludeBill
    <3>3. CASE m.tx # t
      <4>1. cost'[t] = cost[t]
        BY <1>5, <1>t, <3>3 DEF Conclude
      <4>2. \A n \in Messages \ {m} : Handled(n)' => Handled(n)
        BY <1>t, <2>1 DEF Handled
      <4> QED
        BY <1>t, <2>1, <3>1, <3>3, <4>1, <4>2, QuietBill
    <3> QED
      BY <3>2, <3>3
  <2> QED
    BY <1>t, <2>1, <2>2, <1>q
<1>6. ASSUME NEW m \in Messages, NEW u \in Transactions, MakeInactive(m, u) PROVE BillInv'
  <2>1. /\ UNCHANGED <<metered, late, placed, meterStart, kwh, cost, phase, seen>>
    BY <1>6 DEF MakeInactive
  <2>2. ASSUME NEW t \in metered \ late PROVE Bill(t)'
    BY <1>b, <1>t, <2>1, QuietBill DEF Handled
  <2> QED
    BY <2>1, <2>2, <1>q
<1>7. ASSUME NEW m \in Messages, StartTransaction(m) PROVE BillInv'
  <2>1. /\ UNCHANGED <<late, kwh, cost, seen>> /\ placed \subseteq placed'
        /\ phase' = [phase EXCEPT ![m] = "written"] /\ phase[m] = "sent"
        /\ m.protocol = "1.6" /\ m.rank = 0
        /\ \/ metered' = metered /\ placed' = placed /\ meterStart' = meterStart
           \/ /\ metered' = metered \union {m.tx} /\ m.tx \in placed'
              /\ meterStart' = [meterStart EXCEPT ![m.tx] = Register(0)]
    BY <1>7 DEF StartTransaction
  <2>2. m.tx \notin stored
    BY <2>1, MessagesAssumption DEF EndInv, OwnProtocol, StartOf16
  <2>3. metered' \subseteq placed'
    BY <1>t, <2>1
  <2>4. \A n \in Messages : phase'[n] = "read" /\ n.protocol = "1.6" => seen'[n].stored
    BY <1>t, <2>1 DEF BillInv
  <2>5. ASSUME NEW t \in metered \ late PROVE Bill(t)'
    <3>1. Bill(t) /\ t \in placed' /\ t # m.tx
      BY <1>b, <1>t, <2>1, <2>2
    <3>2. meterStart'[t] = meterStart[t]
      BY <1>t, <2>1, <3>1
    <3>3. \A n \in Messages \ {m} : phase'[n] = phase[n] /\ (Handled(n)' => Handled(n))
      BY <1>t, <2>1 DEF Handled
    <3> QED
      BY <1>t, <2>1, <3>1, <3>2, <3>3, QuietBill
  <2>6. ASSUME m.tx \in metered' PROVE Bill(m.tx)'
    <3>1. m.tx \in placed' /\ meterStart'[m.tx] = Register(0)
      BY <1>m, <1>t, <2>1, <2>2, <2>6
    <3>2. \A n \in Messages : n.rank = 2 => phase'[n] = phase[n]
      BY <1>t, <2>1
    <3> QED
      BY <1>m, <2>1, <2>2, <3>1, <3>2, NewBill
  <2> QED
    BY <2>1, <2>3, <2>4, <2>5, <2>6 DEF BillInv
<1>8. ASSUME NEW m \in Messages, SaveStop(m) PROVE BillInv'
  <2>1. /\ UNCHANGED <<metered, late, placed, meterStart, cost>>
        /\ phase[m] = "stopped" /\ phase' = [phase EXCEPT ![m] = "done"]
        /\ seen' = [seen EXCEPT ![m] = NoRow]
        /\ kwh' = [kwh EXCEPT ![m.tx] = 2]
    BY <1>8 DEF SaveStop, Register
  <2>2. \A n \in Messages \ {m} : /\ phase'[n] = phase[n] /\ seen'[n] = seen[n]
                                  /\ Handled(n)' => Handled(n)
    BY <1>t, <2>1 DEF Handled
  <2>p. m.protocol # "2.x"
    BY <2>1 DEF EndInv, StopInv
  <2>3. ASSUME NEW t \in metered \ late PROVE Bill(t)'
    <3>1. Bill(t) /\ t \in placed'
      BY <1>b, <1>t, <2>1
    <3>2. CASE m.tx # t
      <4>1. kwh'[t] = kwh[t]
        BY <1>t, <2>1, <3>2
      <4> QED
        BY <1>t, <2>1, <2>2, <3>1, <3>2, <4>1, QuietBill
    <3>3. CASE m.tx = t
      <4>1. kwh'[t] = 2
        BY <1>t, <2>1, <3>3
      <4>2. MeterOf(t)'
        BY <1>t, <2>1, <3>1, NoRowType DEF Bill, MeterOf
      <4>3. EnergyOf(t)'
        BY <1>t, <2>1, <2>2, <3>1, <4>1 DEF Bill, EnergyOf
      <4>4. CostOf(t)'
        BY <2>1, <2>2, <2>p, <3>1 DEF Bill, CostOf
      <4> QED
        BY <4>2, <4>3, <4>4 DEF Bill
    <3> QED
      BY <3>2, <3>3
  <2> QED
    BY <1>t, <2>1, <2>3, <1>q
<1>9. ASSUME NEW u \in Transactions, StationReports(u) \/ ApplyStatus(u) \/ Tick(u)
      PROVE  BillInv'
  <2>1. UNCHANGED <<metered, late, placed, meterStart, kwh, cost, phase, seen>>
    BY <1>9 DEF StationReports, ApplyStatus, Tick
  <2>2. ASSUME NEW t \in metered \ late PROVE Bill(t)'
    BY <1>b, <1>t, <2>1, QuietBill DEF Handled
  <2> QED
    BY <2>1, <2>2, <1>q
<1>10. ASSUME NEW u \in Transactions, NotifyCost(u) PROVE BillInv'
  <2>1. /\ UNCHANGED <<metered, placed, meterStart, kwh, phase, seen>> /\ late \subseteq late'
        /\ \A t \in Transactions \ {u} : cost'[t] = cost[t]
        /\ EndCounted(u) => u \in late'
    BY <1>10, <1>t DEF NotifyCost
  <2>2. ASSUME NEW t \in metered \ late' PROVE Bill(t)'
    <3>1. Bill(t) /\ t \in placed'
      BY <1>b, <1>t, <2>1
    <3>2. CASE t # u
      BY <1>t, <2>1, <3>1, <3>2, QuietBill DEF Handled
    <3>3. CASE t = u
      <4>1. MeterOf(t)' /\ EnergyOf(t)'
        BY <2>1, <3>1 DEF Bill, MeterOf, EnergyOf, Handled
      <4>2. CostOf(t)'
        BY <2>1, <2>2, <3>3 DEF CostOf, Counts, EndCounted, Handled
      <4> QED
        BY <4>1, <4>2 DEF Bill
    <3> QED
      BY <3>2, <3>3
  <2> QED
    BY <2>1, <2>2, <1>q
<1>11. CASE UNCHANGED vars
  <2>1. UNCHANGED <<metered, late, placed, meterStart, kwh, cost, phase, seen>>
    BY <1>11 DEF vars
  <2>2. ASSUME NEW t \in metered \ late PROVE Bill(t)'
    BY <1>b, <1>t, <2>1, QuietBill DEF Handled
  <2> QED
    BY <2>1, <2>2, <1>q
<1> QED
  BY <1>1, <1>2, <1>3, <1>4, <1>5, <1>6, <1>7, <1>8, <1>9, <1>10, <1>11
  DEF Next, Handle, Handle16

(* Whatever handlers overlap, are repeated or fail, a transaction whose row *)
(* its start created is left with the energy between its registers, and the *)
(* cost of just that, unless a straggler writes after the end.              *)
THEOREM FinalBillAlways == Spec => []FinalBill
<1>1. Init => NoMeter /\ BillInv
  BY DEF Init, NoMeter, BillInv
<1>2. EndInv /\ BillInv => FinalBill
  <2> SUFFICES ASSUME EndInv, BillInv, NEW m \in Messages, m.rank = 2, phase[m] = "done",
                      m.tx \in metered \ late, protocol = "1.6" \/ m.meter = "register"
               PROVE  kwh[m.tx] = 2 /\ (protocol = "2.x" /\ ~m.token => cost[m.tx] = 2)
    BY DEF FinalBill
  <2>1. m.protocol = protocol
    BY DEF EndInv, OwnProtocol
  <2>2. Counts(m) /\ Handled(m)
    BY <2>1 DEF Counts, Handled
  <2> QED
    BY <2>1, <2>2 DEF BillInv, Bill, EnergyOf, CostOf
<1> QED
  BY <1>1, <1>2, EndInvInit, EndInvNext, NoMeterNext, BillInvNext,
     PTL DEF Spec

===============================================================================
