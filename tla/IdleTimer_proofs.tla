-------------------------- MODULE IdleTimer_proofs --------------------------
(***************************************************************************)
(* Theorems about IdleTimer, for any number of timers and any faults.      *)
(***************************************************************************)
EXTENDS IdleTimer, TLAPS

(* The timers and the map have the values their declarations say.            *)
THEOREM TypeCorrect == Spec => []TypeOK
<1>1. Init => TypeOK
  BY TimerAssumption DEF Init, TypeOK
<1>2. TypeOK /\ [Next]_vars => TypeOK'
  <2> SUFFICES ASSUME TypeOK, [Next]_vars PROVE TypeOK'
    OBVIOUS
  <2> USE DEF TypeOK
  <2>1. CASE Begin
    BY <2>1 DEF Begin
  <2>2. CASE Measure
    BY <2>2 DEF Measure, database
  <2>3. CASE Finish
    BY <2>3 DEF Finish
  <2>4. CASE Allocate
    BY <2>4 DEF Allocate
  <2>5. ASSUME NEW e \in events, NEW n \in Timers, HandleActivity(e, n) PROVE TypeOK'
    <3>1. timer' \in [Timers -> {"off", "armed"} \union Callback]
      BY <2>5 DEF HandleActivity, StartOrReset, Stopped, Callback
    <3>2. restoring' \subseteq SUBSET Timers
      BY <2>5 DEF HandleActivity, StartOrReset
    <3>3. overtaken' \in BOOLEAN
      BY <2>5 DEF HandleActivity
    <3> QED
      BY <2>5, <3>1, <3>2, <3>3 DEF HandleActivity, StartOrReset, database
  <2>6. CASE HandleEnd
    <3>1. overtaken' \in BOOLEAN
      BY <2>6 DEF HandleEnd
    <3> QED
      BY <2>6, <3>1 DEF HandleEnd, Stopped, database
  <2>7. ASSUME NEW r \in restoring, Restore(r) \/ RestoreFails(r) PROVE TypeOK'
    BY <2>7 DEF Restore, RestoreFails, database
  <2>8. ASSUME NEW t \in Timers,
               Expire(t) \/ FetchLimit(t) \/ FetchFails(t) \/ MarkIllegal(t)
                 \/ MarkFails(t) \/ CleanUp(t)
        PROVE  TypeOK'
    BY <2>8 DEF Expire, FetchLimit, FetchFails, MarkIllegal, MarkFails, CleanUp,
                Step, Callback, database
  <2>9. ASSUME NEW t \in Timers, NEW n \in Timers, WaitLonger(t, n) PROVE TypeOK'
    <3>1. timer' \in [Timers -> {"off", "armed"} \union Callback]
      BY <2>9 DEF WaitLonger, StartOrReset, Stopped, Callback
    <3>2. restoring' \subseteq SUBSET Timers
      BY <2>9 DEF WaitLonger, StartOrReset
    <3> QED
      BY <2>9, <3>1, <3>2 DEF WaitLonger, StartOrReset, database
  <2>10. ASSUME NEW e \in events, LoseEvent(e) PROVE TypeOK'
    BY <2>10 DEF LoseEvent, database
  <2>11. CASE Restart
    BY <2>11 DEF Restart, database
  <2>12. CASE UNCHANGED vars
    BY <2>12 DEF vars, database
  <2> QED
    BY <2>1, <2>2, <2>3, <2>4, <2>5, <2>6, <2>7, <2>8, <2>9, <2>10, <2>11, <2>12
    DEF Next, Handle, Proceed, Work, Miss, Break
<1> QED
  BY <1>1, <1>2, PTL DEF Spec

(* What an action of the world outside, or of an update, leaves alone.       *)
Outside == Begin \/ Measure \/ Finish \/ Allocate
             \/ (\E e \in events : LoseEvent(e))
             \/ (\E r \in restoring : Restore(r) \/ RestoreFails(r))

LEMMA OutsideKeepsTimers == Outside => UNCHANGED <<entry, timer, overtaken>>
  BY DEF Outside, Begin, Measure, Finish, Allocate, LoseEvent, Restore, RestoreFails

(* A new timer is armed and in the map; those that were neither in the map   *)
(* nor new keep their state, and the one in the map is stopped if armed.     *)
LEMMA StartOrResetArms ==
  ASSUME NEW n \in Timers, NEW states \in [Timers -> {"off", "armed"} \union Callback],
         StartOrReset(n, states)
  PROVE  /\ entry' = n /\ timer'[n] = "armed"
         /\ \A t \in Timers \ {n} : timer'[t] = IF t = entry /\ t \in Armed THEN "off" ELSE states[t]
  BY DEF StartOrReset, Stopped

(* A callback that waits longer leaves one timer, if it was the only one.    *)
LEMMA WaitLongerArms ==
  ASSUME TypeOK, NEW t \in Timers, NEW n \in Timers, WaitLonger(t, n)
  PROVE  /\ entry' = n /\ timer'[n] = "armed"
         /\ (\A k \in Timers \ {t} : timer[k] = "off") =>
              \A k \in Timers \ {n} : timer'[k] = "off"
<1> DEFINE states == [timer EXCEPT ![t] = "off"]
<1>1. states \in [Timers -> {"off", "armed"} \union Callback]
  BY DEF TypeOK
<1>2. StartOrReset(n, states)
  BY DEF WaitLonger
<1>3. (\A k \in Timers \ {t} : timer[k] = "off") => \A k \in Timers : states[k] = "off"
  BY DEF TypeOK
<1> HIDE DEF states
<1> QED
  BY <1>1, <1>2, <1>3, StartOrResetArms

(* The map never holds a timer that is over.                                 *)
THEOREM EntriesAlive == Spec => []EntryIsAlive
<1>1. Init => EntryIsAlive
  BY DEF Init, EntryIsAlive
<1>2. TypeOK /\ EntryIsAlive /\ [Next]_vars => EntryIsAlive'
  <2> SUFFICES ASSUME TypeOK, EntryIsAlive, [Next]_vars PROVE EntryIsAlive'
    OBVIOUS
  <2> USE DEF TypeOK, EntryIsAlive
  <2>1. CASE Outside \/ UNCHANGED vars
    BY <2>1, OutsideKeepsTimers DEF vars
  <2>2. ASSUME NEW e \in events, NEW n \in Timers, HandleActivity(e, n) PROVE EntryIsAlive'
    BY <2>2, StartOrResetArms DEF HandleActivity
  <2>3. ASSUME NEW t \in Timers, NEW n \in Timers, WaitLonger(t, n) PROVE EntryIsAlive'
    BY <2>3, WaitLongerArms
  <2>4. CASE HandleEnd \/ Restart \/ \E t \in Timers : CleanUp(t)
    BY <2>4, TimerAssumption DEF HandleEnd, Restart, CleanUp
  <2>5. ASSUME NEW t \in Timers,
               Expire(t) \/ FetchLimit(t) \/ FetchFails(t) \/ MarkIllegal(t) \/ MarkFails(t)
        PROVE  EntryIsAlive'
    BY <2>5 DEF Expire, FetchLimit, FetchFails, MarkIllegal, MarkFails, Step
  <2> QED
    BY <2>1, <2>2, <2>3, <2>4, <2>5 DEF Next, Handle, Proceed, Work, Miss, Break, Outside
<1> QED
  BY <1>1, <1>2, TypeCorrect, PTL DEF Spec

(* Unless a webhook was handled while a callback was running, the timer in   *)
(* the map is the only one that can still act on the session.                *)
LEMMA OneTimerStep == TypeOK /\ OneTimer /\ [Next]_vars => OneTimer'
<1> SUFFICES ASSUME TypeOK, OneTimer, [Next]_vars, ~overtaken',
                    NEW u \in Timers, timer'[u] # "off"
             PROVE  entry' = u
  BY DEF OneTimer
<1> USE DEF TypeOK
<1>1. CASE Outside \/ UNCHANGED vars
  BY <1>1, OutsideKeepsTimers DEF vars, OneTimer
<1>2. ASSUME NEW e \in events, NEW n \in Timers, HandleActivity(e, n) PROVE entry' = u
  <2>1. ~overtaken /\ ~SomeCallback
    BY <1>2 DEF HandleActivity
  <2>2. \A t \in Timers : timer[t] # "off" => t = entry /\ t \in Armed
    BY <2>1 DEF OneTimer, SomeCallback, Running, Armed
  <2> QED
    BY <1>2, <2>2, StartOrResetArms DEF HandleActivity
<1>3. ASSUME NEW t \in Timers, NEW n \in Timers, WaitLonger(t, n) PROVE entry' = u
  <2>1. \A k \in Timers \ {t} : timer[k] = "off"
    BY <1>3 DEF OneTimer, WaitLonger
  <2> QED
    BY <1>3, <2>1, WaitLongerArms
<1>4. CASE HandleEnd
  <2>1. ~overtaken /\ ~SomeCallback
    BY <1>4 DEF HandleEnd
  <2>2. \A t \in Timers : timer[t] # "off" => t = entry /\ t \in Armed
    BY <2>1 DEF OneTimer, SomeCallback, Running, Armed
  <2> QED
    BY <1>4, <2>2 DEF HandleEnd, Stopped
<1>5. CASE Restart
  BY <1>5 DEF Restart
<1>6. ASSUME NEW t \in Timers, CleanUp(t) PROVE entry' = u
  BY <1>6 DEF CleanUp, Step, OneTimer
<1>7. ASSUME NEW t \in Timers,
             Expire(t) \/ FetchLimit(t) \/ FetchFails(t) \/ MarkIllegal(t) \/ MarkFails(t)
      PROVE  entry' = u
  BY <1>7 DEF Expire, FetchLimit, FetchFails, MarkIllegal, MarkFails, Step, OneTimer
<1> QED
  BY <1>1, <1>2, <1>3, <1>4, <1>5, <1>6, <1>7 DEF Next, Handle, Proceed, Work, Miss, Break, Outside

THEOREM OneTimerAlways == Spec => []OneTimer
<1>1. Init => OneTimer
  BY DEF Init, OneTimer
<1> QED
  BY <1>1, OneTimerStep, TypeCorrect, PTL DEF Spec

-----------------------------------------------------------------------------
(* The grace period of a session found illegal only runs with an update      *)
(* under way that restores it, or after one failed.  Inductively, a callback that may still wait  *)
(* or mark belongs to a legal session: its timer could only expire once the  *)
(* updates that were under way when it was armed were over.                  *)
CallbackIsLegal ==
  ~overtaken =>
    \A t \in Timers : timer[t] \in {"expired", "waiting", "marking"} => legal \/ unsaved

LEMMA MonitoredStep ==
  TypeOK /\ OneTimer /\ EntryIsAlive /\ MonitoredIsLegal /\ CallbackIsLegal /\ [Next]_vars
    => MonitoredIsLegal' /\ CallbackIsLegal'
<1> SUFFICES ASSUME TypeOK, OneTimer, EntryIsAlive, MonitoredIsLegal, CallbackIsLegal,
                    [Next]_vars, ~overtaken', NEW u \in Timers
             PROVE  /\ timer'[u] = "armed" => legal' \/ unsaved' \/ u \in UNION restoring'
                    /\ timer'[u] \in {"expired", "waiting", "marking"} => legal' \/ unsaved'
  BY DEF MonitoredIsLegal, CallbackIsLegal, Armed
<1> DEFINE Goal == /\ timer'[u] = "armed" => legal' \/ unsaved' \/ u \in UNION restoring'
                   /\ timer'[u] \in {"expired", "waiting", "marking"} => legal' \/ unsaved'
<1>a. ~overtaken
  BY DEF TypeOK, Next, vars, database, Begin, Measure, Finish, Allocate, Handle, HandleActivity,
         HandleEnd, Proceed, Expire, FetchLimit, MarkIllegal, CleanUp, WaitLonger, Restore,
         Work, Miss, Break, LoseEvent, RestoreFails, FetchFails, MarkFails, Restart
<1>b. \A t \in Timers : timer[t] = "armed" => legal \/ unsaved \/ t \in UNION restoring
  BY <1>a DEF MonitoredIsLegal, Armed
<1>c. \A t \in Timers : timer[t] \in {"expired", "waiting", "marking"} => legal \/ unsaved
  BY <1>a DEF CallbackIsLegal
<1>d. \A t \in Timers : timer[t] # "off" => entry = t
  BY <1>a DEF OneTimer
<1> USE DEF TypeOK
<1>1. ASSUME Begin \/ Measure \/ Finish \/ Allocate \/ (\E e \in events : LoseEvent(e))
               \/ UNCHANGED vars
      PROVE  Goal
  BY <1>1, <1>b, <1>c DEF Begin, Measure, Finish, Allocate, LoseEvent, vars, database
<1>2. ASSUME NEW e \in events, NEW n \in Timers, HandleActivity(e, n) PROVE Goal
  <2>1. \A t \in Timers : timer[t] \in {"off", "armed"}
    BY <1>2 DEF HandleActivity, SomeCallback, Running
  <2>2. u # n => timer'[u] = "off"
    BY <1>2, <1>d, <2>1, StartOrResetArms DEF HandleActivity, Armed
  <2>3. timer'[n] = "armed"
    BY <1>2, StartOrResetArms DEF HandleActivity
  <2>4. legal \/ unsaved \/ n \in UNION restoring'
    <3>1. CASE entry = NoTimer
      BY <1>2, <3>1 DEF HandleActivity, StartOrReset
    <3>2. CASE entry # NoTimer
      <4>1. legal \/ unsaved \/ entry \in UNION restoring
        BY <3>2, <2>1, <1>b DEF EntryIsAlive
      <4>2. ASSUME NEW r \in restoring PROVE n \in UNION restoring'
        <5>1. r \union {n} \in restoring'
          BY <1>2 DEF HandleActivity, StartOrReset
        <5> QED
          BY <5>1, n \in r \union {n}
      <4> QED
        BY <4>1, <4>2
    <3> QED
      BY <3>1, <3>2
  <2> QED
    BY <1>2, <2>2, <2>3, <2>4 DEF HandleActivity, database
<1>3. ASSUME NEW t \in Timers, NEW n \in Timers, WaitLonger(t, n) PROVE Goal
  <2>1. \A k \in Timers \ {t} : timer[k] = "off"
    BY <1>3, <1>d DEF WaitLonger
  <2>2. u # n => timer'[u] = "off"
    BY <1>3, <2>1, WaitLongerArms
  <2>3. timer'[n] = "armed"
    BY <1>3, WaitLongerArms
  <2>4. legal' \/ unsaved'
    BY <1>3, <1>c DEF WaitLonger, database
  <2> QED
    BY <2>2, <2>3, <2>4
<1>4. CASE HandleEnd
  BY <1>4, <1>b, <1>c DEF HandleEnd, Stopped, database
<1>5. ASSUME NEW r \in restoring, Restore(r) PROVE Goal
  BY <1>5 DEF Restore
<1>6. ASSUME NEW t \in Timers, Expire(t) PROVE Goal
  BY <1>6, <1>b, <1>c DEF Expire, Step, database
<1>7. ASSUME NEW t \in Timers, FetchLimit(t) \/ FetchFails(t) \/ MarkFails(t) PROVE Goal
  BY <1>7, <1>b, <1>c DEF FetchLimit, FetchFails, MarkFails, Step, database
<1>8. ASSUME NEW t \in Timers, MarkIllegal(t) PROVE Goal
  BY <1>8, <1>d DEF MarkIllegal, Step
<1>9. ASSUME NEW t \in Timers, CleanUp(t) PROVE Goal
  BY <1>9, <1>b, <1>c DEF CleanUp, Step, database
<1>10. CASE Restart
  BY <1>10 DEF Restart
<1>11. ASSUME NEW r \in restoring, RestoreFails(r) PROVE Goal
  BY <1>11 DEF RestoreFails
<1> QED
  BY <1>1, <1>2, <1>3, <1>4, <1>5, <1>6, <1>7, <1>8, <1>9, <1>10, <1>11
  DEF Next, Handle, Proceed, Work, Miss, Break

(* Unless a webhook was handled while a callback was running, a session      *)
(* whose grace period runs is legal, about to be, or its update failed.      *)
THEOREM MonitoredAreLegal == Spec => []MonitoredIsLegal
<1>1. Init => MonitoredIsLegal /\ CallbackIsLegal
  BY DEF Init, MonitoredIsLegal, CallbackIsLegal, Armed
<1> QED
  BY <1>1, MonitoredStep, OneTimerAlways, EntriesAlive, TypeCorrect, PTL DEF Spec
=============================================================================
