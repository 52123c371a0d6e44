------------------------------ MODULE IdleTimer ------------------------------
(***************************************************************************)
(* How the idle-service (idle-service/main.go) watches one charging        *)
(* session: a grace-period timer in a map, restarted whenever the vehicle  *)
(* draws power, whose callback marks the session as being in violation.    *)
(* Sessions share nothing but the lock, so one is enough.                  *)
(*                                                                         *)
(* A callback is split where it waits for the database, because webhooks   *)
(* and other callbacks run meanwhile; so is every `go` statement.  Time is *)
(* abstracted: an armed timer may expire at any moment, except before the  *)
(* updates that were under way when it was armed are over, since the       *)
(* shortest grace period is a minute and they time out after ten seconds.  *)
(* Measurements of 0 W change nothing and are left out.                    *)
(***************************************************************************)


CONSTANTS
  Timers,    \* identities of time.Timer objects; bounds how many exist
  Limits,    \* what allocated_limit may be: "zero", "some" or "null"
  Faults,    \* which of the failures below the environment may cause
  NoTimer

ASSUME TimerAssumption ==
  /\ NoTimer \notin Timers
  /\ Limits \subseteq {"zero", "some", "null"} /\ Limits # {}
  /\ Faults \subseteq {"event lost", "fetch fails", "update fails", "restart"}

VARIABLES
  tx,        \* the session: "none", "active" or "ended"
  limit,     \* its allocated_limit
  legal,     \* its is_legal
  events,    \* webhook calls on their way to the service
  entry,     \* tracker.timers[transactionID]
  timer,     \* timer[t]: "off", "armed", or where its callback is
  restoring, \* the markTransactionAsLegal goroutines: for each, the timers
             \* armed since it started
  overtaken, \* history: a webhook was handled while a callback was running
  unsaved    \* history: the last update that makes the session legal failed

database == <<tx, limit, legal>>
vars == <<database, events, entry, timer, restoring, overtaken, unsaved>>

Callback == {"expired", "waiting", "marking", "cleaning"}
Running(t) == timer[t] \in Callback
Armed == {t \in Timers : timer[t] = "armed"}
Free == {t \in Timers : timer[t] = "off"} \ UNION restoring

TypeOK ==
  /\ tx \in {"none", "active", "ended"} /\ limit \in Limits /\ legal \in BOOLEAN
  /\ events \subseteq {"started", "power", "ended"}
  /\ entry \in Timers \union {NoTimer}
  /\ timer \in [Timers -> {"off", "armed"} \union Callback]
  /\ restoring \subseteq SUBSET Timers /\ overtaken \in BOOLEAN /\ unsaved \in BOOLEAN

Init ==
  /\ tx = "none" /\ limit \in Limits /\ legal = TRUE
  /\ events = {}
  /\ entry = NoTimer /\ timer = [t \in Timers |-> "off"] /\ restoring = {}
  /\ overtaken = FALSE /\ unsaved = FALSE

-----------------------------------------------------------------------------
(* The database and its event triggers, which make no second attempt and     *)
(* keep no order.                                                            *)

Begin ==
  /\ tx = "none"
  /\ tx' = "active" /\ events' = events \union {"started"}
  /\ UNCHANGED <<limit, legal, entry, timer, restoring, overtaken, unsaved>>

(* A measurement with power is stored. *)
Measure ==
  /\ tx = "active"
  /\ events' = events \union {"power"}
  /\ UNCHANGED <<database, entry, timer, restoring, overtaken, unsaved>>

Finish ==
  /\ tx = "active"
  /\ tx' = "ended" /\ events' = events \union {"ended"}
  /\ UNCHANGED <<limit, legal, entry, timer, restoring, overtaken, unsaved>>

(* The smart-charging service changes the session's limit. *)
Allocate ==
  /\ tx = "active"
  /\ limit' \in Limits
  /\ UNCHANGED <<tx, legal, events, entry, timer, restoring, overtaken, unsaved>>

LoseEvent(e) ==
  /\ "event lost" \in Faults /\ e \in events
  /\ events' = events \ {e}
  /\ UNCHANGED <<database, entry, timer, restoring, overtaken, unsaved>>

-----------------------------------------------------------------------------
(* The service.                                                              *)

(* startOrResetTimer, with n the new timer: Stop has no effect on a timer    *)
(* whose callback already runs; a session that had no timer is made legal.   *)
Stopped(states) == [t \in Timers |-> IF t = entry /\ t \in Armed THEN "off" ELSE states[t]]

(* Mutant: the session is not made legal. *)
MutantNoRestore(n, states) ==
  /\ timer' = [Stopped(states) EXCEPT ![n] = "armed"]
  /\ entry' = n
  /\ restoring' = {r \union {n} : r \in restoring}

StartOrReset(n, states) ==
  /\ timer' = [Stopped(states) EXCEPT ![n] = "armed"]
  /\ entry' = n
  /\ restoring' = {r \union {n} : r \in restoring}
                    \union (IF entry = NoTimer THEN {{n}} ELSE {})

SomeCallback == \E t \in Timers : Running(t)

HandleActivity(e, n) ==
  /\ e \in events \ {"ended"} /\ n \in Free
  /\ events' = events \ {e}
  /\ StartOrReset(n, timer)
  /\ overtaken' = (overtaken \/ SomeCallback)
  /\ UNCHANGED <<database, unsaved>>

HandleEnd ==
  /\ "ended" \in events
  /\ events' = events \ {"ended"}
  /\ timer' = Stopped(timer) /\ entry' = NoTimer
  /\ overtaken' = (overtaken \/ SomeCallback)
  /\ UNCHANGED <<database, restoring, unsaved>>

Restore(r) ==
  /\ r \in restoring
  /\ restoring' = restoring \ {r}
  /\ legal' = TRUE /\ unsaved' = FALSE
  /\ UNCHANGED <<tx, limit, events, entry, timer, overtaken>>

RestoreFails(r) ==
  /\ "update fails" \in Faults /\ r \in restoring
  /\ restoring' = restoring \ {r} /\ unsaved' = TRUE
  /\ UNCHANGED <<database, events, entry, timer, overtaken>>

Step(t, from, to) == timer[t] = from /\ timer' = [timer EXCEPT ![t] = to]

Expire(t) ==
  /\ t \notin UNION restoring
  /\ Step(t, "armed", "expired")
  /\ UNCHANGED <<database, events, entry, restoring, overtaken, unsaved>>

(* fetchAllocatedLimit answers -1 for a session with no limit. *)
FetchLimit(t) ==
  /\ Step(t, "expired", IF limit = "zero" THEN "waiting" ELSE "marking")
  /\ UNCHANGED <<database, events, entry, restoring, overtaken, unsaved>>

(* Mutant: an error is answered with 0. *)
MutantErrorIsZero(t) ==
  /\ "fetch fails" \in Faults
  /\ Step(t, "expired", "waiting")
  /\ UNCHANGED <<database, events, entry, restoring, overtaken, unsaved>>

(* ... and for any error. *)
FetchFails(t) ==
  /\ "fetch fails" \in Faults
  /\ Step(t, "expired", "marking")
  /\ UNCHANGED <<database, events, entry, restoring, overtaken, unsaved>>

(* The callback ends by starting the timer again. *)
WaitLonger(t, n) ==
  /\ timer[t] = "waiting" /\ n \in Free \union ({t} \ UNION restoring)
  /\ StartOrReset(n, [timer EXCEPT ![t] = "off"])
  /\ UNCHANGED <<database, events, overtaken, unsaved>>

MarkIllegal(t) ==
  /\ Step(t, "marking", "cleaning")
  /\ legal' = FALSE
  /\ UNCHANGED <<tx, limit, events, entry, restoring, overtaken, unsaved>>

MarkFails(t) ==
  /\ "update fails" \in Faults
  /\ Step(t, "marking", "cleaning")
  /\ UNCHANGED <<database, events, entry, restoring, overtaken, unsaved>>

(* Mutant: the entry stays in the map. *)
MutantNoDelete(t) ==
  /\ Step(t, "cleaning", "off")
  /\ UNCHANGED <<database, events, entry, restoring, overtaken, unsaved>>

CleanUp(t) ==
  /\ Step(t, "cleaning", "off")
  /\ entry' = NoTimer
  /\ UNCHANGED <<database, events, restoring, overtaken, unsaved>>

Restart ==
  /\ "restart" \in Faults
  /\ entry' = NoTimer /\ timer' = [t \in Timers |-> "off"] /\ restoring' = {}
  /\ UNCHANGED <<database, events, overtaken, unsaved>>

-----------------------------------------------------------------------------
Handle == (\E e \in events, n \in Timers : HandleActivity(e, n)) \/ HandleEnd

Proceed(t) ==
  \/ Expire(t) \/ FetchLimit(t) \/ MarkIllegal(t) \/ CleanUp(t)
  \/ \E n \in Timers : WaitLonger(t, n)

(* Failures the service makes up for as long as the vehicle stays, ... *)
Miss == (\E e \in events : LoseEvent(e)) \/ (\E t \in Timers : FetchFails(t))

(* ... and those it does not. *)
Break ==
  \/ \E r \in restoring : RestoreFails(r)
  \/ \E t \in Timers : MarkFails(t)
  \/ Restart

Work ==
  \/ Begin \/ Measure \/ Finish \/ Allocate
  \/ Handle
  \/ \E r \in restoring : Restore(r)
  \/ \E t \in Timers : Proceed(t)

Next == Work \/ Miss \/ Break

(* Webhooks that are not lost arrive; timers expire, and goroutines are      *)
(* scheduled and get an answer or a timeout.                                 *)
Fairness ==
  /\ SF_vars(Handle)
  /\ WF_vars(\E r \in restoring : Restore(r))
  /\ \A t \in Timers : WF_vars(Proceed(t))

Spec == Init /\ [][Next]_vars
FairSpec == Spec /\ Fairness

-----------------------------------------------------------------------------
(* Properties.                                                               *)

(* The map never holds a timer that is over: its entry is armed, or its      *)
(* callback has still to remove or replace it (main.go 75-118).              *)
EntryIsAlive == entry # NoTimer => timer[entry] # "off"

(* Unless a webhook was handled while a callback was running, every timer    *)
(* that can still act on the session is the one in the map, so the next      *)
(* reset or stop reaches it (main.go 79-80, 97-99, 111-113).  Proved only;    *)
(* MonitoredIsLegal rests on it.                                             *)
OneTimer == ~overtaken => \A t \in Timers : timer[t] # "off" => entry = t

(* With the same exception, a session whose grace period is running is       *)
(* legal, or an update that makes it so is under way or was the last to fail *)
(* (main.go 79-85).                                                          *)
MonitoredIsLegal ==
  ~overtaken => \A t \in Armed : legal \/ unsaved \/ t \in UNION restoring

(* A session that stays plugged in with a limit above 0 A and no power drawn *)
(* is found out in the end, whatever races its timers went through.          *)
IdleFound ==
  <>[](tx = "active" /\ limit # "zero" /\ events = {}) /\ <>(entry # NoTimer) => <>[]~legal

(* A vehicle that goes on drawing power is legal again and again: no race    *)
(* makes a violation permanent.                                              *)
ResumptionRestores ==
  []<><<\E n \in Timers : HandleActivity("power", n)>>_vars => []<>legal

=============================================================================
