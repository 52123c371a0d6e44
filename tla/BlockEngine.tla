----------------------------- MODULE BlockEngine -----------------------------
(***************************************************************************)
(* The regulation of one power block by the smart-charging service         *)
(* (engine.go): the webhooks that reset the block's loop, the loop         *)
(* goroutines and their calculation passes, the charging profiles sent to  *)
(* the stations through CitrineOS, the engine's caches and the             *)
(* asynchronous updates of Transactions.allocated_limit.                   *)
(*                                                                         *)
(* A loop and the first calculation that resetBlockLoop makes for it share *)
(* one identifier, because the goroutine starts when that calculation      *)
(* ends: so each loop has at most one pass in progress.  An action covers  *)
(* what the code does between two points where another goroutine, the      *)
(* database or a station can act.                                          *)
(*                                                                         *)
(* How much each session gets is a parameter here (Allocate); the          *)
(* algorithm is in LimitAllocation.  Abstracted: profile identifiers and   *)
(* payloads, which only name the limit sent; the length of the cooldown,   *)
(* which ends at any time and is kept for OCPP 1.6 alone, the only ones    *)
(* that read it; and the grace period, which only Allocate depends on.     *)
(***************************************************************************)
EXTENDS Integers, FiniteSets

CONSTANTS
  Sessions,      \* charging sessions (transactions) of the block's stations
  Ocpp16,        \* those whose station speaks OCPP 1.6
  Loops,         \* identifiers of loops; bounds how many run at once
  MaxCurrents,   \* values PowerBlocks.max_a takes
  Allocate,      \* Allocate[m][S]: the limits of the sessions S for max_a = m
  MinChange,     \* 3 A, the smallest change an OCPP 1.6 station is sent
  MaxEdits,      \* bound: changes of the block's configuration
  Faults,        \* which of the failures below the environment may cause
  Tracked,       \* the sessions whose row in the database is followed
  NoLoop, Unset

ASSUME EngineAssumption ==
  /\ Ocpp16 \subseteq Sessions /\ Tracked \subseteq Sessions
  /\ NoLoop \notin Loops /\ Unset \notin Nat \union Sessions
  /\ MaxCurrents \subseteq Nat /\ MinChange \in Nat /\ MaxEdits \in Nat
  /\ Faults \subseteq {"event lost", "fetch fails", "send fails", "send dropped",
                       "answer lost", "write fails", "restart"}

ASSUME AllocateAssumption ==
  Allocate \in [MaxCurrents -> [SUBSET Sessions -> [Sessions -> Nat]]]

VARIABLES
  \* the database, its event triggers, and the stations
  session,    \* session[s]: "none", "active" or "ended"
  maxA,       \* max_a of the block
  edits,      \* how often the block has been reconfigured
  events,     \* webhook calls on their way to the service
  dbLimit,    \* allocated_limit of each session
  station,    \* the limit CitrineOS last took for each session's station
  settling,   \* OCPP 1.6 stations that were given one less than 5 min ago
  \* the service
  activeLoop, \* the block's entry in activeLoops
  cancelled,  \* loops whose context is cancelled
  pass,       \* where each loop is, and the variables of its calculation
  lastApplied,\* lastAppliedLimits
  cooling,    \* those with a lastProfileSendTime less than 5 min ago
  dbWrites,   \* updateTransactionLimitInDB goroutines not finished
  \* history
  doubtful,   \* sessions two passes were sending to at once, or for which
              \* CitrineOS's answer did not say what it had done
  crossed     \* sessions that had two updates under way at once, or a lost one

dbVars == <<session, maxA, edits>>
stationVars == <<station, settling>>
loopVars == <<activeLoop, cancelled>>
cacheVars == <<lastApplied, cooling, dbWrites>>
historyVars == <<doubtful, crossed>>
vars == <<dbVars, events, dbLimit, stationVars, loopVars, pass, cacheVars, historyVars>>

Limits == Nat \union {Unset}
Event == [kind : {"started", "ended"}, of : Sessions] \union {[kind |-> "edited"]}
Active == {s \in Sessions : session[s] = "active"}

Places == {"gone", "fetch", "empty", "send", "sending", "record", "idle"}
Pass == [at : Places, todo : SUBSET Sessions, plan : [Sessions -> Nat],
         current : Sessions \union {Unset}]
NoPlan == [s \in Sessions |-> 0]
Outside(place) == [at |-> place, todo |-> {}, plan |-> NoPlan, current |-> Unset]

At(l, place) == pass[l].at = place
Busy(l) == pass[l].at \notin {"gone", "idle"}
SendingTo(l, s) == pass[l].at \in {"sending", "record"} /\ pass[l].current = s
Move(l, place) == pass' = [pass EXCEPT ![l].at = place]

TypeOK ==
  /\ session \in [Sessions -> {"none", "active", "ended"}]
  /\ maxA \in MaxCurrents /\ edits \in 0 .. MaxEdits
  /\ events \subseteq Event
  /\ dbLimit \in [Sessions -> Limits] /\ station \in [Sessions -> Limits]
  /\ settling \subseteq Ocpp16 /\ cooling \subseteq Ocpp16 
  /\ doubtful \subseteq Sessions /\ crossed \subseteq Sessions
  /\ activeLoop \in Loops \union {NoLoop} /\ cancelled \subseteq Loops
  /\ pass \in [Loops -> Pass]
  /\ lastApplied \in [Sessions -> Limits]
  /\ dbWrites \subseteq [session : Sessions, limit : Nat]

Init ==
  /\ session = [s \in Sessions |-> "none"]
  /\ maxA \in MaxCurrents /\ edits = 0
  /\ events = {}
  /\ dbLimit = [s \in Sessions |-> Unset] /\ station = [s \in Sessions |-> Unset]
  /\ settling = {} /\ cooling = {} /\ doubtful = {} /\ crossed = {}
  /\ activeLoop = NoLoop /\ cancelled = {}
  /\ pass = [l \in Loops |-> Outside("gone")]
  /\ lastApplied = [s \in Sessions |-> Unset] /\ dbWrites = {}

-----------------------------------------------------------------------------
(* The database and its event triggers.                                      *)

Raise(e) == events' = events \union {e}

StartSession(s) ==
  /\ session[s] = "none"
  /\ session' = [session EXCEPT ![s] = "active"]
  /\ Raise([kind |-> "started", of |-> s])
  /\ UNCHANGED <<maxA, edits, dbLimit, stationVars, loopVars, pass, cacheVars, historyVars>>

EndSession(s) ==
  /\ session[s] = "active"
  /\ session' = [session EXCEPT ![s] = "ended"]
  /\ Raise([kind |-> "ended", of |-> s])
  /\ UNCHANGED <<maxA, edits, dbLimit, stationVars, loopVars, pass, cacheVars, historyVars>>

(* max_a is changed, or another column whose trigger resets the block. *)
EditBlock ==
  /\ edits < MaxEdits
  /\ edits' = edits + 1
  /\ maxA' \in MaxCurrents
  /\ Raise([kind |-> "edited"])
  /\ UNCHANGED <<session, dbLimit, stationVars, loopVars, pass, cacheVars, historyVars>>

(* The triggers make no second attempt (num_retries: 0). *)
LoseEvent(e) ==
  /\ "event lost" \in Faults /\ e \in events
  /\ events' = events \ {e}
  /\ UNCHANGED <<dbVars, dbLimit, stationVars, loopVars, pass, cacheVars, historyVars>>

(* Five minutes after the last profile. *)
CooldownElapses(s) ==
  /\ s \in settling \union cooling
  /\ settling' = settling \ {s} /\ cooling' = cooling \ {s}
  /\ UNCHANGED <<dbVars, events, dbLimit, station, loopVars, pass, lastApplied, dbWrites, historyVars>>

WriteLimit(w) ==
  /\ w \in dbWrites
  /\ dbWrites' = dbWrites \ {w}
  /\ dbLimit' = [dbLimit EXCEPT ![w.session] = w.limit]
  /\ UNCHANGED <<dbVars, events, stationVars, loopVars, pass, lastApplied, cooling, historyVars>>

(* Its error is ignored. *)
WriteFails(w) ==
  /\ "write fails" \in Faults /\ w \in dbWrites
  /\ dbWrites' = dbWrites \ {w}
  /\ crossed' = crossed \union {w.session}
  /\ UNCHANGED <<dbVars, events, dbLimit, stationVars, loopVars, pass, lastApplied, cooling, doubtful>>

-----------------------------------------------------------------------------
(* The service.                                                              *)

(* Mutants: the old loop is not cancelled; there may be none to cancel.      *)
MutantCancelNone == cancelled
MutantCancelAny == cancelled \union {activeLoop}

Cancelling == cancelled \union ({activeLoop} \ {NoLoop})

(* HandleTransactions and the locked part of resetBlockLoop.  Events are     *)
(* handled concurrently and in any order; l is the loop being created.       *)
ResetBlockLoop(e, l) ==
  /\ e \in events /\ At(l, "gone")
  /\ events' = events \ {e}
  /\ cancelled' = Cancelling
  /\ activeLoop' = l
  /\ Move(l, "fetch")
  /\ UNCHANGED <<dbVars, dbLimit, stationVars, cacheVars, historyVars>>

(* executeCalculation: read the block, and plan the limits of its sessions.  *)
Fetch(l) ==
  /\ At(l, "fetch")
  /\ pass' = [pass EXCEPT ![l] =
       [at |-> IF Active = {} THEN "empty" ELSE "send",
        todo |-> Active,
        plan |-> Allocate[maxA][Active],
        current |-> Unset]]
  /\ UNCHANGED <<dbVars, events, dbLimit, stationVars, loopVars, cacheVars, historyVars>>

FetchFails(l) ==
  /\ "fetch fails" \in Faults /\ At(l, "fetch")
  /\ Move(l, "idle")
  /\ UNCHANGED <<dbVars, events, dbLimit, stationVars, loopVars, cacheVars, historyVars>>

(* Mutant: the registry forgets the loop without cancelling it. *)
MutantStopLoop(l) ==
  /\ At(l, "empty")
  /\ activeLoop' = NoLoop
  /\ Move(l, "idle")
  /\ UNCHANGED <<dbVars, events, dbLimit, stationVars, cancelled, cacheVars, historyVars>>

(* No session was found: stop whichever loop the block has now. *)
StopLoop(l) ==
  /\ At(l, "empty")
  /\ cancelled' = Cancelling
  /\ activeLoop' = NoLoop
  /\ Move(l, "idle")
  /\ UNCHANGED <<dbVars, events, dbLimit, stationVars, cacheVars, historyVars>>

(* Mutants: no cooldown; a change of exactly 3 A is spared too. *)
MutantNoCooldown(s, limit) ==
  /\ s \in Ocpp16 /\ lastApplied[s] # Unset
  /\ limit - lastApplied[s] \in (1 - MinChange) .. (MinChange - 1) /\ limit # 0

MutantSparesMore(s, limit) ==
  /\ s \in Ocpp16 /\ lastApplied[s] # Unset
  /\ \/ limit - lastApplied[s] \in (0 - MinChange) .. MinChange /\ limit # 0
     \/ s \in cooling

(* An OCPP 1.6 station is spared small changes and, for five minutes after   *)
(* a profile, every change.                                                  *)
Spared(s, limit) ==
  /\ s \in Ocpp16 /\ lastApplied[s] # Unset
  /\ \/ limit - lastApplied[s] \in (1 - MinChange) .. (MinChange - 1) /\ limit # 0
     \/ s \in cooling

(* The decision on one session of the pass, from the caches as they are now. *)
Skips(l, s) == lastApplied[s] = pass[l].plan[s] \/ Spared(s, pass[l].plan[s])

Skip(l, s) ==
  /\ At(l, "send") /\ s \in pass[l].todo /\ Skips(l, s)
  /\ pass' = [pass EXCEPT ![l].todo = @ \ {s}]
  /\ UNCHANGED <<dbVars, events, dbLimit, stationVars, loopVars, cacheVars, historyVars>>

Choose(l, s) ==
  /\ At(l, "send") /\ s \in pass[l].todo /\ ~Skips(l, s)
  /\ pass' = [pass EXCEPT ![l].todo = @ \ {s}, ![l].current = s, ![l].at = "sending"]
  /\ doubtful' = IF \E k \in Loops \ {l} : SendingTo(k, s) THEN doubtful \union {s} ELSE doubtful
  /\ UNCHANGED <<dbVars, events, dbLimit, stationVars, loopVars, cacheVars, crossed>>

Give(s, limit) ==
  /\ station' = [station EXCEPT ![s] = limit]
  /\ settling' = settling \union ({s} \intersect Ocpp16)

(* sendTxProfile: CitrineOS queues the profile for the station and answers   *)
(* 2xx, ...                                                                  *)
Send(l) ==
  /\ At(l, "sending")
  /\ Move(l, "record")
  /\ Give(pass[l].current, pass[l].plan[pass[l].current])
  /\ UNCHANGED <<dbVars, events, dbLimit, loopVars, cacheVars, historyVars>>

(* ... or it knows no connection for the station, and answers 2xx too, ...   *)
SendDropped(l) ==
  /\ "send dropped" \in Faults /\ At(l, "sending")
  /\ Move(l, "record")
  /\ doubtful' = doubtful \union {pass[l].current}
  /\ UNCHANGED <<dbVars, events, dbLimit, stationVars, loopVars, cacheVars, crossed>>

(* Mutant: the error is not looked at. *)
MutantErrorIgnored(l) ==
  /\ "send fails" \in Faults /\ At(l, "sending")
  /\ Move(l, "record")
  /\ UNCHANGED <<dbVars, events, dbLimit, stationVars, loopVars, cacheVars, historyVars>>

(* ... or the call fails: logged, and the pass goes on ...                   *)
SendFails(l) ==
  /\ "send fails" \in Faults /\ At(l, "sending")
  /\ pass' = [pass EXCEPT ![l].at = "send", ![l].current = Unset]
  /\ UNCHANGED <<dbVars, events, dbLimit, stationVars, loopVars, cacheVars, historyVars>>

(* ... though CitrineOS may have queued the profile before it failed.        *)
AnswerLost(l) ==
  /\ "answer lost" \in Faults /\ At(l, "sending")
  /\ pass' = [pass EXCEPT ![l].at = "send", ![l].current = Unset]
  /\ Give(pass[l].current, pass[l].plan[pass[l].current])
  /\ doubtful' = doubtful \union {pass[l].current}
  /\ UNCHANGED <<dbVars, events, dbLimit, loopVars, cacheVars, crossed>>

(* Mutant: the update takes the limit that was remembered before.            *)
MutantOldLimit(s, limit) ==
  /\ dbWrites' = dbWrites \union
       [session : {s} \intersect Tracked, limit : {lastApplied[s]} \intersect Nat]
  /\ crossed' = IF \E w \in dbWrites : w.session = s THEN crossed \union {s} ELSE crossed

(* What a successful send leaves in the caches ... *)
Remember(s, limit) ==
  /\ lastApplied' = [lastApplied EXCEPT ![s] = limit]
  /\ cooling' = cooling \union ({s} \intersect Ocpp16)

(* ... and the update it starts. *)
StartUpdate(s, limit) ==
  /\ dbWrites' = dbWrites \union [session : {s} \intersect Tracked, limit : {limit}]
  /\ crossed' = IF \E w \in dbWrites : w.session = s THEN crossed \union {s} ELSE crossed

Record(l) ==
  LET s == pass[l].current IN
  /\ At(l, "record")
  /\ pass' = [pass EXCEPT ![l].at = "send", ![l].current = Unset]
  /\ Remember(s, pass[l].plan[s])
  /\ StartUpdate(s, pass[l].plan[s])
  /\ UNCHANGED <<dbVars, events, dbLimit, stationVars, loopVars, doubtful>>

(* Mutant: the pass returns where it should go on with the next session. *)
MutantReturnEarly(l) ==
  /\ At(l, "send")
  /\ pass' = [pass EXCEPT ![l] = Outside("idle")]
  /\ UNCHANGED <<dbVars, events, dbLimit, stationVars, loopVars, cacheVars, historyVars>>

FinishPass(l) ==
  /\ At(l, "send") /\ pass[l].todo = {}
  /\ pass' = [pass EXCEPT ![l] = Outside("idle")]
  /\ UNCHANGED <<dbVars, events, dbLimit, stationVars, loopVars, cacheVars, historyVars>>

(* The select of the loop goroutine: when the context is cancelled and a     *)
(* tick is waiting too, Go takes either branch.                              *)
Tick(l) ==
  /\ At(l, "idle")
  /\ Move(l, "fetch")
  /\ UNCHANGED <<dbVars, events, dbLimit, stationVars, loopVars, cacheVars, historyVars>>

(* Mutant: the loop ends after any pass. *)
MutantEndAnyLoop(l) ==
  /\ At(l, "idle")
  /\ Move(l, "gone")
  /\ cancelled' = cancelled \ {l}
  /\ UNCHANGED <<dbVars, events, dbLimit, stationVars, activeLoop, cacheVars, historyVars>>

EndLoop(l) ==
  /\ At(l, "idle") /\ l \in cancelled
  /\ Move(l, "gone")
  /\ cancelled' = cancelled \ {l}
  /\ UNCHANGED <<dbVars, events, dbLimit, stationVars, activeLoop, cacheVars, historyVars>>

(* The process dies with its maps, its goroutines and their requests. *)
Restart ==
  /\ "restart" \in Faults
  /\ activeLoop' = NoLoop /\ cancelled' = {}
  /\ pass' = [l \in Loops |-> Outside("gone")]
  /\ lastApplied' = [s \in Sessions |-> Unset] /\ cooling' = {} /\ dbWrites' = {}
  /\ UNCHANGED <<dbVars, events, dbLimit, stationVars, historyVars>>

-----------------------------------------------------------------------------
PassStep(l) ==
  \/ Fetch(l) \/ StopLoop(l) \/ Send(l) \/ Record(l) \/ FinishPass(l)
  \/ \E s \in Sessions : Skip(l, s) \/ Choose(l, s)

Failure ==
  \/ \E e \in events : LoseEvent(e)
  \/ \E w \in dbWrites : WriteFails(w)
  \/ \E l \in Loops : FetchFails(l) \/ SendDropped(l) \/ SendFails(l) \/ AnswerLost(l)
  \/ Restart

Next ==
  \/ \E s \in Sessions : StartSession(s) \/ EndSession(s) \/ CooldownElapses(s)
  \/ EditBlock
  \/ \E w \in dbWrites : WriteLimit(w)
  \/ \E e \in events, l \in Loops : ResetBlockLoop(e, l)
  \/ \E l \in Loops : PassStep(l) \/ Tick(l) \/ EndLoop(l)
  \/ Failure

(* Goroutines are scheduled, tickers fire, requests return, and webhooks     *)
(* that are not lost arrive (there are finitely many: one handled at a time  *)
(* is enough).  A cancelled loop may lose the select against a waiting tick, *)
(* but Go chooses at random, so not for ever: strong fairness.               *)
Fairness ==
  /\ \A l \in Loops : WF_vars(PassStep(l) \/ Tick(l)) /\ SF_vars(EndLoop(l))
  /\ SF_vars(\E e \in events, l \in Loops : ResetBlockLoop(e, l))
  /\ WF_vars(\E w \in dbWrites : WriteLimit(w))
  /\ \A s \in Ocpp16 : WF_vars(CooldownElapses(s))

Spec == Init /\ [][Next]_vars
FairSpec == Spec /\ Fairness

-----------------------------------------------------------------------------
(* Properties.                                                               *)

(* Exactly the loop registered in activeLoops is alive with a context nobody *)
(* cancelled: resets never leave two loops regulating the block for good,    *)
(* and the registry never points to a loop that ended (engine.go 117-148,    *)
(* 156-163).                                                                 *)
OneLiveLoop == \A l \in Loops : ~At(l, "gone") /\ l \notin cancelled <=> activeLoop = l

Ownership == INSTANCE LoopOwnership
  WITH owner <- activeLoop, alive <- {l \in Loops : ~At(l, "gone")}

(* The registry with its goroutines implements the ownership protocol: a     *)
(* loop that lost the block never gets it back, and only such a loop ends.   *)
LoopsOwnBlockOnce == Ownership!Spec

(* The limit the engine remembers is the one CitrineOS has for the station,  *)
(* except between a send and its record, so that skipping an equal limit is  *)
(* sound -- unless two passes were sending to that session at once, or the   *)
(* answer to a send was wrong (engine.go 186-229).                           *)
StationFollowsEngine ==
  \A s \in Sessions \ doubtful :
    \/ lastApplied[s] \in {station[s], Unset}
    \/ \E l \in Loops : At(l, "record") /\ pass[l].current = s

(* Likewise an OCPP 1.6 station is given no new limit above 0 A within five   *)
(* minutes of the last one, if the service remembers that one, whatever       *)
(* passes, edits and failures come between (engine.go 195-216).  Cut-offs to  *)
(* 0 A are left to CutOffIsImmediate.                                        *)
Ocpp16Settles ==
  [][\A s \in Ocpp16 \ doubtful :
       s \in settling /\ lastApplied[s] # Unset => station'[s] \in {station[s], 0}]_vars

(* allocated_limit is what the engine applied last once no update is under   *)
(* way, unless two updates of the session were under way at once, or one was *)
(* lost (engine.go 243, 497-511).                                            *)
DatabaseFollowsEngine ==
  \A s \in Tracked \ crossed :
    \/ lastApplied[s] \in {dbLimit[s], Unset}
    \/ \E w \in dbWrites : w.session = s

(* When the block has no sessions left and nothing more happens to it, every *)
(* loop ends, the one on duty by stopping itself (engine.go 156-163).        *)
LoopsStop ==
  <>[](Active = {}) => <>[](\A l \in Loops : At(l, "gone"))

(* A session whose start event is not lost is given its first limit, whether *)
(* by the loop its event creates or by one that runs meanwhile.              *)
SessionsGetLimit ==
  \A s \in Sessions : session[s] = "active" ~> lastApplied[s] # Unset \/ session[s] = "ended"

(* If passes never overlap and a block with sessions keeps its loop, the     *)
(* stations end up with exactly the limits of the current block: stale       *)
(* snapshots, skipped sends, the cooldown and lost webhooks only delay it    *)
(* (engine.go 132-147, 186-216).  OCPP 1.6 stations are spared changes below *)
(* 3 A.                                                                      *)
Close(s, limit) ==
  \/ station[s] = limit
  \/ s \in Ocpp16 /\ station[s] - limit \in (1 - MinChange) .. (MinChange - 1)

Overlap == \E k, l \in Loops : k # l /\ Busy(k) /\ Busy(l)

LimitsConverge ==
  []~Overlap /\ <>[](Active # {} => activeLoop # NoLoop) =>
    <>[](\A s \in Active : station[s] # Unset /\ Close(s, Allocate[maxA][Active][s]))

Quiet == events = {} /\ \A l \in Loops : ~Busy(l)

(* What the report says and the code does not keep: see the findings.        *)

(* A block with a session is regulated: its loop runs. *)
LoopWhileActive == Quiet /\ Active # {} => activeLoop # NoLoop

=============================================================================
