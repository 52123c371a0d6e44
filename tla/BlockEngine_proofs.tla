------------------------- MODULE BlockEngine_proofs -------------------------
(***************************************************************************)
(* Theorems about BlockEngine, for any number of sessions and loops, any   *)
(* allocation of limits and any of the faults.                             *)
(***************************************************************************)
EXTENDS BlockEngine, TLAPS

(* What happens in the database and to the stations' clocks.                 *)
World ==
  \/ \E s \in Sessions : StartSession(s) \/ EndSession(s) \/ CooldownElapses(s)
  \/ EditBlock
  \/ \E e \in events : LoseEvent(e)
  \/ \E w \in dbWrites : WriteLimit(w) \/ WriteFails(w)

(* The steps of one loop l: all of them but its creation. *)
LoopStep(l) ==
  \/ PassStep(l) \/ FetchFails(l) \/ SendDropped(l) \/ SendFails(l) \/ AnswerLost(l)
  \/ Tick(l) \/ EndLoop(l)

LEMMA NoLoopIsNone == NoLoop \notin Loops
  BY EngineAssumption

LEMMA NextCases ==
  Next <=> \/ World \/ Restart
           \/ \E e \in events, l \in Loops : ResetBlockLoop(e, l)
           \/ \E l \in Loops : LoopStep(l)
  BY DEF Next, Failure, World, LoopStep

LEMMA WorldKeepsService == World => UNCHANGED <<loopVars, pass, lastApplied, station, doubtful>>
  BY DEF World, StartSession, EndSession, CooldownElapses, EditBlock, LoseEvent, WriteLimit,
         WriteFails, stationVars, cacheVars, loopVars, historyVars

(* A step of a loop changes no other loop's place or pass. *)
LEMMA OwnPassOnly ==
  ASSUME TypeOK, NEW l \in Loops, LoopStep(l) \/ \E e \in events : ResetBlockLoop(e, l)
  PROVE  /\ pass' \in [Loops -> Pass]
         /\ \A k \in Loops \ {l} : pass'[k] = pass[k]
<1> DEFINE OnlyPassOf(q) == q \in Pass /\ pass' = [pass EXCEPT ![l] = q]
           Goal == /\ pass' \in [Loops -> Pass]
                   /\ \A k \in Loops \ {l} : pass'[k] = pass[k]
<1>a. pass \in [Loops -> Pass] /\ pass[l] \in Pass
  BY DEF TypeOK
<1>b. ASSUME NEW q, OnlyPassOf(q) PROVE Goal
  BY <1>a, <1>b
<1>c. \A place \in Places : [pass[l] EXCEPT !.at = place] \in Pass
  BY <1>a DEF Pass
<1>d. ASSUME NEW place \in Places, Move(l, place) PROVE Goal
  BY <1>d, <1>b, <1>c DEF Move
<1>1. CASE \/ FetchFails(l) \/ StopLoop(l) \/ Send(l) \/ SendDropped(l) \/ Tick(l) \/ EndLoop(l)
           \/ \E e \in events : ResetBlockLoop(e, l)
  BY <1>1, <1>d DEF FetchFails, StopLoop, Send, SendDropped, Tick, EndLoop, ResetBlockLoop, Places
<1>2. CASE Fetch(l)
  <2>1. Active \in SUBSET Sessions /\ Allocate[maxA][Active] \in [Sessions -> Nat]
    BY AllocateAssumption DEF Active, TypeOK
  <2> DEFINE q == [at |-> IF Active = {} THEN "empty" ELSE "send", todo |-> Active,
                   plan |-> Allocate[maxA][Active], current |-> Unset]
  <2>2. q \in Pass
    BY <2>1 DEF Pass, Places
  <2>3. OnlyPassOf(q)
    BY <1>2, <2>2 DEF Fetch
  <2> HIDE DEF q
  <2> QED
    BY <1>b, <2>3
<1>3. ASSUME NEW s \in Sessions, Skip(l, s) PROVE Goal
  <2>1. [pass[l] EXCEPT !.todo = @ \ {s}] \in Pass
    BY <1>a DEF Pass
  <2> QED
    BY <1>3, <1>b, <2>1 DEF Skip
<1>4. ASSUME NEW s \in Sessions, Choose(l, s) PROVE Goal
  <2>1. [pass[l] EXCEPT !.todo = @ \ {s}, !.current = s, !.at = "sending"] \in Pass
    BY <1>a DEF Pass, Places
  <2> QED
    BY <1>4, <1>b, <2>1 DEF Choose
<1>5. CASE SendFails(l) \/ AnswerLost(l) \/ Record(l)
  <2> DEFINE q == [pass[l] EXCEPT !.at = "send", !.current = Unset]
  <2>1. q \in Pass
    BY <1>a DEF Pass, Places
  <2>2. pass' = [pass EXCEPT ![l] = q]
    BY <1>5 DEF SendFails, AnswerLost, Record
  <2> HIDE DEF q
  <2> QED
    BY <1>b, <2>1, <2>2
<1>6. CASE FinishPass(l)
  <2>1. Outside("idle") \in Pass
    BY DEF Outside, NoPlan, Pass, Places
  <2> QED
    BY <1>6, <1>b, <2>1 DEF FinishPass
<1> QED
  BY <1>1, <1>2, <1>3, <1>4, <1>5, <1>6 DEF LoopStep, PassStep

(* A step of a loop leaves it sending only if it chose a session, or went on *)
(* with the one it was sending to.                                           *)
LEMMA SendingMoves ==
  ASSUME TypeOK, NEW l \in Loops, LoopStep(l)
  PROVE  \/ pass'[l].at \notin {"sending", "record"}
         \/ /\ Send(l) \/ SendDropped(l)
            /\ pass'[l].at = "record" /\ pass'[l].current = pass[l].current
            /\ pass'[l].plan = pass[l].plan
         \/ \E s \in Sessions :
              Choose(l, s) /\ pass'[l].at = "sending" /\ pass'[l].current = s
<1>a. pass \in [Loops -> Pass] /\ pass[l] \in Pass
  BY DEF TypeOK
<1>1. CASE FetchFails(l) \/ StopLoop(l) \/ Tick(l) \/ EndLoop(l)
  <2>1. \E place \in {"idle", "fetch", "gone"} : Move(l, place)
    BY <1>1 DEF FetchFails, StopLoop, Tick, EndLoop
  <2> QED
    BY <2>1, <1>a DEF Move, Pass
<1>2. CASE Send(l) \/ SendDropped(l)
  <2>1. pass' = [pass EXCEPT ![l].at = "record"]
    BY <1>2 DEF Send, SendDropped, Move
  <2> QED
    BY <1>2, <2>1, <1>a DEF Pass
<1>3. CASE Fetch(l)
  BY <1>3, <1>a DEF Fetch
<1>4. ASSUME NEW s \in Sessions, Skip(l, s) PROVE pass'[l].at = "send"
  BY <1>4, <1>a DEF Skip, At, Pass
<1>5. ASSUME NEW s \in Sessions, Choose(l, s)
      PROVE  pass'[l].at = "sending" /\ pass'[l].current = s
  BY <1>5, <1>a DEF Choose, Pass
<1>6. CASE SendFails(l) \/ AnswerLost(l) \/ Record(l)
  <2>1. pass' = [pass EXCEPT ![l].at = "send", ![l].current = Unset]
    BY <1>6 DEF SendFails, AnswerLost, Record
  <2> QED
    BY <2>1, <1>a DEF Pass
<1>7. CASE FinishPass(l)
  BY <1>7, <1>a DEF FinishPass, Outside
<1> QED
  BY <1>1, <1>2, <1>3, <1>4, <1>5, <1>6, <1>7 DEF LoopStep, PassStep

(* Whoever sends has a session to send to. *)
Senders == \A l \in Loops : pass[l].at \in {"sending", "record"} => pass[l].current \in Sessions

LEMMA SendersStep == TypeOK /\ Senders /\ [Next]_vars => Senders'
<1> SUFFICES ASSUME TypeOK, Senders, [Next]_vars PROVE Senders'
  OBVIOUS
<1>1. CASE World \/ UNCHANGED vars
  BY <1>1, WorldKeepsService DEF vars, Senders
<1>2. CASE Restart
  BY <1>2 DEF Restart, Outside, Senders
<1>3. ASSUME NEW e \in events, NEW l \in Loops, ResetBlockLoop(e, l) PROVE Senders'
  BY <1>3 DEF ResetBlockLoop, Move, Senders, TypeOK
<1>4. ASSUME NEW l \in Loops, LoopStep(l) PROVE Senders'
  BY <1>4, SendingMoves, OwnPassOnly DEF Senders, Send, SendDropped, At
<1> QED
  BY <1>1, <1>2, <1>3, <1>4, NextCases

(* What a step of a loop does to the rest of the state.                      *)
LEMMA LoopStepTypes ==
  ASSUME TypeOK, Senders, NEW l \in Loops, LoopStep(l)
  PROVE  TypeOK'
<1>a. pass' \in [Loops -> Pass]
  BY OwnPassOnly
<1>b. pass[l] \in Pass
  BY DEF TypeOK
<1>c. ASSUME pass[l].at \in {"sending", "record"}
      PROVE  pass[l].current \in Sessions /\ pass[l].plan[pass[l].current] \in Nat
  BY <1>b, <1>c DEF Senders, Pass
<1> USE DEF TypeOK
<1>1. CASE Fetch(l) \/ FetchFails(l) \/ FinishPass(l) \/ Tick(l) \/ SendFails(l)
             \/ \E s \in Sessions : Skip(l, s)
  BY <1>1, <1>a DEF Fetch, FetchFails, FinishPass, Tick, SendFails, Skip, dbVars, stationVars,
                    loopVars, cacheVars, historyVars
<1>2. CASE StopLoop(l) \/ EndLoop(l)
  BY <1>2, <1>a DEF StopLoop, EndLoop, Cancelling, dbVars, stationVars, loopVars, cacheVars,
                    historyVars
<1>3. ASSUME NEW s \in Sessions, Choose(l, s) PROVE TypeOK'
  BY <1>3, <1>a DEF Choose, dbVars, stationVars, loopVars, cacheVars
<1>4. CASE Send(l) \/ AnswerLost(l) \/ SendDropped(l)
  BY <1>4, <1>a, <1>c DEF Send, AnswerLost, SendDropped, Give, Limits, At, dbVars, loopVars,
                          stationVars, cacheVars, historyVars
<1>5. CASE Record(l)
  BY <1>5, <1>a, <1>c DEF Record, Remember, StartUpdate, Limits, At, dbVars, stationVars,
                          loopVars, historyVars
<1> QED
  BY <1>1, <1>2, <1>3, <1>4, <1>5 DEF LoopStep, PassStep

LEMMA TypeStep == TypeOK /\ Senders /\ [Next]_vars => TypeOK'
<1> SUFFICES ASSUME TypeOK, Senders, [Next]_vars PROVE TypeOK'
  OBVIOUS
<1> USE DEF TypeOK
<1>1. ASSUME NEW s \in Sessions, StartSession(s) \/ EndSession(s) PROVE TypeOK'
  BY <1>1 DEF StartSession, EndSession, Raise, Event, stationVars, loopVars, cacheVars,
              historyVars
<1>2. CASE EditBlock
  <2>1. edits' \in 0 .. MaxEdits
    <3>1. MaxEdits \in Nat
      BY EngineAssumption
    <3>2. edits \in 0 .. MaxEdits /\ edits < MaxEdits /\ edits' = edits + 1
      BY <1>2 DEF EditBlock
    <3> HIDE DEF TypeOK
    <3> QED
      BY <3>1, <3>2
  <2>2. events' \subseteq Event
    BY <1>2 DEF EditBlock, Raise, Event
  <2> QED
    BY <1>2, <2>1, <2>2 DEF EditBlock, stationVars, loopVars, cacheVars, historyVars
<1>3. ASSUME NEW s \in Sessions, CooldownElapses(s) PROVE TypeOK'
  BY <1>3 DEF CooldownElapses, dbVars, loopVars, historyVars
<1>4. ASSUME NEW e \in events, LoseEvent(e) PROVE TypeOK'
  BY <1>4 DEF LoseEvent, dbVars, stationVars, loopVars, cacheVars, historyVars
<1>5. ASSUME NEW w \in dbWrites, WriteLimit(w) \/ WriteFails(w) PROVE TypeOK'
  BY <1>5 DEF WriteLimit, WriteFails, Limits, dbVars, stationVars, loopVars, historyVars
<1>6. ASSUME NEW e \in events, NEW l \in Loops, ResetBlockLoop(e, l) PROVE TypeOK'
  BY <1>6, OwnPassOnly
  DEF ResetBlockLoop, Cancelling, dbVars, stationVars, cacheVars, historyVars
<1>7. CASE Restart
  BY <1>7 DEF Restart, Outside, NoPlan, Pass, Places, Limits, dbVars, stationVars, historyVars
<1>8. CASE UNCHANGED vars
  BY <1>8 DEF vars, dbVars, stationVars, loopVars, cacheVars, historyVars
<1> QED
  BY <1>1, <1>2, <1>3, <1>4, <1>5, <1>6, <1>7, <1>8, NextCases, LoopStepTypes DEF World

LEMMA InitTypes == Init => TypeOK /\ Senders
<1>1. Outside("gone") \in Pass /\ Outside("gone").at = "gone"
  BY DEF Outside, NoPlan, Pass, Places
<1>2. 0 \in 0 .. MaxEdits
  <2>1. MaxEdits \in Nat
    BY EngineAssumption
  <2> QED
    BY <2>1
<1> QED
  BY <1>1, <1>2 DEF Init, TypeOK, Senders, Limits

(* Every variable keeps to the values its declaration gives it.              *)
THEOREM TypeCorrect == Spec => []TypeOK
  BY InitTypes, TypeStep, SendersStep, PTL DEF Spec

LEMMA SendersAlways == Spec => [](TypeOK /\ Senders)
  BY InitTypes, TypeStep, SendersStep, PTL DEF Spec

-----------------------------------------------------------------------------
(* The registry.                                                             *)

Gone == {l \in Loops : At(l, "gone")}
Registry == OneLiveLoop /\ cancelled \intersect Gone = {}

(* Only its creation and its end change whether a loop is gone. *)
LEMMA GoneMoves ==
  ASSUME TypeOK
  PROVE  /\ \A l \in Loops : LoopStep(l) /\ ~EndLoop(l) => Gone' = Gone
         /\ \A l \in Loops : EndLoop(l) => l \notin Gone /\ Gone' = Gone \union {l}
         /\ \A l \in Loops, e \in events :
              ResetBlockLoop(e, l) => l \in Gone /\ Gone' = Gone \ {l}
<1>1. ASSUME NEW l \in Loops, LoopStep(l), ~EndLoop(l) PROVE Gone' = Gone
  <2>1. pass[l].at # "gone"
    BY <1>1 DEF LoopStep, PassStep, Fetch, FetchFails, StopLoop, Tick, Send, SendDropped, SendFails,
                AnswerLost, Record, FinishPass, Skip, Choose, At
  <2>2. pass'[l].at # "gone"
    <3>a. pass \in [Loops -> Pass] /\ pass[l] \in Pass
      BY DEF TypeOK
    <3>1. CASE \/ FetchFails(l) \/ StopLoop(l) \/ Tick(l) \/ Send(l) \/ SendDropped(l)
      <4>1. \E place \in {"idle", "fetch", "record"} : Move(l, place)
        BY <3>1 DEF FetchFails, StopLoop, Tick, Send, SendDropped
      <4> QED
        BY <4>1, <3>a DEF Move, Pass
    <3>2. ASSUME NEW s \in Sessions, Skip(l, s) PROVE pass'[l].at # "gone"
      BY <3>2, <2>1, <3>a DEF Skip, Pass
    <3>5. ASSUME NEW s \in Sessions, Choose(l, s) PROVE pass'[l].at # "gone"
      BY <3>5, <3>a DEF Choose, Pass
    <3>3. CASE Fetch(l) \/ FinishPass(l)
      BY <3>3, <3>a DEF Fetch, FinishPass, Outside
    <3>4. CASE SendFails(l) \/ AnswerLost(l) \/ Record(l)
      <4>1. pass' = [pass EXCEPT ![l].at = "send", ![l].current = Unset]
        BY <3>4 DEF SendFails, AnswerLost, Record
      <4> QED
        BY <4>1, <3>a DEF Pass
    <3> QED
      BY <1>1, <3>1, <3>2, <3>3, <3>4, <3>5 DEF LoopStep, PassStep
  <2> QED
    BY <1>1, <2>1, <2>2, OwnPassOnly DEF Gone, At
<1>2. ASSUME NEW l \in Loops, EndLoop(l) PROVE l \notin Gone /\ Gone' = Gone \union {l}
  <2>1. pass[l].at = "idle" /\ pass'[l].at = "gone"
    BY <1>2 DEF EndLoop, Move, At, TypeOK, Pass
  <2> QED
    BY <1>2, <2>1, OwnPassOnly DEF Gone, At, LoopStep
<1>3. ASSUME NEW l \in Loops, NEW e \in events, ResetBlockLoop(e, l)
      PROVE  l \in Gone /\ Gone' = Gone \ {l}
  <2>1. pass[l].at = "gone" /\ pass'[l].at = "fetch"
    BY <1>3 DEF ResetBlockLoop, Move, At, TypeOK, Pass
  <2> QED
    BY <1>3, <2>1, OwnPassOnly DEF Gone, At
<1> QED
  BY <1>1, <1>2, <1>3

LEMMA RegistryStep == TypeOK /\ Registry /\ [Next]_vars => Registry'
<1> SUFFICES ASSUME TypeOK, Registry, [Next]_vars PROVE Registry'
  OBVIOUS
<1> DEFINE Uncancelled == \A l \in Loops : l \notin Gone /\ l \notin cancelled <=> activeLoop = l
<1>a. Uncancelled /\ cancelled \intersect Gone = {}
  BY DEF Registry, OneLiveLoop, Gone
<1>b. SUFFICES Uncancelled' /\ (cancelled \intersect Gone = {})'
  BY DEF Registry, OneLiveLoop, Gone
<1>1. CASE World \/ UNCHANGED vars
  <2>1. UNCHANGED <<activeLoop, cancelled, pass>>
    BY <1>1, WorldKeepsService DEF vars, loopVars
  <2> QED
    BY <2>1, <1>a DEF Gone, At
<1>2. CASE Restart
  BY <1>2, NoLoopIsNone DEF Restart, Gone, At, Outside
<1>3. ASSUME NEW e \in events, NEW l \in Loops, ResetBlockLoop(e, l)
      PROVE  Uncancelled' /\ (cancelled \intersect Gone = {})'
  <2>1. l \in Gone /\ Gone' = Gone \ {l}
    BY <1>3, GoneMoves
  <2>2. activeLoop' = l /\ cancelled' = cancelled \union ({activeLoop} \ {NoLoop})
    BY <1>3 DEF ResetBlockLoop, Cancelling
  <2>3. l \notin cancelled'
    BY <2>1, <2>2, <1>a
  <2>4. \A k \in Loops : k # l /\ k \notin Gone => k \in cancelled'
    BY <2>2, <1>a, NoLoopIsNone
  <2>5. cancelled' \intersect Gone' = {}
    <3>1. activeLoop \notin Gone
      BY <1>a, NoLoopIsNone DEF Gone
    <3> QED
      BY <2>1, <2>2, <2>3, <3>1, <1>a
  <2> QED
    BY <2>1, <2>2, <2>3, <2>4, <2>5
<1>4. ASSUME NEW l \in Loops, StopLoop(l)
      PROVE  Uncancelled' /\ (cancelled \intersect Gone = {})'
  <2>1. Gone' = Gone
    <3>1. ~EndLoop(l)
      BY <1>4 DEF StopLoop, EndLoop, At
    <3> QED
      BY <1>4, <3>1, GoneMoves DEF LoopStep, PassStep
  <2>2. activeLoop' = NoLoop /\ cancelled' = cancelled \union ({activeLoop} \ {NoLoop})
    BY <1>4 DEF StopLoop, Cancelling
  <2>3. activeLoop \notin Gone
    BY <1>a, NoLoopIsNone DEF Gone
  <2> QED
    BY <2>1, <2>2, <2>3, <1>a, NoLoopIsNone
<1>5. ASSUME NEW l \in Loops, EndLoop(l)
      PROVE  Uncancelled' /\ (cancelled \intersect Gone = {})'
  BY <1>5, <1>a, GoneMoves DEF EndLoop
<1>6. ASSUME NEW l \in Loops, LoopStep(l), ~StopLoop(l), ~EndLoop(l)
      PROVE  Uncancelled' /\ (cancelled \intersect Gone = {})'
  <2>1. UNCHANGED <<activeLoop, cancelled>>
    BY <1>6 DEF LoopStep, PassStep, Fetch, FetchFails, Tick, Send, SendDropped, SendFails,
                AnswerLost, Record, FinishPass, Skip, Choose, loopVars
  <2> QED
    BY <1>6, <2>1, <1>a, GoneMoves
<1> QED
  BY <1>1, <1>2, <1>3, <1>4, <1>5, <1>6, NextCases

LEMMA RegistryAlways == Spec => []Registry
<1>1. Init => Registry
  BY NoLoopIsNone DEF Init, Registry, OneLiveLoop, Gone, At, Outside
<1> QED
  BY <1>1, RegistryStep, TypeCorrect, PTL DEF Spec

(* The loop in activeLoops is the only one that nobody has cancelled.        *)
THEOREM OneLiveLoopAlways == Spec => []OneLiveLoop
  BY RegistryAlways, PTL DEF Registry

(* Loops implement the ownership protocol: each step of the engine takes,    *)
(* releases, ends or wipes an ownership, or leaves it alone.                 *)
THEOREM LoopsImplementOwnership == Spec => LoopsOwnBlockOnce
<1>1. Init => Ownership!Init
  BY DEF Init, Ownership!Init, At, Outside
<1>2. TypeOK /\ Registry /\ [Next]_vars => [Ownership!Next]_(Ownership!vars)
  <2> SUFFICES ASSUME TypeOK, Registry, [Next]_vars
               PROVE  Ownership!Next \/ UNCHANGED Ownership!vars
    OBVIOUS
  <2> DEFINE alive == {l \in Loops : ~At(l, "gone")}
  <2>a. alive = Loops \ Gone /\ alive' = Loops \ Gone'
    BY DEF Gone
  <2>b. activeLoop \notin Gone
    BY NoLoopIsNone DEF Registry, OneLiveLoop, Gone
  <2>1. CASE World \/ UNCHANGED vars
    <3>1. UNCHANGED <<activeLoop, pass>>
      BY <2>1, WorldKeepsService DEF vars, loopVars
    <3> QED
      BY <3>1 DEF Ownership!vars, At
  <2>2. CASE Restart
    BY <2>2 DEF Restart, At, Outside, Ownership!Next, Ownership!Wipe
  <2>3. ASSUME NEW e \in events, NEW l \in Loops, ResetBlockLoop(e, l) PROVE Ownership!Take(l)
    <3>1. l \notin alive /\ alive' = alive \union {l}
      BY <2>3, <2>a, GoneMoves
    <3> QED
      BY <2>3, <3>1 DEF ResetBlockLoop, Ownership!Take
  <2>4. ASSUME NEW l \in Loops, StopLoop(l)
        PROVE  Ownership!Release \/ UNCHANGED Ownership!vars
    <3>1. ~EndLoop(l)
      BY <2>4 DEF StopLoop, EndLoop, At
    <3>2. alive' = alive
      BY <2>4, <3>1, <2>a, GoneMoves DEF LoopStep, PassStep
    <3> QED
      BY <2>4, <3>2 DEF StopLoop, Ownership!Release, Ownership!vars
  <2>5. ASSUME NEW l \in Loops, EndLoop(l) PROVE Ownership!End(l)
    <3>1. l \in alive /\ alive' = alive \ {l}
      BY <2>5, <2>a, GoneMoves
    <3>2. l # activeLoop /\ activeLoop' = activeLoop
      BY <2>5 DEF EndLoop, Registry, OneLiveLoop
    <3> QED
      BY <3>1, <3>2 DEF Ownership!End
  <2>6. ASSUME NEW l \in Loops, LoopStep(l), ~StopLoop(l), ~EndLoop(l)
        PROVE  UNCHANGED Ownership!vars
    <3>1. activeLoop' = activeLoop
      BY <2>6 DEF LoopStep, PassStep, Fetch, FetchFails, Tick, Send, SendDropped, SendFails,
                  AnswerLost, Record, FinishPass, Skip, Choose, loopVars
    <3>2. alive' = alive
      BY <2>6, <2>a, GoneMoves
    <3> QED
      BY <3>1, <3>2 DEF Ownership!vars
  <2> QED
    BY <2>1, <2>2, <2>3, <2>4, <2>5, <2>6, NextCases DEF Ownership!Next
<1> QED
  BY <1>1, <1>2, TypeCorrect, RegistryAlways, PTL DEF Spec, LoopsOwnBlockOnce, Ownership!Spec

-----------------------------------------------------------------------------
(* What the engine remembers.  For a session that is not in doubt, at most   *)
(* one pass sends to it; what that pass is about to record is what the       *)
(* station has; the rest of the time the memory is right already; and an     *)
(* OCPP 1.6 station that settles is protected by the cooldown, or by the     *)
(* pass that is about to start it.                                           *)

Recording(l, s) == At(l, "record") /\ pass[l].current = s
Unsettled(s) == s \in settling /\ lastApplied[s] # Unset

Remembered(s) ==
  /\ \A k, l \in Loops : SendingTo(k, s) /\ SendingTo(l, s) => k = l
  /\ \A l \in Loops : Recording(l, s) => station[s] = pass[l].plan[s]
  /\ lastApplied[s] \in {station[s], Unset} \/ \E l \in Loops : Recording(l, s)
  /\ s \in Ocpp16 /\ Unsettled(s) => s \in cooling \/ \E l \in Loops : Recording(l, s)
  /\ s \in Ocpp16 /\ Unsettled(s) =>
       \A l \in Loops : ~(At(l, "sending") /\ pass[l].current = s)

Memory == \A s \in Sessions \ doubtful : Remembered(s)

(* The steps of a loop that send nothing and record nothing. *)
Silent(l) == \/ Fetch(l) \/ FetchFails(l) \/ StopLoop(l) \/ FinishPass(l) \/ Tick(l) \/ EndLoop(l)
             \/ \E s \in Sessions : Skip(l, s)

LEMMA SilentKeeps ==
  ASSUME TypeOK, NEW l \in Loops, Silent(l)
  PROVE  /\ pass[l].at \notin {"sending", "record"}
         /\ pass'[l].at \notin {"sending", "record"}
         /\ UNCHANGED <<lastApplied, cooling, stationVars, doubtful>>
<1>1. pass[l].at \notin {"sending", "record"}
  BY DEF Silent, Fetch, FetchFails, StopLoop, FinishPass, Tick, EndLoop, Skip, At
<1>2. UNCHANGED <<lastApplied, cooling, stationVars, doubtful>>
  BY DEF Silent, Fetch, FetchFails, StopLoop, FinishPass, Tick, EndLoop, Skip, cacheVars, historyVars
<1>3. ~Send(l) /\ ~SendDropped(l)
  BY <1>1 DEF Send, SendDropped, At
<1>4. ~\E s \in Sessions : Choose(l, s) /\ pass'[l].at = "sending"
  <2> SUFFICES ASSUME NEW s \in Sessions, Choose(l, s), pass'[l].at = "sending" PROVE FALSE
    OBVIOUS
  <2>a. pass \in [Loops -> Pass] /\ pass[l] \in Pass
    BY DEF TypeOK
  <2>1. CASE FetchFails(l) \/ StopLoop(l) \/ Tick(l) \/ EndLoop(l)
    BY <2>1, <2>a DEF FetchFails, StopLoop, Tick, EndLoop, Move, Pass
  <2>2. CASE Fetch(l) \/ FinishPass(l)
    BY <2>2, <2>a DEF Fetch, FinishPass, Outside
  <2>3. ASSUME NEW r \in Sessions, Skip(l, r) PROVE FALSE
    BY <2>3, <2>a DEF Skip, At, Pass
  <2> QED
    BY <2>1, <2>2, <2>3 DEF Silent
<1>5. LoopStep(l)
  BY DEF Silent, LoopStep, PassStep
<1> QED
  BY <1>1, <1>2, <1>3, <1>4, <1>5, SendingMoves

LEMMA LoopStepCases ==
  ASSUME NEW l \in Loops, LoopStep(l)
  PROVE  \/ Silent(l) \/ Send(l) \/ SendDropped(l) \/ SendFails(l) \/ AnswerLost(l) \/ Record(l)
         \/ \E s \in Sessions : Choose(l, s)
  BY DEF Silent, LoopStep, PassStep

(* A send that ended leaves the loop between two sessions. *)
LEMMA SendEnds ==
  ASSUME TypeOK, NEW l \in Loops, SendFails(l) \/ AnswerLost(l) \/ Record(l)
  PROVE  pass'[l].at = "send" /\ \A k \in Loops \ {l} : pass'[k] = pass[k]
<1>1. pass' = [pass EXCEPT ![l].at = "send", ![l].current = Unset]
  BY DEF SendFails, AnswerLost, Record
<1> QED
  BY <1>1 DEF TypeOK, Pass

LEMMA MemoryStep == TypeOK /\ Senders /\ Memory /\ [Next]_vars => Memory'
<1> SUFFICES ASSUME TypeOK, Senders, Memory, [Next]_vars,
                    NEW s \in Sessions, s \notin doubtful'
             PROVE  Remembered(s)'
  BY DEF Memory
<1>1. CASE UNCHANGED vars
  <2>1. UNCHANGED <<pass, station, settling, lastApplied, cooling, doubtful>>
    BY <1>1 DEF vars, stationVars, cacheVars, historyVars
  <2> QED
    BY <2>1 DEF Memory, Remembered, Recording, Unsettled, SendingTo, At
<1>2. CASE World
  <2>1. UNCHANGED <<pass, station, lastApplied, doubtful>>
    BY <1>2, WorldKeepsService
  <2>2. s \in settling' => s \in settling /\ (s \in cooling => s \in cooling')
    BY <1>2 DEF World, StartSession, EndSession, CooldownElapses, EditBlock, LoseEvent,
                WriteLimit, WriteFails, stationVars, cacheVars
  <2> QED
    BY <2>1, <2>2 DEF Memory, Remembered, Recording, Unsettled, SendingTo, At
<1>3. CASE Restart
  <2>1. \A l \in Loops : pass'[l].at = "gone"
    BY <1>3 DEF Restart, Outside
  <2>2. lastApplied'[s] = Unset
    BY <1>3 DEF Restart
  <2> QED
    BY <2>1, <2>2 DEF Remembered, Recording, Unsettled, SendingTo, At
<1>4. ASSUME NEW e \in events, NEW l \in Loops, ResetBlockLoop(e, l) PROVE Remembered(s)'
  <2>1. pass[l].at = "gone" /\ pass'[l].at = "fetch"
    BY <1>4 DEF ResetBlockLoop, Move, At, TypeOK, Pass
  <2>2. UNCHANGED <<station, settling, lastApplied, cooling, doubtful>>
    BY <1>4 DEF ResetBlockLoop, stationVars, cacheVars, historyVars
  <2> QED
    BY <1>4, <2>1, <2>2, OwnPassOnly DEF Memory, Remembered, Recording, Unsettled, SendingTo, At
<1>5. ASSUME NEW l \in Loops, Silent(l) PROVE Remembered(s)'
  <2>1. LoopStep(l)
    BY <1>5 DEF Silent, LoopStep, PassStep
  <2> QED
    BY <1>5, <2>1, SilentKeeps, OwnPassOnly
    DEF Memory, Remembered, Recording, Unsettled, SendingTo, At, stationVars
<1>6. ASSUME NEW l \in Loops, NEW r \in Sessions, Choose(l, r) PROVE Remembered(s)'
  <2>1. pass[l].at = "send" /\ pass'[l].at = "sending" /\ pass'[l].current = r
    BY <1>6 DEF Choose, At, TypeOK, Pass
  <2>2. UNCHANGED <<station, settling, lastApplied, cooling>> /\ s \notin doubtful
    BY <1>6 DEF Choose, stationVars, cacheVars
  <2>3. \A k \in Loops \ {l} : pass'[k] = pass[k]
    BY <1>6, OwnPassOnly DEF LoopStep, PassStep
  <2>4. CASE s # r
    BY <2>1, <2>2, <2>3, <2>4 DEF Memory, Remembered, Recording, Unsettled, SendingTo, At
  <2>5. CASE s = r
    <3>1. \A k \in Loops \ {l} : ~SendingTo(k, s)
      BY <1>6, <2>5 DEF Choose
    <3>2. lastApplied[s] \in {station[s], Unset}
      BY <2>1, <2>2, <3>1 DEF Memory, Remembered, Recording, SendingTo, At
    <3>3. s \in Ocpp16 => ~Unsettled(s)
      <4>1. s \in Ocpp16 /\ Unsettled(s) => s \in cooling
        BY <2>1, <2>2, <3>1 DEF Memory, Remembered, Recording, SendingTo, At
      <4>2. s \in Ocpp16 /\ lastApplied[s] # Unset => s \notin cooling
        BY <1>6, <2>5 DEF Choose, Skips, Spared
      <4> QED
        BY <4>1, <4>2 DEF Unsettled
    <3> QED
      BY <2>1, <2>2, <2>3, <3>1, <3>2, <3>3 DEF Remembered, Recording, Unsettled, SendingTo, At
  <2> QED
    BY <2>4, <2>5
<1>7. ASSUME NEW l \in Loops, Send(l) \/ SendDropped(l) PROVE Remembered(s)'
  <2>1. /\ pass[l].at = "sending" /\ pass'[l].at = "record"
        /\ pass'[l].current = pass[l].current /\ pass'[l].plan = pass[l].plan
    <3>1. pass \in [Loops -> Pass] /\ pass[l] \in Pass
      BY DEF TypeOK
    <3>2. pass[l].at = "sending" /\ pass' = [pass EXCEPT ![l].at = "record"]
      BY <1>7 DEF Send, SendDropped, Move, At
    <3> QED
      BY <3>1, <3>2 DEF Pass
  <2>2. \A k \in Loops \ {l} : pass'[k] = pass[k]
    BY <1>7, OwnPassOnly DEF LoopStep, PassStep
  <2>3. UNCHANGED <<lastApplied, cooling>> /\ s \notin doubtful
    BY <1>7 DEF Send, SendDropped, cacheVars, historyVars
  <2>4. CASE s # pass[l].current
    <3>1. station'[s] = station[s] /\ (s \in settling' <=> s \in settling)
      BY <1>7, <2>4 DEF Send, SendDropped, Give, stationVars, TypeOK
    <3> QED
      BY <2>1, <2>2, <2>3, <2>4, <3>1 DEF Memory, Remembered, Recording, Unsettled, SendingTo, At
  <2>5. CASE s = pass[l].current
    <3>1. \A k \in Loops \ {l} : ~SendingTo(k, s)
      BY <2>1, <2>3, <2>5 DEF Memory, Remembered, SendingTo
    <3>2. Send(l)
      BY <1>7, <2>5 DEF SendDropped
    <3>3. station'[s] = pass[l].plan[s]
      BY <3>2, <2>5 DEF Send, Give, TypeOK
    <3>4. Recording(l, s)' /\ (\A k \in Loops \ {l} : ~SendingTo(k, s)')
      BY <2>1, <2>2, <2>5, <3>1 DEF Recording, SendingTo, At
    <3> QED
      BY <2>1, <2>2, <3>3, <3>4 DEF Remembered, Recording, SendingTo, At
  <2> QED
    BY <2>4, <2>5
<1>8. ASSUME NEW l \in Loops, SendFails(l) \/ AnswerLost(l) PROVE Remembered(s)'
  <2>1. pass[l].at = "sending" /\ pass'[l].at = "send" /\ \A k \in Loops \ {l} : pass'[k] = pass[k]
    BY <1>8, SendEnds DEF SendFails, AnswerLost, At
  <2>2. UNCHANGED <<lastApplied, cooling>> /\ s \notin doubtful
    BY <1>8 DEF SendFails, AnswerLost, cacheVars, historyVars
  <2>3. station'[s] = station[s] /\ (s \in settling' <=> s \in settling)
    BY <1>8 DEF SendFails, AnswerLost, Give, stationVars, TypeOK
  <2> QED
    BY <2>1, <2>2, <2>3 DEF Memory, Remembered, Recording, Unsettled, SendingTo, At
<1>9. ASSUME NEW l \in Loops, Record(l) PROVE Remembered(s)'
  <2>1. pass[l].at = "record" /\ pass'[l].at = "send" /\ \A k \in Loops \ {l} : pass'[k] = pass[k]
    BY <1>9, SendEnds DEF Record, At
  <2>2. UNCHANGED <<station, settling>> /\ s \notin doubtful
    BY <1>9 DEF Record, stationVars
  <2>3. CASE s # pass[l].current
    <3>1. lastApplied'[s] = lastApplied[s] /\ (s \in cooling' <=> s \in cooling)
      BY <1>9, <2>3 DEF Record, Remember, TypeOK
    <3> QED
      BY <2>1, <2>2, <2>3, <3>1 DEF Memory, Remembered, Recording, Unsettled, SendingTo, At
  <2>4. CASE s = pass[l].current
    <3>1. lastApplied'[s] = station[s]
      BY <1>9, <2>1, <2>2, <2>4 DEF Record, Remember, TypeOK, Memory, Remembered, Recording, At
    <3>2. s \in Ocpp16 => s \in cooling'
      BY <1>9, <2>4 DEF Record, Remember
    <3>3. \A k \in Loops : ~SendingTo(k, s)'
      BY <2>1, <2>2, <2>4 DEF Memory, Remembered, SendingTo
    <3> QED
      BY <2>2, <3>1, <3>2, <3>3 DEF Remembered, Recording, SendingTo, At
  <2> QED
    BY <2>3, <2>4
<1> QED
  BY <1>1, <1>2, <1>3, <1>4, <1>5, <1>6, <1>7, <1>8, <1>9, NextCases, LoopStepCases

LEMMA MemoryAlways == Spec => []Memory
<1>1. Init => Memory
  BY DEF Init, Memory, Remembered, Recording, Unsettled, SendingTo, At, Outside
<1> QED
  BY <1>1, MemoryStep, SendersAlways, PTL DEF Spec

(* A limit the engine remembers is the one CitrineOS has for the station,    *)
(* except between a send and its record and for sessions in doubt.           *)
THEOREM StationFollowsEngineAlways == Spec => []StationFollowsEngine
<1>1. Memory => StationFollowsEngine
  BY DEF Memory, Remembered, Recording, StationFollowsEngine
<1> QED
  BY <1>1, MemoryAlways, PTL

(* An OCPP 1.6 station is given no new limit above 0 A while it settles,     *)
(* unless it is in doubt or forgotten: whoever could send one is held by the *)
(* cooldown.                                                                *)
THEOREM Ocpp16SettlesAlways == Spec => Ocpp16Settles
<1> DEFINE Settles == \A s \in Ocpp16 \ doubtful :
                        s \in settling /\ lastApplied[s] # Unset =>
                          station'[s] \in {station[s], 0}
<1>1. TypeOK /\ Senders /\ Memory /\ [Next]_vars => [Settles]_vars
  <2> SUFFICES ASSUME TypeOK, Senders, Memory, [Next]_vars,
                      NEW s \in Ocpp16, s \notin doubtful, Unsettled(s), station'[s] # station[s]
               PROVE  FALSE
    BY DEF Unsettled
  <2>1. s \in Sessions
    BY EngineAssumption
  <2>2. PICK l \in Loops : Send(l) \/ AnswerLost(l)
    <3>1. World \/ UNCHANGED vars => station' = station
      BY WorldKeepsService DEF vars, stationVars
    <3>2. Restart \/ (\E e \in events, l \in Loops : ResetBlockLoop(e, l)) => station' = station
      BY DEF Restart, ResetBlockLoop, stationVars
    <3>3. ASSUME NEW l \in Loops, LoopStep(l), ~Send(l), ~AnswerLost(l) PROVE station' = station
      BY <3>3 DEF LoopStep, PassStep, Fetch, FetchFails, StopLoop, Tick, EndLoop, SendDropped,
                  SendFails, Record, FinishPass, Skip, Choose, stationVars
    <3> QED
      BY <3>1, <3>2, <3>3, NextCases
  <2>3. At(l, "sending") /\ pass[l].current = s
    <3>1. At(l, "sending")
      BY <2>2 DEF Send, AnswerLost
    <3>2. station' = [station EXCEPT ![pass[l].current] = pass[l].plan[pass[l].current]]
      BY <2>2 DEF Send, AnswerLost, Give
    <3> QED
      BY <2>1, <3>1, <3>2 DEF TypeOK
  <2> QED
    BY <2>1, <2>3 DEF Memory, Remembered
<1> QED
  BY <1>1, MemoryAlways, SendersAlways, PTL DEF Spec, Ocpp16Settles

-----------------------------------------------------------------------------
(* The database.  While the updates of a session never crossed, the one      *)
(* under way carries the limit the engine remembers.                         *)

Updated(s) ==
  /\ \A w \in dbWrites : w.session = s => w.limit = lastApplied[s]
  /\ lastApplied[s] \in {dbLimit[s], Unset} \/ \E w \in dbWrites : w.session = s

Updates == \A s \in Tracked \ crossed : Updated(s)

LEMMA UpdatesStep == TypeOK /\ Senders /\ Updates /\ [Next]_vars => Updates'
<1> SUFFICES ASSUME TypeOK, Senders, Updates, [Next]_vars,
                    NEW s \in Tracked, s \notin crossed'
             PROVE  Updated(s)'
  BY DEF Updates
<1>a. s \in Sessions
  BY EngineAssumption
<1>1. ASSUME UNCHANGED <<lastApplied, dbLimit, dbWrites, crossed>> PROVE Updated(s)'
  <2>1. Updated(s)
    BY <1>1 DEF Updates
  <2> QED
    BY <1>1, <2>1 DEF Updated
<1>2. ASSUME NEW w \in dbWrites, WriteLimit(w) PROVE Updated(s)'
  <2>1. CASE w.session = s
    BY <1>a, <1>2, <2>1 DEF WriteLimit, historyVars, Updates, Updated, TypeOK
  <2>2. CASE w.session # s
    BY <1>a, <1>2, <2>2 DEF WriteLimit, historyVars, Updates, Updated, TypeOK
  <2> QED
    BY <2>1, <2>2
<1>3. ASSUME NEW w \in dbWrites, WriteFails(w) PROVE Updated(s)'
  <2>1. w.session # s /\ s \notin crossed
    BY <1>3 DEF WriteFails
  <2> QED
    BY <1>3, <2>1 DEF WriteFails, Updates, Updated
<1>4. CASE Restart
  BY <1>a, <1>4 DEF Restart, Updated
<1>5. ASSUME NEW l \in Loops, Record(l) PROVE Updated(s)'
  <2>1. CASE pass[l].current # s
    <3>1. lastApplied'[s] = lastApplied[s] /\ dbLimit' = dbLimit /\ s \notin crossed
      BY <1>a, <1>5, <2>1 DEF Record, Remember, StartUpdate, TypeOK
    <3>2. \A w : w.session = s => (w \in dbWrites' <=> w \in dbWrites)
      BY <1>5, <2>1 DEF Record, StartUpdate
    <3> QED
      BY <3>1, <3>2 DEF Updates, Updated
  <2>2. CASE pass[l].current = s
    <3>1. \A w \in dbWrites : w.session # s
      BY <1>5, <2>2 DEF Record, StartUpdate
    <3>2. lastApplied'[s] = pass[l].plan[s]
      BY <1>a, <1>5, <2>2 DEF Record, Remember, TypeOK
    <3>3. \A w \in dbWrites' \ dbWrites : w.session = s /\ w.limit = pass[l].plan[s]
      BY <1>5, <2>2 DEF Record, StartUpdate
    <3>4. [session |-> s, limit |-> pass[l].plan[s]] \in dbWrites'
      BY <1>5, <2>2 DEF Record, StartUpdate
    <3> QED
      BY <3>1, <3>2, <3>3, <3>4 DEF Updated
  <2> QED
    BY <2>1, <2>2
<1>6. ASSUME NEW l \in Loops, LoopStep(l), ~Record(l)
      PROVE  UNCHANGED <<lastApplied, dbLimit, dbWrites, crossed>>
  BY <1>6 DEF LoopStep, PassStep, Fetch, FetchFails, StopLoop, Tick, EndLoop, Send, SendDropped,
              SendFails, AnswerLost, FinishPass, Skip, Choose, cacheVars, historyVars
<1>7. ASSUME NEW e \in events, NEW l \in Loops, ResetBlockLoop(e, l)
      PROVE  UNCHANGED <<lastApplied, dbLimit, dbWrites, crossed>>
  BY <1>7 DEF ResetBlockLoop, cacheVars, historyVars
<1>8. ASSUME World, ~\E w \in dbWrites : WriteLimit(w) \/ WriteFails(w)
      PROVE  UNCHANGED <<lastApplied, dbLimit, dbWrites, crossed>>
  BY <1>8 DEF World, StartSession, EndSession, CooldownElapses, EditBlock, LoseEvent,
              cacheVars, historyVars
<1>9. CASE UNCHANGED vars
  BY <1>1, <1>9 DEF vars, cacheVars, historyVars
<1> QED
  BY <1>1, <1>2, <1>3, <1>4, <1>5, <1>6, <1>7, <1>8, <1>9, NextCases

(* allocated_limit is what the engine applied last once no update is under   *)
(* way, for the sessions whose updates neither crossed nor failed.           *)
THEOREM DatabaseFollowsEngineAlways == Spec => []DatabaseFollowsEngine
<1>1. Init => Updates
  BY EngineAssumption DEF Init, Updates, Updated
<1>2. Updates => DatabaseFollowsEngine
  BY DEF Updates, Updated, DatabaseFollowsEngine
<1> QED
  BY <1>1, <1>2, UpdatesStep, SendersAlways, PTL DEF Spec

-----------------------------------------------------------------------------
(* Where limits come from.  A limit may be sent, remembered and stored long  *)
(* after the block has changed, but it was computed for that session as one  *)
(* of the sessions of the block.                                             *)

Computed(s) ==
  {Allocate[m][S][s] : m \in MaxCurrents, S \in {R \in SUBSET Sessions : s \in R}}

(* The limits of the sessions a pass has still to deal with.                 *)
Planned(l) ==
  /\ pass[l].at \in {"send", "sending", "record"} =>
       \A s \in pass[l].todo : pass[l].plan[s] \in Computed(s)
  /\ pass[l].at \in {"sending", "record"} =>
       pass[l].plan[pass[l].current] \in Computed(pass[l].current)

Plans == \A l \in Loops : Planned(l)

LimitsComputed ==
  /\ \A s \in Sessions : {station[s], lastApplied[s], dbLimit[s]} \subseteq Computed(s) \union {Unset}
  /\ \A w \in dbWrites : w.limit \in Computed(w.session)

(* A pass plans what was computed for the sessions it found.                 *)
LEMMA FetchPlans ==
  ASSUME TypeOK, NEW l \in Loops, Fetch(l)
  PROVE  Planned(l)'
<1>1. /\ pass'[l].todo = Active /\ pass'[l].plan = Allocate[maxA][Active]
      /\ pass'[l].at \in {"empty", "send"}
  BY DEF Fetch, TypeOK
<1>2. maxA \in MaxCurrents /\ Active \in SUBSET Sessions
  BY DEF TypeOK, Active
<1>3. \A s \in Active : Allocate[maxA][Active][s] \in Computed(s)
  BY <1>2 DEF Computed
<1> QED
  BY <1>1, <1>3 DEF Planned

(* No other step of a pass adds a session, or changes a limit.               *)
LEMMA StepPlans ==
  ASSUME TypeOK, NEW l \in Loops, Planned(l), LoopStep(l)
  PROVE  Planned(l)'
<1>a. pass \in [Loops -> Pass] /\ pass[l] \in Pass
  BY DEF TypeOK
<1>1. CASE Fetch(l)
  BY <1>1, FetchPlans
<1>2. CASE FetchFails(l) \/ StopLoop(l) \/ FinishPass(l) \/ Tick(l) \/ EndLoop(l)
  <2>1. \/ \E place \in {"idle", "fetch", "gone"} : Move(l, place)
        \/ pass' = [pass EXCEPT ![l] = Outside("idle")]
    BY <1>2 DEF FetchFails, StopLoop, FinishPass, Tick, EndLoop
  <2>2. \A place : Move(l, place) => pass'[l].at = place
    BY <1>a DEF Move, Pass
  <2>3. pass' = [pass EXCEPT ![l] = Outside("idle")] => pass'[l].at = "idle"
    BY <1>a DEF Outside
  <2> QED
    BY <2>1, <2>2, <2>3 DEF Planned
<1>3. ASSUME NEW s \in Sessions, Skip(l, s) PROVE Planned(l)'
  BY <1>3, <1>a DEF Skip, At, Planned, Pass
<1>4. ASSUME NEW s \in Sessions, Choose(l, s) PROVE Planned(l)'
  BY <1>4, <1>a DEF Choose, At, Planned, Pass
<1>5. CASE Send(l) \/ SendDropped(l)
  BY <1>5, <1>a DEF Send, SendDropped, Move, At, Planned, Pass
<1>6. CASE SendFails(l) \/ AnswerLost(l) \/ Record(l)
  <2>1. pass[l].at \in {"sending", "record"}
    BY <1>6 DEF SendFails, AnswerLost, Record, At
  <2>2. pass' = [pass EXCEPT ![l].at = "send", ![l].current = Unset]
    BY <1>6 DEF SendFails, AnswerLost, Record
  <2>3. pass'[l].at = "send" /\ pass'[l].todo = pass[l].todo /\ pass'[l].plan = pass[l].plan
    BY <2>2, <1>a DEF Pass
  <2> QED
    BY <2>1, <2>3 DEF Planned
<1> QED
  BY <1>1, <1>2, <1>3, <1>4, <1>5, <1>6 DEF LoopStep, PassStep

(* A loop keeps its plan when others move, and has none when it is created.  *)
LEMMA PlansStep == TypeOK /\ Plans /\ [Next]_vars => Plans'
<1> SUFFICES ASSUME TypeOK, Plans, [Next]_vars, NEW k \in Loops PROVE Planned(k)'
  BY DEF Plans
<1>1. ASSUME pass'[k] = pass[k] PROVE Planned(k)'
  BY <1>1 DEF Plans, Planned
<1>2. CASE World
  BY <1>1, <1>2, WorldKeepsService
<1>3. CASE Restart
  BY <1>3 DEF Restart, Outside, Planned
<1>4. ASSUME NEW e \in events, NEW l \in Loops, ResetBlockLoop(e, l) PROVE Planned(k)'
  <2>1. CASE k = l
    BY <1>4, <2>1 DEF ResetBlockLoop, Move, Planned, TypeOK, Pass
  <2>2. CASE k # l
    BY <1>1, <1>4, <2>2, OwnPassOnly
  <2> QED
    BY <2>1, <2>2
<1>5. ASSUME NEW l \in Loops, LoopStep(l) PROVE Planned(k)'
  <2>1. CASE k = l
    BY <1>5, <2>1, StepPlans DEF Plans
  <2>2. CASE k # l
    BY <1>1, <1>5, <2>2, OwnPassOnly
  <2> QED
    BY <2>1, <2>2
<1>6. CASE UNCHANGED vars
  BY <1>1, <1>6 DEF vars
<1> QED
  BY <1>2, <1>3, <1>4, <1>5, <1>6, NextCases

(* Only a send, its record and an update hand a limit on.                    *)
LEMMA LimitsComputedStep ==
  TypeOK /\ Senders /\ Plans /\ LimitsComputed /\ [Next]_vars => LimitsComputed'
<1> SUFFICES ASSUME TypeOK, Senders, Plans, LimitsComputed, [Next]_vars PROVE LimitsComputed'
  OBVIOUS
<1>1. ASSUME UNCHANGED <<station, lastApplied, dbLimit, dbWrites>> PROVE LimitsComputed'
  BY <1>1 DEF LimitsComputed
<1>2. ASSUME NEW w \in dbWrites, WriteLimit(w) PROVE LimitsComputed'
  <2>1. w.session \in Sessions /\ w.limit \in Computed(w.session)
    BY <1>2 DEF LimitsComputed, TypeOK
  <2> QED
    BY <1>2, <2>1 DEF WriteLimit, LimitsComputed, TypeOK, stationVars
<1>3. ASSUME NEW w \in dbWrites, WriteFails(w) PROVE LimitsComputed'
  BY <1>3 DEF WriteFails, LimitsComputed, stationVars
<1>4. CASE Restart
  BY <1>4 DEF Restart, LimitsComputed, stationVars
<1>5. ASSUME NEW l \in Loops, Send(l) \/ AnswerLost(l) \/ Record(l) PROVE LimitsComputed'
  <2>1. /\ pass[l].current \in Sessions
        /\ pass[l].plan[pass[l].current] \in Computed(pass[l].current)
    BY <1>5 DEF Send, AnswerLost, Record, At, Senders, Plans, Planned
  <2>2. CASE Send(l) \/ AnswerLost(l)
    <3>1. UNCHANGED <<lastApplied, dbLimit, dbWrites>>
      BY <2>2 DEF Send, AnswerLost, cacheVars
    <3>2. station' = [station EXCEPT ![pass[l].current] = pass[l].plan[pass[l].current]]
      BY <2>2 DEF Send, AnswerLost, Give
    <3>3. \A s \in Sessions : station'[s] \in Computed(s) \union {Unset}
      BY <2>1, <3>2 DEF LimitsComputed, TypeOK
    <3> QED
      BY <3>1, <3>3 DEF LimitsComputed
  <2>3. CASE Record(l)
    <3>1. \A w \in dbWrites' \ dbWrites :
            w.session = pass[l].current /\ w.limit = pass[l].plan[pass[l].current]
      BY <2>3 DEF Record, StartUpdate
    <3> QED
      BY <2>1, <2>3, <3>1 DEF Record, Remember, LimitsComputed, TypeOK, stationVars
  <2> QED
    BY <1>5, <2>2, <2>3
<1>6. ASSUME NEW l \in Loops, LoopStep(l), ~(Send(l) \/ AnswerLost(l) \/ Record(l))
      PROVE  UNCHANGED <<station, lastApplied, dbLimit, dbWrites>>
  BY <1>6 DEF LoopStep, PassStep, Fetch, FetchFails, StopLoop, Tick, EndLoop, SendDropped,
              SendFails, FinishPass, Skip, Choose, cacheVars, stationVars
<1>7. ASSUME NEW e \in events, NEW l \in Loops, ResetBlockLoop(e, l)
      PROVE  UNCHANGED <<station, lastApplied, dbLimit, dbWrites>>
  BY <1>7 DEF ResetBlockLoop, cacheVars, stationVars
<1>8. ASSUME World, ~\E w \in dbWrites : WriteLimit(w) \/ WriteFails(w)
      PROVE  UNCHANGED <<station, lastApplied, dbLimit, dbWrites>>
  BY <1>8 DEF World, StartSession, EndSession, CooldownElapses, EditBlock, LoseEvent,
              cacheVars, stationVars
<1>9. CASE UNCHANGED vars
  BY <1>1, <1>9 DEF vars, cacheVars, stationVars
<1> QED
  BY <1>1, <1>2, <1>3, <1>4, <1>5, <1>6, <1>7, <1>8, <1>9, NextCases

(* No overlap of passes, failure or restart makes up a limit, or gives one   *)
(* session another's: what a station was given, the engine remembers and the *)
(* database has is one computed for that session in that block, which is     *)
(* 0 A or at least 6 A if the algorithm computes it (engine.go 165-245).     *)
THEOREM LimitsAlwaysComputed == Spec => []LimitsComputed
<1>1. Init => Plans /\ LimitsComputed
  BY DEF Init, Outside, Plans, Planned, LimitsComputed
<1>2. Init /\ [][Next]_vars => []Plans
  BY <1>1, PlansStep, SendersAlways, PTL DEF Spec
<1> QED
  BY <1>1, <1>2, LimitsComputedStep, SendersAlways, PTL DEF Spec
=============================================================================
