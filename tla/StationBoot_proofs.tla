-------------------------- MODULE StationBoot_proofs --------------------------
(***************************************************************************)
(* Theorems about StationBoot, for any number of handlers, any setting of  *)
(* unknownChargerStatus and autoAccept, and any faults and edits.          *)
(***************************************************************************)
EXTENDS StationBoot, TLAPS

(* A handler that runs has a status to answer.                             *)
Answered == \A h \in Handlers : phase[h] # "idle" => answer[h] \in Statuses

(* Keys are sent to a station of OCPP 1.6 only.                            *)
KeysOf16 == \A h \in Handlers : phase[h] \in Configuring16 => protocol = "1.6"

TypeInv == TypeOK /\ Answered /\ KeysOf16

(* The status a boot is answered with is one of the three.                 *)
LEMMA DetermineType ==
  ASSUME TypeOK PROVE Determine \in Statuses
  BY UnknownStatusAssumption DEF TypeOK, Determine, Statuses

(* A handler that ends, or leaves its report, changes only what is its own. *)
LEMMA EndsType ==
  ASSUME TypeInv, NEW h \in Handlers, Ends(h)
  PROVE  /\ due' \subseteq Handlers /\ old' \in Nat
         /\ phase' \in [Handlers -> Phases]
         /\ answer' \in [Handlers -> Statuses \union {None}]
         /\ known' \in [Handlers -> {None, "Pending", "Rejected"}]
         /\ keys' \in [Handlers -> 0..MaxKeys]
         /\ undone' \in [Handlers -> SUBSET Steps("1.6")]
         /\ heard' \in [Handlers -> {"nothing", "another", "own"}]
         /\ shared' \subseteq Handlers
         /\ \A g \in Handlers : phase'[g] # "idle" => answer'[g] \in Statuses
         /\ \A g \in Handlers : phase'[g] \in Configuring16 => protocol = "1.6"
<1> USE DEF TypeInv, TypeOK, Answered
<1>1. due' \subseteq Handlers /\ old' \in Nat /\ shared' \subseteq Handlers
  BY DEF Ends, LeavesReport
<1>2. phase' \in [Handlers -> Phases]
  BY DEF Ends, Becomes, Phases
<1>3. /\ heard' \in [Handlers -> {"nothing", "another", "own"}]
      /\ undone' \in [Handlers -> SUBSET Steps("1.6")]
  BY DEF Ends, LeavesReport
<1>4. keys' \in [Handlers -> 0..MaxKeys]
  BY MaxKeysAssumption DEF Ends
<1>5. /\ answer' \in [Handlers -> Statuses \union {None}]
      /\ known' \in [Handlers -> {None, "Pending", "Rejected"}]
  BY DEF Ends
<1>6. \A g \in Handlers : phase'[g] # "idle" => answer'[g] \in Statuses
  BY DEF Ends, Becomes
<1>7. \A g \in Handlers : phase'[g] \in Configuring16 => protocol = "1.6"
  BY DEF Ends, Becomes, KeysOf16, Configuring16
<1> QED
  BY <1>1, <1>2, <1>3, <1>4, <1>5, <1>6, <1>7

LEMMA TypeInvNext == TypeInv /\ [Next]_vars => TypeInv'
<1> SUFFICES ASSUME TypeInv, [Next]_vars PROVE TypeInv'
  OBVIOUS
<1> USE DEF TypeInv, TypeOK, Answered, KeysOf16, Configuring16, cache, handlers, histories,
            reports, steps, hearing
<1>1. ASSUME NEW h \in Handlers, Boot(h) PROVE TypeInv'
  BY <1>1, DetermineType DEF Boot, Becomes, Phases
<1>2. ASSUME NEW h \in Handlers, ReadCache(h) PROVE TypeInv'
  BY <1>2 DEF ReadCache, Becomes, Phases, Namespaces
<1>3. ASSUME NEW h \in Handlers, Permit(h) PROVE TypeInv'
  BY <1>3 DEF Permit, Becomes, Phases, Namespaces
<1>4. ASSUME NEW h \in Handlers, Respond(h) PROVE TypeInv'
  <2>1. CASE Becomes(h, "sent") /\ registered' = answer[h]
             /\ UNCHANGED <<answer, known, steps, hearing, reports, unsent>>
    BY <1>4, <2>1 DEF Respond, Becomes, Phases
  <2>2. CASE Ends(h) /\ unsent' = TRUE /\ UNCHANGED registered
    BY <1>4, <2>2, EndsType DEF Respond
  <2> QED
    BY <1>4, <2>1, <2>2 DEF Respond
<1>5. ASSUME NEW h \in Handlers, CacheStatus(h) PROVE TypeInv'
  BY <1>5 DEF CacheStatus, Becomes, Phases, Namespaces, Statuses
<1>6. ASSUME NEW h \in Handlers, UpdateBoot(h) PROVE TypeInv'
  <2>1. status' \in Statuses
    BY <1>6 DEF UpdateBoot
  <2>2. CASE Configures(h)
    BY <1>6, <2>1, <2>2 DEF UpdateBoot, Becomes, Phases
  <2>3. CASE ~Configures(h)
    BY <1>6, <2>1, <2>3, EndsType DEF UpdateBoot
  <2> QED
    BY <2>2, <2>3
<1>7. ASSUME NEW h \in Handlers, NoteReport(h) PROVE TypeInv'
  BY <1>7 DEF NoteReport, Becomes, Phases, Namespaces
<1>8. ASSUME NEW h \in Handlers, AskReport(h) PROVE TypeInv'
  BY <1>8 DEF AskReport, Becomes, Phases
<1>9. ASSUME NEW h \in Handlers, AwaitReport(h) PROVE TypeInv'
  <2>1. CASE Ends(h) /\ failed' = TRUE
    BY <1>9, <2>1, EndsType DEF AwaitReport
  <2>2. CASE Becomes(h, "waiting")
             /\ UNCHANGED <<answer, known, steps, hearing, reports, failed>>
    BY <1>9, <2>2 DEF AwaitReport, Becomes, Phases
  <2> QED
    BY <1>9, <2>1, <2>2 DEF AwaitReport
<1>10. ASSUME NEW h \in Handlers, WaitEnds(h) PROVE TypeInv'
  <2>1. CASE Ends(h) /\ failed' = TRUE
    BY <1>10, <2>1, EndsType DEF WaitEnds
  <2>2. CASE Becomes(h, "reported")
             /\ UNCHANGED <<answer, known, steps, hearing, reports, failed>>
    BY <1>10, <2>2 DEF WaitEnds, Becomes, Phases
  <2> QED
    BY <1>10, <2>1, <2>2 DEF WaitEnds
<1>11. ASSUME NEW h \in Handlers, SaveReport(h) PROVE TypeInv'
  BY <1>11 DEF SaveReport, LeavesReport, Becomes, Phases
<1>12. ASSUME NEW h \in Handlers, Accept(h) PROVE TypeInv'
  BY <1>12, EndsType DEF Accept, Statuses
<1>13. ASSUME NEW h \in Handlers, StartChanges(h) PROVE TypeInv'
  <2>1. undone' \in [Handlers -> SUBSET Steps("1.6")]
    BY <1>13 DEF StartChanges, Steps
  <2>2. keys' \in [Handlers -> 0..MaxKeys]
    BY <1>13 DEF StartChanges
  <2> QED
    BY <1>13, <2>1, <2>2 DEF StartChanges, Allow, Becomes, Phases, Namespaces
<1>14. ASSUME NEW h \in Handlers, ChangeKey(h) PROVE TypeInv'
  <2>1. undone' \in [Handlers -> SUBSET Steps("1.6")]
    BY <1>14 DEF ChangeKey, Steps
  <2>2. keys' \in [Handlers -> 0..MaxKeys]
    BY <1>14, MaxKeysAssumption DEF ChangeKey
  <2> QED
    BY <1>14, <2>1, <2>2 DEF ChangeKey, Becomes, Phases
<1>15. ASSUME NEW h \in Handlers, KeyAnswered(h) PROVE TypeInv'
  BY <1>15 DEF KeyAnswered, Becomes, Phases
<1>16. ASSUME NEW h \in Handlers, KeysDone(h) PROVE TypeInv'
  BY <1>16 DEF KeysDone, Allow, Becomes, Phases, Namespaces
<1>17. ASSUME NEW h \in Handlers, GetKeys(h) PROVE TypeInv'
  <2>1. undone' \in [Handlers -> SUBSET Steps("1.6")]
    BY <1>17 DEF GetKeys
  <2> QED
    BY <1>17, <2>1 DEF GetKeys, Becomes, Phases
<1>18. ASSUME NEW h \in Handlers, SaveSteps(h) PROVE TypeInv'
  <2>1. needs' \subseteq Steps(protocol)
    BY <1>18 DEF SaveSteps, Steps, Protocols
  <2> QED
    BY <1>18, <2>1 DEF SaveSteps, Becomes, Phases
<1>19. ASSUME NEW h \in Handlers, TriggerBoot(h) PROVE TypeInv'
  BY <1>19, EndsType DEF TriggerBoot, Allow, Namespaces
<1>20. ASSUME NEW h \in Handlers, Fail16(h) PROVE TypeInv'
  BY <1>20, EndsType DEF Fail16
<1>21. CASE ContinueReport
  BY <1>21 DEF ContinueReport
<1>22. CASE EndReport
  <2>1. due' \subseteq Handlers /\ old' \in Nat
    BY <1>22 DEF EndReport, DoneWith
  <2>2. /\ phase' \in [Handlers -> Phases]
        /\ heard' \in [Handlers -> {"nothing", "another", "own"}]
    BY <1>22 DEF EndReport, Phases
  <2>3. \A h \in Handlers : phase'[h] # "idle" => answer'[h] \in Statuses
    BY <1>22 DEF EndReport
  <2>4. KeysOf16'
    BY <1>22 DEF EndReport
  <2>5. report' = "complete"
        /\ UNCHANGED <<protocol, registered, status, needs, bootStatus, blacklist, answer,
                       known, steps, shared, histories, edits>>
    BY <1>22 DEF EndReport
  <2> QED
    BY <2>1, <2>2, <2>3, <2>4, <2>5
<1>23. CASE LoseReport
  <2>1. due' \subseteq Handlers /\ old' \in Nat
    BY <1>23 DEF LoseReport, DoneWith
  <2> QED
    BY <1>23, <2>1 DEF LoseReport
<1>24. CASE ExpireReport
  BY <1>24 DEF ExpireReport
<1>25. ASSUME NEW s \in Statuses, Edit(s, Steps(protocol)) PROVE TypeInv'
  BY <1>25 DEF Edit
<1>26. CASE UNCHANGED vars
  BY <1>26 DEF vars
<1> QED
  BY <1>1, <1>2, <1>3, <1>4, <1>5, <1>6, <1>7, <1>8, <1>9, <1>10, <1>11, <1>12, <1>13,
     <1>14, <1>15, <1>16, <1>17, <1>18, <1>19, <1>20, <1>21, <1>22, <1>23, <1>24, <1>25,
     <1>26
  DEF Next, Handle, Configure, Configure16

LEMMA TypeInvInit == Init => TypeInv
<1> SUFFICES ASSUME Init PROVE TypeInv
  OBVIOUS
<1>1. Answered /\ KeysOf16
  BY DEF Init, Answered, KeysOf16, Configuring16
<1>2. /\ phase \in [Handlers -> Phases]
      /\ due \subseteq Handlers /\ old \in Nat /\ shared \subseteq Handlers
      /\ keys \in [Handlers -> 0..MaxKeys]
  BY MaxKeysAssumption DEF Init, Phases
<1>3. /\ bootStatus \in [Namespaces -> {None, "Pending", "Rejected"}]
      /\ blacklist \in [Namespaces -> SUBSET Requests(protocol)]
  BY DEF Init
<1>4. /\ heard \in [Handlers -> {"nothing", "another", "own"}]
      /\ undone \in [Handlers -> SUBSET Steps("1.6")]
  BY DEF Init
<1>5. unsent \in BOOLEAN /\ failed \in BOOLEAN /\ rejected \in BOOLEAN
  BY DEF Init
<1> QED
  BY <1>1, <1>2, <1>3, <1>4, <1>5 DEF Init, TypeInv, TypeOK

(* The variables have the values their declarations say, and none but a    *)
(* Pending or a Rejected status is ever cached.                            *)
THEOREM TypeCorrect == Spec => []TypeOK
  BY TypeInvInit, TypeInvNext, PTL DEF Spec, TypeInv

(* A report other than that of h is still to be ended.                     *)
Other(h) == due \ {h} # {} \/ old > 0

(* The report a handler waits for: complete only by one ended since it     *)
(* noted its own, and another one's end is heard only by who shares.       *)
ReportInv ==
  \A h \in Handlers :
     /\ phase[h] = "reported" \/ (phase[h] \in Awaiting /\ report = "complete")
           => heard[h] # "nothing"
     /\ heard[h] = "another" => h \in shared
     /\ phase[h] \in Awaiting /\ Other(h) => h \in shared
     /\ phase[h] \notin Awaiting \union {"reported"} => heard[h] = "nothing" /\ h \notin due

(* A handler that ends leaves its report to be ended as another's: who     *)
(* waits beside it shares already.                                         *)
LEMMA EndsReport ==
  ASSUME TypeInv, ReportInv, NEW h \in Handlers, Ends(h), UNCHANGED report
  PROVE  ReportInv'
<1> USE DEF TypeInv, TypeOK, ReportInv, Awaiting
<1> SUFFICES ASSUME NEW g \in Handlers
             PROVE  /\ phase'[g] = "reported" \/ (phase'[g] \in Awaiting /\ report' = "complete")
                          => heard'[g] # "nothing"
                    /\ heard'[g] = "another" => g \in shared'
                    /\ phase'[g] \in Awaiting /\ Other(g)' => g \in shared'
                    /\ phase'[g] \notin Awaiting \union {"reported"}
                          => heard'[g] = "nothing" /\ g \notin due'
  OBVIOUS
<1>1. CASE g = h
  BY <1>1 DEF Ends, LeavesReport, Becomes
<1>2. CASE g # h
  <2>1. /\ phase'[g] = phase[g] /\ heard'[g] = heard[g]
        /\ (g \in shared => g \in shared') /\ (g \in due' => g \in due)
    BY <1>2 DEF Ends, LeavesReport, Becomes
  <2>2. Other(g)' => Other(g)
    BY <1>2 DEF Ends, LeavesReport, Other
  <2> QED
    BY <2>1, <2>2
<1> QED
  BY <1>1, <1>2

(* A request for a report sets the one entry back to ongoing, for whoever  *)
(* waits; the end of a report is one for every handler that waits by then. *)
LEMMA ReportInvNext == TypeInv /\ ReportInv /\ [Next]_vars => ReportInv'
<1> SUFFICES ASSUME TypeInv, ReportInv, [Next]_vars PROVE ReportInv'
  OBVIOUS
<1> USE DEF TypeInv, TypeOK, ReportInv, Awaiting, cache, reports, hearing, handlers
<1>1. ASSUME NEW h \in Handlers, Boot(h) \/ ReadCache(h) \/ Permit(h) \/ CacheStatus(h)
      PROVE  ReportInv'
  BY <1>1 DEF Boot, ReadCache, Permit, CacheStatus, Becomes, Other
<1>2. ASSUME NEW h \in Handlers, Respond(h) PROVE ReportInv'
  <2>1. CASE Ends(h)
    BY <1>2, <2>1, EndsReport DEF Respond
  <2>2. CASE ~Ends(h)
    BY <1>2, <2>2 DEF Respond, Becomes, Other
  <2> QED
    BY <2>1, <2>2
<1>3. ASSUME NEW h \in Handlers, UpdateBoot(h) PROVE ReportInv'
  <2>1. CASE Configures(h)
    BY <1>3, <2>1 DEF UpdateBoot, Becomes, Other
  <2>2. CASE ~Configures(h)
    BY <1>3, <2>2, EndsReport DEF UpdateBoot
  <2> QED
    BY <2>1, <2>2
<1>4. ASSUME NEW h \in Handlers, NoteReport(h) PROVE ReportInv'
  BY <1>4 DEF NoteReport, Becomes, Other
<1>5. ASSUME NEW h \in Handlers, AskReport(h) PROVE ReportInv'
  <2> SUFFICES ASSUME NEW g \in Handlers
               PROVE  /\ phase'[g] = "reported" \/ (phase'[g] \in Awaiting /\ report' = "complete")
                            => heard'[g] # "nothing"
                      /\ heard'[g] = "another" => g \in shared'
                      /\ phase'[g] \in Awaiting /\ Other(g)' => g \in shared'
                      /\ phase'[g] \notin Awaiting \union {"reported"}
                            => heard'[g] = "nothing" /\ g \notin due'
    OBVIOUS
  <2>1. CASE g = h
    BY <1>5, <2>1 DEF AskReport, Becomes, Other
  <2>2. CASE g # h
    BY <1>5, <2>2 DEF AskReport, Becomes, Other
  <2> QED
    BY <2>1, <2>2
<1>6. ASSUME NEW h \in Handlers, AwaitReport(h) PROVE ReportInv'
  <2>1. CASE Ends(h)
    BY <1>6, <2>1, EndsReport DEF AwaitReport
  <2>2. CASE ~Ends(h)
    BY <1>6, <2>2 DEF AwaitReport, Becomes, Other
  <2> QED
    BY <2>1, <2>2
<1>7. ASSUME NEW h \in Handlers, WaitEnds(h) PROVE ReportInv'
  <2>1. CASE Ends(h)
    BY <1>7, <2>1, EndsReport DEF WaitEnds
  <2>2. CASE ~Ends(h)
    BY <1>7, <2>2 DEF WaitEnds, Becomes, Other
  <2> QED
    BY <2>1, <2>2
<1>8. ASSUME NEW h \in Handlers, SaveReport(h) PROVE ReportInv'
  <2> SUFFICES ASSUME NEW g \in Handlers
               PROVE  /\ phase'[g] = "reported" \/ (phase'[g] \in Awaiting /\ report' = "complete")
                            => heard'[g] # "nothing"
                      /\ heard'[g] = "another" => g \in shared'
                      /\ phase'[g] \in Awaiting /\ Other(g)' => g \in shared'
                      /\ phase'[g] \notin Awaiting \union {"reported"}
                            => heard'[g] = "nothing" /\ g \notin due'
    OBVIOUS
  <2>1. CASE g = h
    BY <1>8, <2>1 DEF SaveReport, LeavesReport, Becomes
  <2>2. CASE g # h
    <3>1. Other(g)' => Other(g)
      BY <1>8, <2>2 DEF SaveReport, LeavesReport, Other
    <3> QED
      BY <1>8, <2>2, <3>1 DEF SaveReport, LeavesReport, Becomes
  <2> QED
    BY <2>1, <2>2
<1>9. ASSUME NEW h \in Handlers, Accept(h) \/ TriggerBoot(h) \/ Fail16(h) PROVE ReportInv'
  BY <1>9, EndsReport DEF Accept, TriggerBoot, Fail16
<1>10. ASSUME NEW h \in Handlers,
              StartChanges(h) \/ ChangeKey(h) \/ KeyAnswered(h) \/ KeysDone(h) \/ GetKeys(h)
                \/ SaveSteps(h)
       PROVE  ReportInv'
  BY <1>10 DEF StartChanges, ChangeKey, KeyAnswered, KeysDone, GetKeys, SaveSteps, Becomes,
               Other
<1>11. CASE EndReport
  <2> PICK hs \in SUBSET Handlers :
        /\ DoneWith(hs)
        /\ report' = "complete"
        /\ phase' = [h \in Handlers |-> IF phase[h] = "waiting" THEN "reported" ELSE phase[h]]
        /\ heard' = [h \in Handlers |->
                        IF h \in hs THEN "own"
                        ELSE IF phase[h] \in Awaiting /\ heard[h] = "nothing" THEN "another"
                        ELSE heard[h]]
        /\ UNCHANGED shared
    BY <1>11 DEF EndReport
  <2> SUFFICES ASSUME NEW g \in Handlers
               PROVE  /\ phase'[g] = "reported" \/ (phase'[g] \in Awaiting /\ report' = "complete")
                            => heard'[g] # "nothing"
                      /\ heard'[g] = "another" => g \in shared'
                      /\ phase'[g] \in Awaiting /\ Other(g)' => g \in shared'
                      /\ phase'[g] \notin Awaiting \union {"reported"}
                            => heard'[g] = "nothing" /\ g \notin due'
    OBVIOUS
  <2>1. phase'[g] \in Awaiting => phase[g] \in Awaiting
    OBVIOUS
  <2>2. Other(g)' => Other(g)
    BY DEF DoneWith, Other
  <2>3. g \notin hs => Other(g)
    BY DEF DoneWith, Other
  <2>4. g \in hs => g \in due
    BY DEF DoneWith
  <2>5. g \in due' => g \in due
    BY DEF DoneWith
  <2>6. phase'[g] = "reported" \/ (phase'[g] \in Awaiting /\ report' = "complete")
          => heard'[g] # "nothing"
    OBVIOUS
  <2>7. heard'[g] = "another" => g \in shared'
    BY <2>3
  <2>8. phase'[g] \notin Awaiting \union {"reported"} => heard'[g] = "nothing" /\ g \notin due'
    BY <2>4, <2>5
  <2> QED
    BY <2>1, <2>2, <2>6, <2>7, <2>8
<1>12. CASE LoseReport
  <2>1. \A g \in Handlers : (Other(g)' => Other(g)) /\ (g \in due' => g \in due)
    BY <1>12 DEF LoseReport, DoneWith, Other
  <2> QED
    BY <1>12, <2>1 DEF LoseReport
<1>13. CASE ContinueReport \/ ExpireReport \/ UNCHANGED vars
  BY <1>13, NoneAssumption DEF ContinueReport, ExpireReport, vars, Other
<1>14. ASSUME NEW s \in Statuses, Edit(s, Steps(protocol)) PROVE ReportInv'
  BY <1>14 DEF Edit, Other
<1> QED
  BY <1>1, <1>2, <1>3, <1>4, <1>5, <1>6, <1>7, <1>8, <1>9, <1>10, <1>11, <1>12, <1>13, <1>14
  DEF Next, Handle, Configure, Configure16

(* A handler goes on only after a report ended since it noted its own: no  *)
(* entry that an earlier boot left complete is taken, and no other report  *)
(* but one that the station had still to end beside it.                    *)
THEOREM ReportsFresh == Spec => []ReportIsFresh
<1>1. Init => ReportInv
  BY DEF Init, ReportInv, Awaiting
<1>2. TypeInv /\ ReportInv => ReportIsFresh
  BY DEF TypeInv, TypeOK, ReportInv, ReportIsFresh
<1> QED
  BY <1>1, <1>2, TypeInvInit, TypeInvNext, ReportInvNext, PTL DEF Spec

(* Before a station that was rejected is answered, and after.              *)
Answering == {"read", "known", "permitted", "sent", "cached"}

(* While a rejection holds, every handler that runs answers Rejected and   *)
(* ends without a configuration.                                           *)
RejectedInv ==
  rejected => /\ status = "Rejected"
              /\ \A h \in Handlers :
                    phase[h] # "idle" => phase[h] \in Answering /\ answer[h] = "Rejected"

LEMMA RejectedInvNext == TypeInv /\ RejectedInv /\ [Next]_vars => RejectedInv'
<1> SUFFICES ASSUME TypeInv, RejectedInv, [Next]_vars PROVE RejectedInv'
  OBVIOUS
<1> USE DEF TypeInv, TypeOK, RejectedInv, Answering, histories
<1>1. ASSUME NEW h \in Handlers, Boot(h) PROVE RejectedInv'
  BY <1>1, NoneAssumption DEF Boot, Determine, Becomes, Statuses
<1>2. ASSUME NEW h \in Handlers, ReadCache(h) \/ Permit(h) \/ CacheStatus(h)
      PROVE  RejectedInv'
  BY <1>2 DEF ReadCache, Permit, CacheStatus, Becomes
<1>3. ASSUME NEW h \in Handlers, Respond(h) \/ UpdateBoot(h) PROVE RejectedInv'
  BY <1>3 DEF Respond, UpdateBoot, Configures, Becomes, Ends
<1>4. ASSUME NEW h \in Handlers, Configure(h) PROVE RejectedInv'
  <2> USE DEF Configure, NoteReport, AskReport, AwaitReport, WaitEnds, SaveReport, Accept
  <2>1. ~rejected
    BY <1>4
  <2>2. rejected' = rejected
    BY <1>4
  <2> QED
    BY <2>1, <2>2
<1>5. ASSUME NEW h \in Handlers, Configure16(h) PROVE RejectedInv'
  <2> USE DEF Configure16, StartChanges, ChangeKey, KeyAnswered, KeysDone, GetKeys, SaveSteps,
              TriggerBoot, Fail16, Configuring16
  <2>1. ~rejected
    BY <1>5
  <2>2. rejected' = rejected
    BY <1>5
  <2> QED
    BY <2>1, <2>2
<1>6. CASE ContinueReport \/ LoseReport \/ ExpireReport \/ UNCHANGED vars
  BY <1>6 DEF ContinueReport, LoseReport, ExpireReport, vars, handlers
<1>7. CASE EndReport
  BY <1>7 DEF EndReport
<1>8. ASSUME NEW s \in Statuses, Edit(s, Steps(protocol)) PROVE RejectedInv'
  BY <1>8 DEF Edit, handlers
<1> QED
  BY <1>1, <1>2, <1>3, <1>4, <1>5, <1>6, <1>7, <1>8 DEF Next, Handle

(* What an operator rejects between two boots stays rejected.              *)
THEOREM RejectionAlwaysHolds == Spec => []RejectionHolds
<1>1. Init => RejectedInv
  BY DEF Init, RejectedInv
<1>2. RejectedInv => RejectionHolds
  BY DEF RejectedInv, RejectionHolds, Answering
<1> QED
  BY <1>1, <1>2, TypeInvInit, TypeInvNext, RejectedInvNext, PTL DEF Spec

(* A handler that blacklists because it found no status will cache one.    *)
Remembers(h) ==
  phase[h] \in {"permitted", "sent"} /\ known[h] = None /\ answer[h] # "Accepted"

BlacklistInv ==
  protocol = "2.x" /\ ~unsent /\ blacklist["name"] # {}
     => bootStatus["name"] # None \/ \E h \in Handlers : Remembers(h)

LEMMA BlacklistInvNext == TypeInv /\ BlacklistInv /\ [Next]_vars => BlacklistInv'
<1> SUFFICES ASSUME TypeInv, BlacklistInv, [Next]_vars PROVE BlacklistInv'
  OBVIOUS
<1> USE DEF TypeInv, TypeOK, BlacklistInv, Remembers, cache, histories
<1>1. ASSUME NEW h \in Handlers, Boot(h) \/ ReadCache(h) PROVE BlacklistInv'
  BY <1>1 DEF Boot, ReadCache, Becomes
<1>2. ASSUME NEW h \in Handlers, Permit(h) PROVE BlacklistInv'
  <2>1. \A g \in Handlers : Remembers(g) => Remembers(g)'
    BY <1>2 DEF Permit, Becomes
  <2>2. CASE answer[h] # "Accepted" /\ known[h] = None
    <3>1. Remembers(h)'
      BY <1>2, <2>2 DEF Permit, Becomes
    <3> QED
      BY <3>1
  <2>3. CASE answer[h] # "Accepted" /\ known[h] # None
    BY <1>2, <2>1, <2>3 DEF Permit
  <2>4. CASE answer[h] = "Accepted"
    BY <1>2, <2>1, <2>4 DEF Permit, Namespaces
  <2> QED
    BY <2>2, <2>3, <2>4
<1>3. ASSUME NEW h \in Handlers, Respond(h) PROVE BlacklistInv'
  <2>1. \A g \in Handlers : Remembers(g) /\ ~unsent' => Remembers(g)'
    BY <1>3 DEF Respond, Becomes
  <2> QED
    BY <1>3, <2>1 DEF Respond
<1>4. ASSUME NEW h \in Handlers, CacheStatus(h) PROVE BlacklistInv'
  <2>1. CASE Remembers(h)
    <3>1. answer[h] \in Statuses /\ answer[h] # None
      BY <1>4, NoneAssumption DEF CacheStatus, Answered
    <3>2. bootStatus'["name"] # None
      BY <1>4, <2>1, <3>1 DEF CacheStatus, Namespaces
    <3> QED
      BY <3>2
  <2>2. CASE ~Remembers(h)
    <3>1. \A g \in Handlers : Remembers(g) => Remembers(g)'
      BY <1>4, <2>2 DEF CacheStatus, Becomes
    <3>2. answer[h] \in Statuses /\ answer[h] # None
      BY <1>4, NoneAssumption DEF CacheStatus, Answered
    <3>3. bootStatus["name"] # None => bootStatus'["name"] # None
      BY <1>4, <3>2 DEF CacheStatus, Namespaces
    <3> QED
      BY <1>4, <3>1, <3>3 DEF CacheStatus
  <2> QED
    BY <2>1, <2>2
<1>5. ASSUME NEW h \in Handlers, UpdateBoot(h) \/ Configure(h) PROVE BlacklistInv'
  <2> USE DEF Configure, UpdateBoot, NoteReport, AskReport, AwaitReport, WaitEnds, SaveReport,
              Accept
  <2>1. \A g \in Handlers : Remembers(g) => Remembers(g)'
    BY <1>5 DEF Becomes, Ends
  <2>2. UNCHANGED <<protocol, unsent, bootStatus>>
    BY <1>5
  <2>3. blacklist["name"] = {} => blacklist'["name"] = {}
    BY <1>5 DEF Namespaces
  <2> QED
    BY <2>1, <2>2, <2>3
<1>6. ASSUME NEW h \in Handlers, Configure16(h) PROVE BlacklistInv'
  <2> USE DEF Configure16, StartChanges, ChangeKey, KeyAnswered, KeysDone, GetKeys, SaveSteps,
              TriggerBoot, Fail16, Allow
  <2>1. \A g \in Handlers : Remembers(g) => Remembers(g)'
    BY <1>6 DEF Becomes, Ends, Configuring16
  <2>2. UNCHANGED <<protocol, unsent, bootStatus>>
    BY <1>6
  <2>3. blacklist["name"] = {} => blacklist'["name"] = {}
    BY <1>6 DEF Namespaces
  <2> QED
    BY <2>1, <2>2, <2>3
<1>7. CASE EndReport
  <2>1. \A g \in Handlers : Remembers(g) => Remembers(g)'
    BY <1>7 DEF EndReport
  <2> QED
    BY <1>7, <2>1 DEF EndReport
<1>8. CASE ContinueReport \/ LoseReport \/ ExpireReport \/ UNCHANGED vars
  BY <1>8 DEF ContinueReport, LoseReport, ExpireReport, vars, handlers
<1>9. ASSUME NEW s \in Statuses, Edit(s, Steps(protocol)) PROVE BlacklistInv'
  BY <1>9 DEF Edit, handlers
<1> QED
  BY <1>1, <1>2, <1>3, <1>4, <1>5, <1>6, <1>7, <1>8, <1>9 DEF Next, Handle

(* The blacklist is never left without the status that lets it be cleared. *)
THEOREM BlacklistAlwaysRemembered == Spec => []BlacklistRemembered
<1>1. Init => BlacklistInv
  BY DEF Init, BlacklistInv, Namespaces
<1>2. BlacklistInv => BlacklistRemembered
  BY DEF BlacklistInv, BlacklistRemembered, Remembers
<1> QED
  BY <1>1, <1>2, TypeInvInit, TypeInvNext, BlacklistInvNext, PTL DEF Spec

===============================================================================
