----------------------------- MODULE StationBoot -----------------------------
(* The boot of one charging station: Configuration/src/module/module.ts and   *)
(* BootNotificationService.ts, the report of its variables in                 *)
(* Reporting/src/module/module.ts, and the question the OCPP router asks of   *)
(* the cache before it calls the station (router.ts).                         *)
(*                                                                            *)
(* A handler answers a BootNotification with the status of the row of the     *)
(* boot, keeps a status that is not Accepted in the cache, blacklists the     *)
(* requests of a station that is not accepted, and configures a pending one:  *)
(* in OCPP 2.x it asks for a report of its variables, waits for it and        *)
(* accepts the station; in 1.6 it sends the configuration keys one by one and *)
(* asks for all of them. The handlers run side by side, with the next boots   *)
(* of the station, with the reports, which all have the identifier 0, the     *)
(* timers of the cache and the edits of an operator.                          *)
(*                                                                            *)
(* Not modelled: the variables to be set at a boot and the reset after them,  *)
(* because the repository never loads pendingBootSetVariables; an operator    *)
(* who deletes the row; the update of the station and of its device model.    *)
(* Reading the row and creating it is one step; so is changing the blacklist  *)
(* and the status in the cache, which is in memory.                           *)
EXTENDS Naturals, FiniteSets

CONSTANTS
    Handlers,      \* handlers of boots that may run at once
    UnknownStatus, \* unknownChargerStatus: the status of a station without a row
    AutoAccept,    \* autoAccept: a configured station is accepted (2.x)
    MaxKeys,       \* bound: how many configuration keys a station has (1.6)
    MaxEdits,      \* bound: how often an operator edits the row
    None

Statuses == {"Accepted", "Pending", "Rejected"}
Protocols == {"1.6", "2.x"}

\* What the database may say is still to be done before a station is accepted.
Steps(p) == IF p = "2.x" THEN {"report"} ELSE {"get", "change"}

\* Requests on a blacklist: those a configuration takes off it, and all others.
Requests(p) ==
    IF p = "2.x" THEN {"NotifyReport", "other"}
    ELSE {"ChangeConfiguration", "GetConfiguration", "TriggerMessage", "other"}
Calls == {"TriggerMessage", "call"}

\* Namespaces of the cache: the writers take the name of the station, the router its
\* identifier, which has the tenant in front.
Namespaces == {"name", "identifier"}

ASSUME UnknownStatusAssumption == UnknownStatus \in Statuses
ASSUME AutoAcceptAssumption == AutoAccept \in BOOLEAN
ASSUME NoneAssumption == None \notin Statuses \union {"ongoing", "complete"}
ASSUME MaxKeysAssumption == MaxKeys \in Nat
ASSUME MaxEditsAssumption == MaxEdits \in Nat

VARIABLES
    protocol,
    registered,  \* station: the status it was answered last, None while it boots
    due,         \* station: handlers whose report it has still to end
    old,         \* station: how many reports of handlers that are gone it has to end
    status,      \* row: status, None when there is no row
    needs,       \* row: the steps that are still to be done
    bootStatus,  \* cache: the status that is kept
    blacklist,   \* cache: requests that are blacklisted
    report,      \* cache: the entry of the report, which always has identifier 0
    phase,       \* how far each handler is
    answer,      \* the status it answers, then that of the row as it read it again
    known,       \* the status it found in the cache
    keys,        \* how many keys it has still to change (1.6)
    undone,      \* the steps that it has not done (1.6)
    heard,       \* history: the report that was ended since it noted its own
    shared,      \* history: handlers beside whose report another was to be ended
    unsent,      \* history: an answer to a boot could not be sent
    failed,      \* history: a configuration failed
    rejected,    \* history: an operator has rejected the station while no handler ran
    edits

reports == <<due, old>>
cache == <<bootStatus, blacklist, report>>
steps == <<keys, undone>>
hearing == <<heard, shared>>
handlers == <<phase, answer, known, steps, hearing>>
histories == <<unsent, failed, rejected>>
vars == <<protocol, registered, reports, status, needs, cache, handlers, histories, edits>>

\* "noted" to "waiting": the handler waits for a report. 1.6: "changing": keys are left
\* to be changed; "changed": one waits for its answer; "getting", "got": all keys are to
\* be asked for, were; "saved": what was done is in the row.
Phases == {"idle", "read", "known", "permitted", "sent", "cached", "configuring",
           "noted", "asked", "waiting", "reported", "accepting",
           "changing", "changed", "getting", "got", "saved"}
Awaiting == {"noted", "asked", "waiting"}
Configuring16 == {"changing", "changed", "getting", "got"}

Init ==
    /\ protocol \in Protocols
    /\ registered = None
    /\ due = {}
    /\ old = 0
    /\ status = None
    /\ needs = Steps(protocol)
    /\ bootStatus = [n \in Namespaces |-> None]
    /\ blacklist = [n \in Namespaces |-> {}]
    /\ report = None
    /\ phase = [h \in Handlers |-> "idle"]
    /\ answer = [h \in Handlers |-> None]
    /\ known = [h \in Handlers |-> None]
    /\ keys = [h \in Handlers |-> 0]
    /\ undone = [h \in Handlers |-> {}]
    /\ heard = [h \in Handlers |-> "nothing"]
    /\ shared = {}
    /\ unsent = FALSE
    /\ failed = FALSE
    /\ rejected = FALSE
    /\ edits = 0

Becomes(h, p) == phase' = [phase EXCEPT ![h] = p]

\* The handler has done with its report, which may still be under way.
LeavesReport(h) ==
    /\ heard' = [heard EXCEPT ![h] = "nothing"]
    /\ shared' = shared \ {h}
    /\ due' = due \ {h}
    /\ old' = IF h \in due THEN old + 1 ELSE old

\* The handler ends.
Ends(h) ==
    /\ Becomes(h, "idle")
    /\ answer' = [answer EXCEPT ![h] = None]
    /\ known' = [known EXCEPT ![h] = None]
    /\ keys' = [keys EXCEPT ![h] = 0]
    /\ undone' = [undone EXCEPT ![h] = {}]
    /\ LeavesReport(h)

-------------------------------------------------------------------------------
(* The answer to a boot                                                       *)

\* determineBootStatus, determineOcpp16BootStatus: a pending station of which nothing
\* is asked is accepted.
Determine ==
    LET stored == IF status = None THEN UnknownStatus ELSE status IN
    IF stored = "Pending" /\ needs = {} /\ (AutoAccept \/ protocol = "1.6")
    THEN "Accepted" ELSE stored

\* The station boots, or boots again because it was not accepted or has no answer; the
\* handler reads the row of the boot (createBootNotificationResponse).
Boot(h) ==
    /\ phase[h] = "idle"
    /\ registered' = None
    /\ answer' = [answer EXCEPT ![h] = Determine]
    /\ Becomes(h, "read")
    /\ UNCHANGED <<protocol, reports, status, needs, cache, known, steps, hearing,
                   histories, edits>>

\* The handler reads the status in the cache.
ReadCache(h) ==
    /\ phase[h] = "read"
    /\ known' = [known EXCEPT ![h] = bootStatus["name"]]
    /\ Becomes(h, "known")
    /\ UNCHANGED <<protocol, registered, reports, status, needs, cache, answer, steps,
                   hearing, histories, edits>>

\* Mutant: the status is removed first, and the blacklist only if it was Pending.
MutantForgetsStatus(h) ==
    /\ phase[h] = "known"
    /\ IF answer[h] = "Accepted"
       THEN /\ bootStatus' = [bootStatus EXCEPT !["name"] = None]
            /\ blacklist' = IF protocol = "2.x" /\ known[h] = "Pending"
                            THEN [blacklist EXCEPT !["name"] = {}] ELSE blacklist
       ELSE /\ blacklist' = IF known[h] = None
                            THEN [blacklist EXCEPT !["name"] = Requests(protocol)] ELSE blacklist
            /\ UNCHANGED bootStatus
    /\ Becomes(h, "permitted")
    /\ UNCHANGED <<protocol, registered, reports, status, needs, report, answer, known,
                   steps, hearing, histories, edits>>

\* cacheChargerActionsPermissions, cacheOcpp16ChargerActionsPermissions: that of 1.6
\* takes the first letter of each action off the blacklist, so it takes none off.
Permit(h) ==
    /\ phase[h] = "known"
    /\ IF answer[h] = "Accepted"
       THEN IF known[h] = None
            THEN UNCHANGED <<bootStatus, blacklist>>
            ELSE /\ bootStatus' = [bootStatus EXCEPT !["name"] = None]
                 /\ blacklist' = IF protocol = "2.x"
                                 THEN [blacklist EXCEPT !["name"] = {}] ELSE blacklist
       ELSE /\ blacklist' = IF known[h] = None
                            THEN [blacklist EXCEPT !["name"] = Requests(protocol)] ELSE blacklist
            /\ UNCHANGED bootStatus
    /\ Becomes(h, "permitted")
    /\ UNCHANGED <<protocol, registered, reports, status, needs, report, answer, known,
                   steps, hearing, histories, edits>>

\* The answer is sent, or the handler throws.
Respond(h) ==
    /\ phase[h] = "permitted"
    /\ \/ /\ registered' = answer[h]
          /\ Becomes(h, "sent")
          /\ UNCHANGED <<answer, known, steps, hearing, reports, unsent>>
       \/ /\ Ends(h)
          /\ unsent' = TRUE
          /\ UNCHANGED registered
    /\ UNCHANGED <<protocol, status, needs, cache, failed, rejected, edits>>

\* Mutant: every status is kept in the cache.
MutantKeepsAll(h) ==
    /\ phase[h] = "sent"
    /\ bootStatus' = IF answer[h] # known[h]
                     THEN [bootStatus EXCEPT !["name"] = answer[h]] ELSE bootStatus
    /\ Becomes(h, "cached")
    /\ UNCHANGED <<protocol, registered, reports, status, needs, blacklist, report, answer,
                   known, steps, hearing, histories, edits>>

\* A status that is not Accepted is kept in the cache when it is another than the one
\* that was found there.
CacheStatus(h) ==
    /\ phase[h] = "sent"
    /\ bootStatus' = IF answer[h] # "Accepted" /\ answer[h] # known[h]
                     THEN [bootStatus EXCEPT !["name"] = answer[h]] ELSE bootStatus
    /\ Becomes(h, "cached")
    /\ UNCHANGED <<protocol, registered, reports, status, needs, blacklist, report, answer,
                   known, steps, hearing, histories, edits>>

\* Only a pending station that was not pending is configured.
Configures(h) == answer[h] = "Pending" /\ known[h] # "Pending"

\* Mutant: every station that was not accepted is configured.
MutantConfiguresRejected(h) ==
    /\ phase[h] = "cached"
    /\ status' = IF status = None \/ protocol = "1.6" THEN answer[h] ELSE status
    /\ IF answer[h] # "Accepted" /\ known[h] # answer[h]
       THEN /\ Becomes(h, IF needs = {} /\ protocol = "2.x" THEN "accepting" ELSE "configuring")
            /\ answer' = [answer EXCEPT ![h] = status']
            /\ known' = [known EXCEPT ![h] = None]
            /\ UNCHANGED <<steps, hearing, reports>>
       ELSE Ends(h)
    /\ UNCHANGED <<protocol, registered, needs, cache, histories, edits>>

\* updateBootConfig reads the row again, or creates it with the status that was
\* answered; updateOcpp16BootConfig writes that status in any case. When the row says
\* that no report is needed, a 2.x station is accepted without one.
UpdateBoot(h) ==
    /\ phase[h] = "cached"
    /\ status' = IF status = None \/ protocol = "1.6" THEN answer[h] ELSE status
    /\ IF Configures(h)
       THEN /\ Becomes(h, IF needs = {} /\ protocol = "2.x" THEN "accepting" ELSE "configuring")
            /\ answer' = [answer EXCEPT ![h] = status']
            /\ known' = [known EXCEPT ![h] = None]
            /\ UNCHANGED <<steps, hearing, reports>>
       ELSE Ends(h)
    /\ UNCHANGED <<protocol, registered, needs, cache, histories, edits>>

-------------------------------------------------------------------------------
(* The configuration of a pending station of OCPP 2.x                         *)

\* Mutant: the entry of an earlier report is left as it is.
MutantKeepsReport(h) ==
    /\ phase[h] = "configuring"
    /\ protocol = "2.x"
    /\ blacklist' = [blacklist EXCEPT !["name"] = @ \ {"NotifyReport"}]
    /\ shared' = IF due \ {h} # {} \/ old > 0 THEN shared \union {h} ELSE shared
    /\ Becomes(h, "noted")
    /\ UNCHANGED <<protocol, registered, reports, status, needs, bootStatus, report, answer,
                   known, steps, heard, histories, edits>>

\* NotifyReport is let through and the report is noted as ongoing
\* (createGetBaseReportRequest).
NoteReport(h) ==
    /\ phase[h] = "configuring"
    /\ protocol = "2.x"
    /\ blacklist' = [blacklist EXCEPT !["name"] = @ \ {"NotifyReport"}]
    /\ report' = "ongoing"
    /\ shared' = IF due \ {h} # {} \/ old > 0 THEN shared \union {h} ELSE shared
    /\ Becomes(h, "noted")
    /\ UNCHANGED <<protocol, registered, reports, status, needs, bootStatus, answer, known,
                   steps, heard, histories, edits>>

\* GetBaseReport is sent, and the station has a report to end. It may not get the call,
\* or refuse it.
AskReport(h) ==
    /\ phase[h] = "noted"
    /\ \/ /\ due' = due \union {h}
          /\ shared' = shared \union {g \in Handlers \ {h} : phase[g] \in Awaiting}
       \/ UNCHANGED <<due, shared>>
    /\ Becomes(h, "asked")
    /\ UNCHANGED <<protocol, registered, old, status, needs, cache, answer, known, steps,
                   heard, histories, edits>>

\* The call is confirmed and the handler begins to wait, or it throws.
AwaitReport(h) ==
    /\ phase[h] = "asked"
    /\ \/ /\ Becomes(h, "waiting")
          /\ UNCHANGED <<answer, known, steps, hearing, reports, failed>>
       \/ /\ Ends(h)
          /\ failed' = TRUE
    /\ UNCHANGED <<protocol, registered, status, needs, cache, unsent, rejected, edits>>

\* _handleNotifyReport with more to come: the entry is set anew, with a new timer.
ContinueReport ==
    /\ due # {} \/ old > 0
    /\ report' = "ongoing"
    /\ UNCHANGED <<protocol, registered, reports, status, needs, bootStatus, blacklist,
                   handlers, histories, edits>>

\* The station is done with one of the reports it was asked for, by which handlers.
DoneWith(hs) ==
    /\ hs \subseteq due
    /\ due' = due \ hs
    /\ \/ \E h \in hs : hs = {h} /\ UNCHANGED old
       \/ hs = {} /\ old > 0 /\ old' = old - 1

\* _handleNotifyReport of the last part: the entry is complete, without a timer, and
\* who waits for it (onChange) goes on.
EndReport ==
    \E hs \in SUBSET Handlers :
        /\ DoneWith(hs)
        /\ report' = "complete"
        /\ phase' = [h \in Handlers |-> IF phase[h] = "waiting" THEN "reported" ELSE phase[h]]
        /\ heard' = [h \in Handlers |->
                        IF h \in hs THEN "own"
                        ELSE IF phase[h] \in Awaiting /\ heard[h] = "nothing" THEN "another"
                        ELSE heard[h]]
        /\ UNCHANGED <<protocol, registered, status, needs, bootStatus, blacklist, answer,
                       known, steps, shared, histories, edits>>

\* The station or a handler of NotifyReport gives a report up.
LoseReport ==
    /\ \E hs \in SUBSET Handlers : DoneWith(hs)
    /\ failed' = TRUE
    /\ UNCHANGED <<protocol, registered, status, needs, cache, handlers, unsent, rejected,
                   edits>>

\* The timer of an entry that is not complete.
ExpireReport ==
    /\ report = "ongoing"
    /\ report' = None
    /\ UNCHANGED <<protocol, registered, reports, status, needs, bootStatus, blacklist,
                   handlers, histories, edits>>

\* confirmGetBaseReportSuccess: the wait for a change ends by its timer, and the entry
\* is taken as it is; while it is ongoing the wait begins again.
WaitEnds(h) ==
    /\ phase[h] = "waiting"
    /\ \/ /\ report = "complete"
          /\ Becomes(h, "reported")
          /\ UNCHANGED <<answer, known, steps, hearing, reports, failed>>
       \/ /\ report = None
          /\ Ends(h)
          /\ failed' = TRUE
    /\ UNCHANGED <<protocol, registered, status, needs, cache, unsent, rejected, edits>>

\* getBaseReportOnPending = false is saved.
SaveReport(h) ==
    /\ phase[h] = "reported"
    /\ needs' = needs \ {"report"}
    /\ LeavesReport(h)
    /\ Becomes(h, "accepting")
    /\ UNCHANGED <<protocol, registered, status, cache, answer, known, steps, histories,
                   edits>>

\* autoAccept: the status of the row becomes Accepted; save() writes it only when it
\* was another when the handler read the row.
Accept(h) ==
    /\ phase[h] = "accepting"
    /\ status' = IF AutoAccept /\ answer[h] # "Accepted" THEN "Accepted" ELSE status
    /\ Ends(h)
    /\ UNCHANGED <<protocol, registered, needs, cache, histories, edits>>

-------------------------------------------------------------------------------
(* The configuration of a pending station of OCPP 1.6                         *)

\* What is left of the blacklist when a request is let through.
Allow(r) == blacklist' = [blacklist EXCEPT !["name"] = @ \ {r}]

\* The keys of the station are read, and ChangeConfiguration is let through.
StartChanges(h) ==
    /\ phase[h] = "configuring"
    /\ protocol = "1.6"
    /\ \E n \in 0..MaxKeys : keys' = [keys EXCEPT ![h] = n]
    /\ undone' = [undone EXCEPT ![h] = {"get"}]
    /\ Allow("ChangeConfiguration")
    /\ Becomes(h, "changing")
    /\ UNCHANGED <<protocol, registered, reports, status, needs, bootStatus, report, answer,
                   known, hearing, histories, edits>>

\* A key is sent; that one was not is remembered.
ChangeKey(h) ==
    /\ phase[h] = "changing"
    /\ keys[h] > 0
    /\ keys' = [keys EXCEPT ![h] = @ - 1]
    /\ undone' \in {undone, [undone EXCEPT ![h] = @ \union {"change"}]}
    /\ Becomes(h, "changed")
    /\ UNCHANGED <<protocol, registered, reports, status, needs, cache, answer, known,
                   hearing, histories, edits>>

\* The wait for the answer to it ends, by the answer or by its timer.
KeyAnswered(h) ==
    /\ phase[h] = "changed"
    /\ Becomes(h, "changing")
    /\ UNCHANGED <<protocol, registered, reports, status, needs, cache, answer, known, steps,
                   hearing, histories, edits>>

\* GetConfiguration is let through, ...
KeysDone(h) ==
    /\ phase[h] = "changing"
    /\ keys[h] = 0
    /\ Allow("GetConfiguration")
    /\ Becomes(h, "getting")
    /\ UNCHANGED <<protocol, registered, reports, status, needs, bootStatus, report, answer,
                   known, steps, hearing, histories, edits>>

\* ... and sent or not.
GetKeys(h) ==
    /\ phase[h] = "getting"
    /\ undone' \in {undone, [undone EXCEPT ![h] = @ \ {"get"}]}
    /\ Becomes(h, "got")
    /\ UNCHANGED <<protocol, registered, reports, status, needs, cache, answer, known, keys,
                   hearing, histories, edits>>

\* Mutant: what has been done is not written.
MutantForgets(h) ==
    /\ phase[h] = "got"
    /\ failed' = (failed \/ undone[h] # {})
    /\ Becomes(h, "saved")
    /\ UNCHANGED <<protocol, registered, reports, status, needs, cache, answer, known, steps,
                   hearing, unsent, rejected, edits>>

\* updateByKey: what is not done is left for the next boot.
SaveSteps(h) ==
    /\ phase[h] = "got"
    /\ needs' = undone[h]
    /\ failed' = (failed \/ undone[h] # {})
    /\ Becomes(h, "saved")
    /\ UNCHANGED <<protocol, registered, reports, status, cache, answer, known, steps,
                   hearing, unsent, rejected, edits>>

\* TriggerMessage is let through, and sent whatever comes of it.
TriggerBoot(h) ==
    /\ phase[h] = "saved"
    /\ Allow("TriggerMessage")
    /\ Ends(h)
    /\ UNCHANGED <<protocol, registered, status, needs, bootStatus, report, histories,
                   edits>>

\* A read, a call or the update throws, and nothing is written.
Fail16(h) ==
    /\ phase[h] \in Configuring16 \/ (phase[h] = "configuring" /\ protocol = "1.6")
    /\ Ends(h)
    /\ failed' = TRUE
    /\ UNCHANGED <<protocol, registered, status, needs, cache, unsent, rejected, edits>>

-------------------------------------------------------------------------------
(* The router and the operator                                                *)

\* _sendCallIsAllowed: what the router lets through to the station.
CallAllowed(c) == bootStatus["identifier"] # "Rejected" \/ c = "TriggerMessage"

\* putBootConfig: an operator sets the status, and what is to be done.
Edit(s, n) ==
    /\ edits < MaxEdits
    /\ edits' = edits + 1
    /\ status' = s
    /\ needs' \in {needs, n}
    /\ rejected' = (s = "Rejected" /\ \A h \in Handlers : phase[h] = "idle")
    /\ UNCHANGED <<protocol, registered, reports, cache, handlers, unsent, failed>>

-------------------------------------------------------------------------------
Configure(h) == \/ NoteReport(h) \/ AskReport(h) \/ AwaitReport(h) \/ WaitEnds(h)
                \/ SaveReport(h) \/ Accept(h)

Configure16(h) == \/ StartChanges(h) \/ ChangeKey(h) \/ KeyAnswered(h) \/ KeysDone(h)
                  \/ GetKeys(h) \/ SaveSteps(h) \/ TriggerBoot(h) \/ Fail16(h)

Handle(h) == \/ ReadCache(h) \/ Permit(h) \/ Respond(h) \/ CacheStatus(h)
             \/ UpdateBoot(h) \/ Configure(h) \/ Configure16(h)

Next ==
    \/ \E h \in Handlers : Boot(h) \/ Handle(h)
    \/ ContinueReport \/ EndReport \/ LoseReport \/ ExpireReport
    \/ \E s \in Statuses : Edit(s, Steps(protocol))

\* Handlers run to their end, timers fire, a report that is under way is ended, and a
\* station without an answer, or with one that does not accept it, boots again.
Fairness ==
    /\ \A h \in Handlers : WF_vars(Handle(h))
    /\ WF_vars(EndReport \/ LoseReport)
    /\ WF_vars(ExpireReport /\ due = {} /\ old = 0)
    /\ WF_vars(\E h \in Handlers : registered # "Accepted" /\ Boot(h))

Spec == Init /\ [][Next]_vars /\ Fairness

-------------------------------------------------------------------------------
(* Properties                                                                 *)

\* Types of the variables of the boot (BootNotificationService.ts; the comment "Only
\* Pending and Rejected statuses are cached" of module.ts).
TypeOK ==
    /\ protocol \in Protocols
    /\ registered \in Statuses \union {None}
    /\ due \subseteq Handlers
    /\ old \in Nat
    /\ status \in Statuses \union {None}
    /\ needs \subseteq Steps(protocol)
    /\ bootStatus \in [Namespaces -> {None, "Pending", "Rejected"}]
    /\ blacklist \in [Namespaces -> SUBSET Requests(protocol)]
    /\ report \in {None, "ongoing", "complete"}
    /\ phase \in [Handlers -> Phases]
    /\ answer \in [Handlers -> Statuses \union {None}]
    /\ known \in [Handlers -> {None, "Pending", "Rejected"}]
    /\ keys \in [Handlers -> 0..MaxKeys]
    /\ undone \in [Handlers -> SUBSET Steps("1.6")]
    /\ heard \in [Handlers -> {"nothing", "another", "own"}]
    /\ shared \subseteq Handlers
    /\ unsent \in BOOLEAN
    /\ failed \in BOOLEAN
    /\ rejected \in BOOLEAN
    /\ edits \in Nat

\* All reports have one entry in the cache. A handler goes on to accept its station only
\* after the last part of a report that arrived since it noted its own there, never on
\* an entry that was complete before; and the report is its own, unless the station had
\* another to end beside it: of those the code takes any for its own, also one that is
\* ended before its own is asked for.
ReportIsFresh ==
    \A h \in Handlers :
        phase[h] = "reported" => heard[h] = "own" \/ (heard[h] = "another" /\ h \in shared)

\* A station that an operator rejected while none of its boots was being handled stays
\* rejected: no handler that starts later accepts it, or starts to configure it.
RejectionHolds ==
    rejected => /\ status = "Rejected"
                /\ \A h \in Handlers : phase[h] \notin {"configuring", "accepting"}

\* Requests of a 2.x station are not left on the blacklist for good: while one is on
\* it, the cache holds the status that makes the next acceptance clear it, or a handler
\* is about to put it there. An answer that could not be sent breaks this.
BlacklistRemembered ==
    protocol = "2.x" /\ ~unsent /\ blacklist["name"] # {}
        => \/ bootStatus["name"] # None
           \/ \E h \in Handlers : phase[h] \in {"permitted", "sent"}

\* A station that boots until it is accepted is accepted, when no configuration fails,
\* every answer is sent and no operator intervenes, however its boots overlap.
EventuallyAccepted == []<>(registered = "Accepted" \/ unsent \/ failed \/ edits > 0)

\* router.ts: "TriggerMessage<BootNotification> is the only message allowed to be sent
\* during Rejected BootStatus B03.FR.08".
OnlyTriggerWhenRejected ==
    bootStatus["name"] = "Rejected"
        => \A c \in Calls : CallAllowed(c) => c = "TriggerMessage"

===============================================================================
