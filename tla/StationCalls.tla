----------------------------- MODULE StationCalls -----------------------------
(* The exchange of calls between the modules of CitrineOS and one charging    *)
(* station, through the OCPP router (OcppRouter/src/module/router.ts,         *)
(* AbstractRouter.ts, AbstractModule.ts, the RabbitMQ receiver and the        *)
(* namespace "tx<tenant>:<station>" of the cache).                            *)
(*                                                                            *)
(* A module publishes a call; the router takes it from the queue of its       *)
(* instance, looks whether ANY call of the station is pending, and if so      *)
(* gives it back to the queue (RetryMessageError -> nack). Otherwise it notes *)
(* the call as pending and writes it to the socket. The entry is removed when *)
(* the answer arrives, or when maxCallLengthSeconds have passed. The requests *)
(* of the station are noted in the same namespace until they are answered.    *)
(*                                                                            *)
(* Modelled: lookup and entry as two steps, handlers that run side by side,   *)
(* the two replies of a handler that throws after it has replied, expiry, a   *)
(* broker that refuses a message, an invalid message, the loss of the socket. *)
(* Not modelled: a broker that delivers an unacknowledged message again after *)
(* it lost the channel; a station that answers a call twice. The lookups of   *)
(* the boot status and of blacklisted actions are in StationBoot.             *)
EXTENDS Naturals, FiniteSets

CONSTANTS
    Calls,      \* message ids of the calls of the CSMS
    Requests,   \* message ids of the calls of the station
    Handlers,   \* how many deliveries the consumer of the router has at once: the
                \* code sets no prefetch, so this is how many the broker pushes
    MaxDrops    \* bound: how often the socket is lost

ASSUME HandlersAssumption == Handlers \in Nat \ {0}
ASSUME IdsAssumption == IsFiniteSet(Calls) /\ Calls \intersect Requests = {}
ASSUME MaxDropsAssumption == MaxDrops \in Nat

VARIABLES
    linked,     \* the station has a socket and its entry among the connections
    pending,    \* message ids in the namespace of the cache
    call,       \* how far each call of the CSMS is
    request,    \* how far each request of the station is
    replies,    \* replies of modules to a request that wait in the queue
    found,      \* replies to a request whose entry the router has just read
    answers,    \* answers to a request that were written to the socket
    excused,    \* history: ids whose entry expired, and requests whose answer the
                \* broker or the socket lost
    drops

vars == <<linked, pending, call, request, replies, found, answers,
          excused, drops>>

\* "over": refused by the broker or the router, or its answer was taken.
CallPhases == {"new", "queued", "delivered", "free", "claimed", "unsent",
               "sent", "lost", "answered", "unknown", "over"}
RequestPhases == {"new", "asked", "refused", "routed", "replied", "failed"}

\* Deliveries a handler of the router is busy with.
Busy == {c \in Calls : call[c] \in {"delivered", "free", "claimed", "unsent"}}

\* Calls the router has let through and whose entry is not gone yet.
UnderWay == {c \in Calls : call[c] = "free"} \union (pending \intersect Calls)

Init ==
    /\ linked = TRUE
    /\ pending = {}
    /\ call = [c \in Calls |-> "new"]
    /\ request = [r \in Requests |-> "new"]
    /\ replies = [r \in Requests |-> 0]
    /\ found = [r \in Requests |-> 0]
    /\ answers = [r \in Requests |-> 0]
    /\ excused = {}
    /\ drops = 0

requestVars == <<request, replies, found, answers>>

-------------------------------------------------------------------------------
(* Calls of the CSMS                                                          *)

Becomes(c, phase) == call' = [call EXCEPT ![c] = phase]

\* AbstractModule.sendCall: only to a station that is connected; the broker may refuse.
ModuleCalls(c) ==
    /\ call[c] = "new"
    /\ \/ linked /\ Becomes(c, "queued")
       \/ Becomes(c, "over")
    /\ UNCHANGED <<linked, pending, requestVars, excused, drops>>

\* The broker hands the message to the consumer of the router.
Deliver(c) ==
    /\ call[c] = "queued"
    /\ Cardinality(Busy) < Handlers
    /\ Becomes(c, "delivered")
    /\ UNCHANGED <<linked, pending, requestVars, excused, drops>>

\* Mutant: only the call itself is looked for.
MutantOwnKey(c) == c \notin pending

\* No call of the station is in the cache: existsAnyInNamespace.
StationFree(c) == pending = {}

\* AbstractRouter.handle drops an invalid call; sendCall looks for pending calls
\* and throws RetryMessageError, on which the receiver requeues the message.
LookUp(c) ==
    /\ call[c] = "delivered"
    /\ \/ Becomes(c, "over")
       \/ StationFree(c) /\ Becomes(c, "free")
       \/ ~StationFree(c) /\ Becomes(c, "queued")
    /\ UNCHANGED <<linked, pending, requestVars, excused, drops>>

\* sendCall, after the lookup: cache.set.
Claim(c) ==
    /\ call[c] = "free"
    /\ pending' = pending \union {c}
    /\ Becomes(c, "claimed")
    /\ UNCHANGED <<linked, requestVars, excused, drops>>

\* Mutant: the call is written before its entry is set, which then comes too late.
MutantNoEntry(c) ==
    /\ call[c] = "claimed"
    /\ pending' = pending \ {c}
    /\ Becomes(c, "sent")
    /\ UNCHANGED <<linked, requestVars, excused, drops>>

\* The network hook writes the call to the socket, or throws.
SendCall(c) ==
    /\ call[c] = "claimed"
    /\ \/ linked /\ Becomes(c, "sent")
       \/ Becomes(c, "unsent")
    /\ UNCHANGED <<linked, pending, requestVars, excused, drops>>

\* Mutant: the entry stays.
MutantKeepEntry(c) ==
    /\ call[c] = "unsent"
    /\ Becomes(c, "over")
    /\ UNCHANGED <<linked, pending, requestVars, excused, drops>>

\* A call that could not be written gives its entry back.
Unclaim(c) ==
    /\ call[c] = "unsent"
    /\ pending' = pending \ {c}
    /\ Becomes(c, "over")
    /\ UNCHANGED <<linked, requestVars, excused, drops>>

\* The station answers, with a CallResult or a CallError.
StationAnswers(c) ==
    /\ linked
    /\ call[c] = "sent"
    /\ Becomes(c, "answered")
    /\ UNCHANGED <<linked, pending, requestVars, excused, drops>>

\* _onCallResult and _onCallError: the entry is read and removed, and the answer is
\* routed to its module unless it is invalid; an answer without an entry is not.
TakeAnswer(c) ==
    /\ call[c] = "answered"
    /\ pending' = pending \ {c}
    /\ Becomes(c, IF c \in pending THEN "over" ELSE "unknown")
    /\ UNCHANGED <<linked, requestVars, excused, drops>>

-------------------------------------------------------------------------------
(* Requests of the station                                                    *)

Step(r, phase) == request' = [request EXCEPT ![r] = phase]

StationAsks(r) ==
    /\ linked
    /\ request[r] = "new"
    /\ Step(r, "asked")
    /\ UNCHANGED <<linked, pending, call, replies, found, answers, excused, drops>>

\* Writes an answer to the socket if there is one.
Write(r) ==
    IF linked
    THEN answers' = [answers EXCEPT ![r] = @ + 1] /\ UNCHANGED excused
    ELSE excused' = excused \union {r} /\ UNCHANGED answers

\* onMessage, when _onCall throws before it noted the request (forbidden or invalid).
Refuse(r) ==
    /\ request[r] = "asked"
    /\ Step(r, "refused")
    /\ Write(r)
    /\ UNCHANGED <<linked, pending, call, replies, found, drops>>

\* Mutant: the request is published, but not noted.
MutantNotNoted(r) ==
    /\ request[r] = "asked"
    /\ \/ Step(r, "routed") /\ UNCHANGED replies
       \/ Step(r, "failed") /\ replies' = [replies EXCEPT ![r] = @ + 1]
    /\ UNCHANGED <<linked, pending, call, found, answers, excused, drops>>

\* _onCall: note the request (setIfNotExist) and publish it; when the broker refuses
\* it, or when it is published but cannot be stored (emitMessage), answer with a
\* CallError, which looks for the entry like any other reply.
Route(r) ==
    /\ request[r] = "asked"
    /\ pending' = pending \union {r}
    /\ \/ Step(r, "routed") /\ UNCHANGED replies
       \/ Step(r, "routed") /\ replies' = [replies EXCEPT ![r] = @ + 1]
       \/ Step(r, "failed") /\ replies' = [replies EXCEPT ![r] = @ + 1]
    /\ UNCHANGED <<linked, call, found, answers, excused, drops>>

\* A reply is published for the router, or refused by the broker.
Publish(r) ==
    \/ replies' = [replies EXCEPT ![r] = @ + 1] /\ UNCHANGED excused
    \/ excused' = excused \union {r} /\ UNCHANGED replies

\* The handler of a module replies.
ModuleReplies(r) ==
    /\ request[r] = "routed"
    /\ Step(r, "replied")
    /\ Publish(r)
    /\ UNCHANGED <<linked, pending, call, found, answers, drops>>

\* AbstractModule.handle: the handler throws, before or after it has replied.
ModuleFails(r) ==
    /\ request[r] \in {"routed", "replied"}
    /\ Step(r, "failed")
    /\ Publish(r)
    /\ UNCHANGED <<linked, pending, call, found, answers, drops>>

\* Mutant: a reply is taken as often as the router likes.
MutantTakesAgain(r) ==
    /\ replies' = [replies EXCEPT ![r] = @ - 1]
    /\ IF r \in pending THEN found' = [found EXCEPT ![r] = @ + 1] ELSE UNCHANGED found
    /\ UNCHANGED <<linked, pending, call, request, answers, excused, drops>>

\* sendCallResult and sendCallError: a reply without an entry is not sent.
ReadEntry(r) ==
    /\ replies[r] > 0
    /\ replies' = [replies EXCEPT ![r] = @ - 1]
    /\ IF r \in pending THEN found' = [found EXCEPT ![r] = @ + 1] ELSE UNCHANGED found
    /\ UNCHANGED <<linked, pending, call, request, answers, excused, drops>>

\* They write the answer and remove the entry, whether or not the write succeeds.
Answer(r) ==
    /\ found[r] > 0
    /\ found' = [found EXCEPT ![r] = @ - 1]
    /\ pending' = pending \ {r}
    /\ Write(r)
    /\ UNCHANGED <<linked, call, request, replies, drops>>

-------------------------------------------------------------------------------
(* The stream of calls and requests never ends: an identifier nothing is left *)
(* of stands for the next call or request, which has a new one in the code.   *)

NextCall(c) ==
    /\ call[c] \in {"over", "unknown", "lost"}
    /\ c \notin pending
    /\ Becomes(c, "new")
    /\ excused' = excused \ {c}
    /\ UNCHANGED <<linked, pending, requestVars, drops>>

NextRequest(r) ==
    /\ request[r] \in {"refused", "replied", "failed"}
    /\ r \notin pending
    /\ replies[r] = 0 /\ found[r] = 0
    /\ Step(r, "new")
    /\ answers' = [answers EXCEPT ![r] = 0]
    /\ excused' = excused \ {r}
    /\ UNCHANGED <<linked, pending, call, replies, found, drops>>

-------------------------------------------------------------------------------
(* The cache and the socket                                                   *)

\* Mutant: the entry is set without a timer.
MutantNoTimer(i) ==
    /\ i \in pending
    /\ excused' = excused \union {i}
    /\ UNCHANGED <<linked, pending, call, requestVars, drops>>

\* The timer of an entry: maxCallLengthSeconds have passed.
Expire(i) ==
    /\ i \in pending
    /\ pending' = pending \ {i}
    /\ excused' = excused \union {i}
    /\ UNCHANGED <<linked, call, requestVars, drops>>

\* The socket is lost, with the calls the station has not answered.
Disconnect ==
    /\ linked
    /\ drops < MaxDrops
    /\ linked' = FALSE
    /\ drops' = drops + 1
    /\ call' = [c \in Calls |-> IF call[c] = "sent" THEN "lost" ELSE call[c]]
    /\ UNCHANGED <<pending, requestVars, excused>>

Reconnect ==
    /\ ~linked
    /\ linked' = TRUE
    /\ UNCHANGED <<pending, call, requestVars, excused, drops>>

-------------------------------------------------------------------------------
RouterStep(c) == \/ Deliver(c) \/ LookUp(c) \/ Claim(c) \/ SendCall(c)
                 \/ Unclaim(c) \/ TakeAnswer(c)

Serve(r) == \/ Refuse(r) \/ Route(r) \/ ModuleReplies(r)
            \/ ReadEntry(r) \/ Answer(r)

Next ==
    \/ \E c \in Calls :
          ModuleCalls(c) \/ RouterStep(c) \/ StationAnswers(c) \/ NextCall(c)
    \/ \E r \in Requests :
          StationAsks(r) \/ Serve(r) \/ ModuleFails(r) \/ NextRequest(r)
    \/ \E i \in Calls \union Requests : Expire(i)
    \/ Disconnect
    \/ Reconnect

\* Handlers run to their end and timers fire. The broker delivers in the order of its
\* queue, to which a call that was given back returns at its place: a call that waits
\* is delivered although others keep coming. Nothing is assumed of the station, of the
\* network, nor of which call finds the station free.
Fairness ==
    /\ \A c \in Calls : SF_vars(Deliver(c))
    /\ \A c \in Calls : WF_vars(RouterStep(c))
    /\ \A r \in Requests : WF_vars(Serve(r))
    /\ \A i \in Calls \union Requests : WF_vars(Expire(i))

Spec == Init /\ [][Next]_vars /\ Fairness

-------------------------------------------------------------------------------
(* Properties                                                                 *)

\* Types of the variables of the exchange (router.ts, the transactions namespace).
TypeOK ==
    /\ linked \in BOOLEAN
    /\ pending \subseteq Calls \union Requests
    /\ call \in [Calls -> CallPhases]
    /\ request \in [Requests -> RequestPhases]
    /\ replies \in [Requests -> Nat]
    /\ found \in [Requests -> Nat]
    /\ answers \in [Requests -> Nat]
    /\ excused \subseteq Calls \union Requests
    /\ drops \in Nat

\* An answer of the station is thrown away as unknown only when the entry of its
\* call had expired: the entry is there before the station can answer, and neither
\* a failing send nor the answer to another call takes it away.
UnknownOnlyLate == \A c \in Calls : call[c] = "unknown" => c \in excused

\* An entry never outlives the call it stands for, so a station is never kept busy
\* by a call that is over. Only the loss of the socket leaves entries to the timer.
EntryHasCall ==
    /\ \A c \in pending \intersect Calls :
          call[c] \in {"claimed", "unsent", "sent", "answered", "lost"}
    /\ \A r \in pending \intersect Requests :
          /\ request[r] \in {"routed", "replied", "failed"}
          /\ answers[r] = 0

\* The router implements the slots: a call is let through only while fewer than
\* Handlers calls are under way, although lookup and entry are two steps.
Slots == INSTANCE CallSlots WITH N <- Handlers, held <- UnderWay
SlotsSpec == Slots!Spec

\* A call that waits for ever, given back to the queue over and over, is overtaken
\* for ever: others are noted for the station again and again. It never waits behind
\* a station that nobody uses, nor behind an entry that stays, whatever the station
\* does. (That it may be overtaken for ever is how the router requeues.)
WaitsOnlyForOthers ==
    \A c \in Calls :
        <>[](call[c] \in {"queued", "delivered"})
            => []<><<\E i \in (Calls \union Requests) \ {c} : i \in pending' \ pending>>_vars

\* A request of the station is answered, unless its entry expires first or the
\* answer is lost by the broker or with the socket.
RequestsAnswered ==
    \A r \in Requests :
        request[r] = "asked" ~> (answers[r] > 0 \/ r \in excused)

===============================================================================
