-------------------------- MODULE StationCalls_proofs --------------------------
(***************************************************************************)
(* Theorems about StationCalls, for any calls, requests and handlers, any  *)
(* faults of the broker and any loss of the socket.                        *)
(***************************************************************************)
EXTENDS StationCalls, FiniteSetTheorems, TLAPS

(***************************************************************************)
(* Types                                                                   *)
(***************************************************************************)

LEMMA TypeInit == Init => TypeOK
  BY DEF Init, TypeOK, CallPhases, RequestPhases

LEMMA TypeNext == TypeOK /\ [Next]_vars => TypeOK'
<1> SUFFICES ASSUME TypeOK, [Next]_vars PROVE TypeOK'
  OBVIOUS
<1> USE DEF TypeOK, requestVars
<1>1. ASSUME NEW c \in Calls, ModuleCalls(c) \/ Deliver(c) \/ LookUp(c) PROVE TypeOK'
  BY <1>1 DEF ModuleCalls, Deliver, LookUp, Becomes, CallPhases
<1>2. ASSUME NEW c \in Calls, Claim(c) \/ SendCall(c) \/ Unclaim(c) PROVE TypeOK'
  BY <1>2 DEF Claim, SendCall, Unclaim, Becomes, CallPhases
<1>3. ASSUME NEW c \in Calls, TakeAnswer(c) \/ StationAnswers(c) PROVE TypeOK'
  BY <1>3 DEF TakeAnswer, StationAnswers, Becomes, CallPhases
<1>4. ASSUME NEW r \in Requests, StationAsks(r) \/ Refuse(r) PROVE TypeOK'
  BY <1>4 DEF StationAsks, Refuse, Write, Step, RequestPhases
<1>5. ASSUME NEW r \in Requests, Route(r) PROVE TypeOK'
  BY <1>5 DEF Route, Step, RequestPhases
<1>6. ASSUME NEW r \in Requests, ModuleReplies(r) \/ ModuleFails(r) PROVE TypeOK'
  BY <1>6 DEF ModuleReplies, ModuleFails, Publish, Step, RequestPhases
<1>7. ASSUME NEW r \in Requests, ReadEntry(r) PROVE TypeOK'
  BY <1>7 DEF ReadEntry
<1>8. ASSUME NEW r \in Requests, Answer(r) PROVE TypeOK'
  BY <1>8 DEF Answer, Write
<1>9. ASSUME NEW i \in Calls \union Requests, Expire(i) PROVE TypeOK'
  BY <1>9 DEF Expire
<1>10. CASE Disconnect
  <2>1. \A c \in Calls : (IF call[c] = "sent" THEN "lost" ELSE call[c]) \in CallPhases
    BY DEF CallPhases
  <2>2. call' \in [Calls -> CallPhases]
    BY <1>10, <2>1 DEF Disconnect
  <2>3. linked' \in BOOLEAN
    BY <1>10, Zenon DEF Disconnect
  <2>4. drops' \in Nat
    BY <1>10 DEF Disconnect
  <2>5. UNCHANGED <<pending, requestVars, excused>>
    BY <1>10 DEF Disconnect
  <2> QED
    BY <2>2, <2>3, <2>4, <2>5
<1>11. CASE Reconnect \/ UNCHANGED vars
  BY <1>11 DEF Reconnect, vars
<1>12. ASSUME NEW c \in Calls, NextCall(c) PROVE TypeOK'
  BY <1>12 DEF NextCall, Becomes, CallPhases
<1>13. ASSUME NEW r \in Requests, NextRequest(r) PROVE TypeOK'
  BY <1>13 DEF NextRequest, Step, RequestPhases
<1> QED
  BY <1>1, <1>2, <1>3, <1>4, <1>5, <1>6, <1>7, <1>8, <1>9, <1>10, <1>11, <1>12, <1>13
  DEF Next, RouterStep, Serve

(* The variables have the values their declarations say: no reply is taken *)
(* that is not in the queue.                                               *)
THEOREM TypeCorrect == Spec => []TypeOK
  BY TypeInit, TypeNext, PTL DEF Spec

(***************************************************************************)
(* Entries of the cache                                                    *)
(***************************************************************************)

(* A call that was claimed has its entry until it is answered, unless the  *)
(* entry expired.                                                          *)
ClaimedInv ==
  \A c \in Calls : /\ call[c] \in {"claimed", "sent", "answered"} => c \in pending \union excused
                   /\ call[c] = "unknown" => c \in excused

(* A request that was not routed yet has no reply.                         *)
FirstAsked ==
  \A r \in Requests : request[r] \in {"new", "asked"} => answers[r] = 0 /\ found[r] = 0

EntryInv == TypeOK /\ ClaimedInv /\ FirstAsked /\ EntryHasCall

LEMMA EntryInvNext == EntryInv /\ [Next]_vars => EntryInv'
<1> SUFFICES ASSUME EntryInv, [Next]_vars PROVE ClaimedInv' /\ FirstAsked' /\ EntryHasCall'
  BY TypeNext DEF EntryInv
<1> DEFINE Goal == ClaimedInv' /\ FirstAsked' /\ EntryHasCall'
<1> USE IdsAssumption
    DEF EntryInv, TypeOK, ClaimedInv, FirstAsked, EntryHasCall, requestVars
<1>1. ASSUME NEW c \in Calls, ModuleCalls(c) \/ Deliver(c) \/ LookUp(c) PROVE Goal
  BY <1>1 DEF ModuleCalls, Deliver, LookUp, Becomes
<1>2. ASSUME NEW c \in Calls, Claim(c) \/ SendCall(c) \/ Unclaim(c) PROVE Goal
  BY <1>2 DEF Claim, SendCall, Unclaim, Becomes
<1>3. ASSUME NEW c \in Calls, TakeAnswer(c) \/ StationAnswers(c) PROVE Goal
  BY <1>3 DEF TakeAnswer, StationAnswers, Becomes
<1>4. ASSUME NEW r \in Requests, StationAsks(r) PROVE Goal
  BY <1>4 DEF StationAsks, Step
<1>5. ASSUME NEW r \in Requests, Refuse(r) PROVE Goal
  BY <1>5 DEF Refuse, Write, Step
<1>6. ASSUME NEW r \in Requests, Route(r) PROVE Goal
  BY <1>6 DEF Route, Step
<1>7. ASSUME NEW r \in Requests, ModuleReplies(r) \/ ModuleFails(r) PROVE Goal
  BY <1>7 DEF ModuleReplies, ModuleFails, Publish, Step
<1>8. ASSUME NEW r \in Requests, ReadEntry(r) PROVE Goal
  BY <1>8 DEF ReadEntry
<1>9. ASSUME NEW r \in Requests, Answer(r) PROVE Goal
  BY <1>9 DEF Answer, Write
<1>10. ASSUME NEW i \in Calls \union Requests, Expire(i) PROVE Goal
  BY <1>10 DEF Expire
<1>11. CASE Disconnect
  BY <1>11 DEF Disconnect
<1>12. CASE Reconnect \/ UNCHANGED vars
  BY <1>12 DEF Reconnect, vars
<1>13. ASSUME NEW c \in Calls, NextCall(c) PROVE Goal
  BY <1>13 DEF NextCall, Becomes
<1>14. ASSUME NEW r \in Requests, NextRequest(r) PROVE Goal
  BY <1>14 DEF NextRequest, Step
<1> QED
  BY <1>1, <1>2, <1>3, <1>4, <1>5, <1>6, <1>7, <1>8, <1>9, <1>10, <1>11, <1>12, <1>13,
     <1>14
  DEF Next, RouterStep, Serve

LEMMA EntryInvInit == Init => EntryInv
  BY TypeInit DEF Init, EntryInv, ClaimedInv, FirstAsked, EntryHasCall

(* An answer of the station is unknown only when its entry had expired.    *)
THEOREM UnknownOnlyLateAlways == Spec => []UnknownOnlyLate
<1>1. EntryInv => UnknownOnlyLate
  BY DEF EntryInv, ClaimedInv, UnknownOnlyLate
<1> QED
  BY <1>1, EntryInvInit, EntryInvNext, PTL DEF Spec

(* An entry never outlives the call or request it stands for.              *)
THEOREM EntriesHaveCalls == Spec => []EntryHasCall
  BY EntryInvInit, EntryInvNext, PTL DEF Spec, EntryInv

(***************************************************************************)
(* The slots of the station                                                *)
(***************************************************************************)

Through == {c \in Calls : call[c] = "free"}

(* The router is busy with no more deliveries than it has handlers.        *)
BusyInv == Cardinality(Busy) <= Handlers

LEMMA FiniteSets ==
  /\ IsFiniteSet(Busy) /\ IsFiniteSet(Through)
  /\ Cardinality(Busy) \in Nat /\ Cardinality(Through) \in Nat
<1>1. IsFiniteSet(Busy) /\ IsFiniteSet(Through)
  BY IdsAssumption, FS_Subset DEF Busy, Through
<1> QED
  BY <1>1, FS_CardinalityType

LEMMA BusyNext == TypeOK /\ BusyInv /\ [Next]_vars => BusyInv'
<1> SUFFICES ASSUME TypeOK, BusyInv, [Next]_vars PROVE BusyInv'
  OBVIOUS
<1>1. ASSUME NEW c \in Calls, Deliver(c) PROVE BusyInv'
  <2>1. Busy' = Busy \union {c}
    BY <1>1 DEF Deliver, Becomes, Busy, TypeOK
  <2>2. \/ Cardinality(Busy') = Cardinality(Busy)
        \/ Cardinality(Busy') = Cardinality(Busy) + 1
    BY <2>1, FiniteSets, FS_AddElement
  <2>3. Cardinality(Busy) < Handlers
    BY <1>1 DEF Deliver
  <2> QED
    BY <2>2, <2>3, FiniteSets, HandlersAssumption DEF BusyInv
<1>2. CASE Busy' \subseteq Busy
  <2>1. Cardinality(Busy') <= Cardinality(Busy) /\ Cardinality(Busy') \in Nat
    BY <1>2, FiniteSets, FS_Subset, FS_CardinalityType
  <2> QED
    BY <2>1, FiniteSets, HandlersAssumption DEF BusyInv
<1>3. ASSUME NEW c \in Calls,
             ModuleCalls(c) \/ LookUp(c) \/ Claim(c) \/ SendCall(c) \/ Unclaim(c)
               \/ TakeAnswer(c) \/ StationAnswers(c) \/ NextCall(c)
      PROVE  Busy' \subseteq Busy
  BY <1>3 DEF ModuleCalls, LookUp, Claim, SendCall, Unclaim, TakeAnswer, StationAnswers,
              NextCall, Becomes, Busy, TypeOK
<1>4. ASSUME NEW r \in Requests,
             StationAsks(r) \/ Serve(r) \/ ModuleFails(r) \/ NextRequest(r)
      PROVE  Busy' \subseteq Busy
  BY <1>4 DEF StationAsks, Serve, Refuse, Route, ModuleReplies, ReadEntry, Answer,
              ModuleFails, NextRequest, Busy
<1>5. ASSUME NEW i \in Calls \union Requests, Expire(i) PROVE Busy' \subseteq Busy
  BY <1>5 DEF Expire, Busy
<1>6. CASE Disconnect
  BY <1>2, <1>6 DEF Disconnect, Busy
<1>7. CASE Reconnect \/ UNCHANGED vars
  BY <1>2, <1>7 DEF Reconnect, vars, Busy
<1> QED
  BY <1>1, <1>2, <1>3, <1>4, <1>5, <1>6, <1>7 DEF Next, RouterStep

(* A call that is let through takes a slot that is free: nothing is        *)
(* pending, and the calls let through have a handler each, as it has one.  *)
LEMMA ThroughTakesSlot ==
  ASSUME TypeOK, BusyInv, NEW c \in Calls, call[c] = "delivered", pending = {},
         call' = [call EXCEPT ![c] = "free"], pending' = pending
  PROVE  Slots!Start(c)
<1>1. UnderWay = Through /\ UnderWay' = UnderWay \union {c} /\ c \notin UnderWay
  BY DEF UnderWay, Through, TypeOK
<1>2. Through \subseteq Busy \ {c} /\ c \in Busy
  BY DEF Through, Busy
<1>3. IsFiniteSet(Busy \ {c}) /\ Cardinality(Busy \ {c}) = Cardinality(Busy) - 1
  BY <1>2, FiniteSets, FS_RemoveElement
<1>4. Cardinality(Through) <= Cardinality(Busy) - 1
  BY <1>2, <1>3, FS_Subset
<1>5. Cardinality(Through) < Handlers
  BY <1>4, FiniteSets, HandlersAssumption DEF BusyInv
<1>6. Cardinality(UnderWay) < Handlers
  BY <1>1, <1>5
<1>7. Slots!Cardinality(UnderWay) < Handlers
  BY <1>6 DEF Slots!Cardinality, Cardinality
<1> QED
  BY <1>1, <1>7 DEF Slots!Start

(* Removing an entry frees the slot of its call, if it is one of a call.   *)
LEMMA EntryFreesSlot ==
  ASSUME EntryInv, NEW i \in Calls \union Requests, pending' = pending \ {i},
         {c \in Calls : call'[c] = "free"} = {c \in Calls : call[c] = "free"}
  PROVE  Slots!Finish(i) \/ UnderWay' = UnderWay
<1>1. CASE i \in pending \intersect Calls
  <2>1. call[i] # "free"
    BY <1>1 DEF EntryInv, EntryHasCall
  <2>2. i \in UnderWay /\ UnderWay' = UnderWay \ {i}
    BY <1>1, <2>1 DEF UnderWay
  <2> QED
    BY <2>2 DEF Slots!Finish
<1>2. CASE i \notin pending \intersect Calls
  BY <1>2 DEF UnderWay
<1> QED
  BY <1>1, <1>2

LEMMA StepTakesOrFrees ==
  ASSUME EntryInv, BusyInv, [Next]_vars PROVE Slots!Next \/ UnderWay' = UnderWay
<1> DEFINE Goal == Slots!Next \/ UnderWay' = UnderWay
<1>0. TypeOK
  BY DEF EntryInv
<1>1. ASSUME NEW c \in Calls, LookUp(c) PROVE Goal
  <2>1. CASE StationFree(c) /\ Becomes(c, "free")
    <3>1. Slots!Start(c)
      BY <1>0, <1>1, <2>1, ThroughTakesSlot DEF LookUp, StationFree, Becomes
    <3> QED
      BY <3>1 DEF Slots!Next
  <2>2. CASE ~(StationFree(c) /\ Becomes(c, "free"))
    BY <1>0, <1>1, <2>2 DEF LookUp, Becomes, UnderWay, TypeOK
  <2> QED
    BY <2>1, <2>2
<1>2. ASSUME NEW c \in Calls,
             ModuleCalls(c) \/ Deliver(c) \/ Claim(c) \/ SendCall(c) \/ StationAnswers(c)
               \/ NextCall(c)
      PROVE  Goal
  BY <1>0, <1>2 DEF ModuleCalls, Deliver, Claim, SendCall, StationAnswers, NextCall,
                    Becomes, UnderWay, TypeOK
<1>3. ASSUME NEW c \in Calls, Unclaim(c) \/ TakeAnswer(c) PROVE Goal
  <2>1. /\ pending' = pending \ {c}
        /\ {d \in Calls : call'[d] = "free"} = {d \in Calls : call[d] = "free"}
    BY <1>0, <1>3 DEF Unclaim, TakeAnswer, Becomes, TypeOK
  <2>2. Slots!Finish(c) \/ UnderWay' = UnderWay
    BY <2>1, EntryFreesSlot
  <2> QED
    BY <2>2 DEF Slots!Next
<1>4. ASSUME NEW i \in Calls \union Requests, Expire(i) PROVE Goal
  <2>1. /\ pending' = pending \ {i}
        /\ {d \in Calls : call'[d] = "free"} = {d \in Calls : call[d] = "free"}
    BY <1>4 DEF Expire
  <2>2. Slots!Finish(i) \/ UnderWay' = UnderWay
    BY <2>1, EntryFreesSlot
  <2>3. CASE i \in Calls
    BY <2>2, <2>3 DEF Slots!Next
  <2>4. CASE i \in Requests
    BY <1>4, <2>4, IdsAssumption DEF Expire, UnderWay
  <2> QED
    BY <2>3, <2>4
<1>5. ASSUME NEW r \in Requests,
             StationAsks(r) \/ Serve(r) \/ ModuleFails(r) \/ NextRequest(r)
      PROVE  Goal
  BY <1>5, IdsAssumption
  DEF StationAsks, Serve, Refuse, Route, ModuleReplies, ReadEntry, Answer, ModuleFails,
      NextRequest, UnderWay
<1>6. CASE Disconnect
  BY <1>0, <1>6 DEF Disconnect, UnderWay, TypeOK
<1>7. CASE Reconnect \/ UNCHANGED vars
  BY <1>7 DEF Reconnect, vars, UnderWay
<1> QED
  BY <1>1, <1>2, <1>3, <1>4, <1>5, <1>6, <1>7 DEF Next, RouterStep

(* The router implements the slots: however lookups and entries interleave, *)
(* a call is let through only while fewer than Handlers are under way.     *)
THEOREM RouterImplementsSlots == Spec => SlotsSpec
<1>1. Init => Slots!Init /\ BusyInv
  <2> SUFFICES ASSUME Init PROVE Slots!Init /\ BusyInv
    OBVIOUS
  <2>1. UnderWay = {} /\ Busy = {}
    BY DEF Init, UnderWay, Busy
  <2> QED
    BY <2>1, FS_EmptySet, HandlersAssumption DEF Slots!Init, BusyInv
<1>2. EntryInv /\ BusyInv /\ [Next]_vars => [Slots!Next]_UnderWay
  BY StepTakesOrFrees
<1>3. EntryInv => TypeOK
  BY DEF EntryInv
<1> QED
  BY <1>1, <1>2, <1>3, EntryInvInit, EntryInvNext, BusyNext, PTL
  DEF Spec, SlotsSpec, Slots!Spec

===============================================================================
