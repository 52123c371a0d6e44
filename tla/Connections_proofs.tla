-------------------------- MODULE Connections_proofs --------------------------
(***************************************************************************)
(* Theorems about Connections, for any stations and any number of sockets, *)
(* disconnections and failures.                                            *)
(***************************************************************************)
EXTENDS Connections, FiniteSetTheorems, TLAPS

(***************************************************************************)
(* Types                                                                   *)
(***************************************************************************)

(* Forgetting a station keeps the types.                                   *)
LEMMA HandleCloseType ==
  ASSUME TypeOK, NEW s \in Stations, NEW k \in Sockets, HandleClose(s, k)
  PROVE  /\ entry' \in [Stations -> Sockets \union {NoSocket}]
         /\ conns' \in [Stations -> Sockets \union {NoSocket}]
         /\ count' \in Nat
         /\ dereg' \subseteq Deregistrations
  BY DEF TypeOK, HandleClose, Deregister, Deregistrations

LEMMA ClaimType ==
  ASSUME TypeOK, NEW k \in Sockets, Claim(k)
  PROVE  /\ phase' \in [Sockets -> Phases]
         /\ entry' \in [Stations -> Sockets \union {NoSocket}]
         /\ subscribing' \in [Sockets -> SUBSET Parts]
         /\ raced' \subseteq Sockets
  BY StationOfAssumption DEF TypeOK, Claim, Becomes, Phases, Parts

LEMMA TypeNext == TypeOK /\ [Next]_vars => TypeOK'
<1> SUFFICES ASSUME TypeOK, [Next]_vars PROVE TypeOK'
  OBVIOUS
<1> USE StationOfAssumption, NoSocketAssumption
<1>1. ASSUME NEW k \in Sockets, Upgrade(k) \/ CloseUnheard(k) PROVE TypeOK'
  BY <1>1 DEF TypeOK, Upgrade, CloseUnheard, Becomes, Phases
<1>2. ASSUME NEW k \in Sockets, Replace(k) PROVE TypeOK'
  <2>1. StationOf[k] \in Stations
    OBVIOUS
  <2>2. phase' \in [Sockets -> Phases]
    BY <1>2, <2>1 DEF TypeOK, Replace, Phases
  <2>3. HandleClose(StationOf[k], k)
    BY <1>2 DEF Replace
  <2> QED
    BY <1>2, <2>1, <2>2, <2>3, HandleCloseType DEF TypeOK, Replace
<1>3. ASSUME NEW k \in Sockets, Admit(k) \/ Replaced(k) PROVE TypeOK'
  <2>1. CASE Claim(k)
    BY <1>3, <2>1, ClaimType DEF TypeOK, Admit, Replaced
  <2>2. CASE ~Claim(k)
    BY <1>3, <2>2 DEF TypeOK, Admit, Replaced, Becomes, Phases
  <2> QED
    BY <2>1, <2>2
<1>4. ASSUME NEW k \in Sockets, NEW p \in Parts, Subscribe(k, p) PROVE TypeOK'
  BY <1>4 DEF TypeOK, Subscribe
<1>5. ASSUME NEW k \in Sockets, NEW p \in Parts, RegistrationFails(k, p) PROVE TypeOK'
  BY <1>5 DEF TypeOK, RegistrationFails, Becomes, Phases
<1>6. ASSUME NEW k \in Sockets, Open(k) PROVE TypeOK'
  BY <1>6 DEF TypeOK, Open, Becomes, Phases
<1>7. ASSUME NEW k \in Sockets, Close(k) PROVE TypeOK'
  <2>1. phase' \in [Sockets -> Phases]
    BY <1>7 DEF TypeOK, Close, Becomes, Phases
  <2>2. HandleClose(StationOf[k], k)
    BY <1>7 DEF Close
  <2> QED
    BY <1>7, <2>1, <2>2, HandleCloseType DEF TypeOK, Close
<1>8. ASSUME NEW s \in Stations, Disconnect(s) PROVE TypeOK'
  <2>1. phase' \in [Sockets -> Phases]
    BY <1>8 DEF TypeOK, Disconnect, Becomes, Phases
  <2>2. dereg' \subseteq Deregistrations
    BY <1>8 DEF TypeOK, Disconnect, Deregister, Deregistrations
  <2> QED
    BY <1>8, <2>1, <2>2 DEF TypeOK, Disconnect
<1>9. ASSUME NEW s \in Stations, Expire(s) PROVE TypeOK'
  BY <1>9 DEF TypeOK, Expire
<1>10. ASSUME NEW d \in Deregistrations, DeregisterStep(d) \/ DeregisterFails(d)
       PROVE TypeOK'
  <2>1. [d EXCEPT !.step = "unbind"] \in Deregistrations /\ d.station \in Stations
    BY DEF Deregistrations
  <2>2. CASE DeregisterStep(d)
    BY <2>1, <2>2 DEF TypeOK, DeregisterStep
  <2>3. CASE DeregisterFails(d)
    BY <2>1, <2>3 DEF TypeOK, DeregisterFails
  <2> QED
    BY <1>10, <2>2, <2>3
<1>11. CASE UNCHANGED vars
  BY <1>11 DEF TypeOK, vars
<1> QED
  BY <1>1, <1>2, <1>3, <1>4, <1>5, <1>6, <1>7, <1>8, <1>9, <1>10, <1>11 DEF Next, Connect

LEMMA TypeInit == Init => TypeOK
  BY DEF Init, TypeOK, Phases

(* The variables have the values their declarations say; the count of      *)
(* connections of the tenant never becomes negative.                       *)
THEOREM TypeCorrect == Spec => []TypeOK
  BY TypeInit, TypeNext, PTL DEF Spec

(***************************************************************************)
(* The entry of a live socket                                              *)
(***************************************************************************)

Live(k) == phase[k] = "registering" \/ Listening(k)

(* A connection the server keeps is that of a socket that was opened; it   *)
(* holds the entry of its station, or the entry has expired, and then no   *)
(* socket is about to replace it.                                          *)
ConnsInv ==
  \A s \in Stations :
     conns[s] # NoSocket =>
       /\ StationOf[conns[s]] = s
       /\ phase[conns[s]] \in {"open", "closing"}
       /\ entry[s] \in {conns[s], NoSocket}
       /\ entry[s] = NoSocket =>
            \A k \in Sockets : StationOf[k] = s => phase[k] # "replacing"

(* A socket that is listened to is the one the server keeps.               *)
ListenedInv == \A k \in Sockets : Listening(k) => conns[StationOf[k]] = k

LiveInv == TypeOK /\ EntryOfLive /\ ConnsInv /\ ListenedInv

(* A socket that claims finds its station without an entry, or is closed.  *)
LEMMA ClaimKeepsLive ==
  ASSUME LiveInv, NEW k \in Sockets, phase[k] \in {"upgraded", "replacing"}, Claim(k),
         phase[k] = "upgraded" => conns[StationOf[k]] = NoSocket,
         UNCHANGED <<gone, conns>>
  PROVE  EntryOfLive' /\ ConnsInv' /\ ListenedInv'
<1> USE StationOfAssumption, NoSocketAssumption DEF LiveInv
<1>1. \A j \in Sockets \ {k} : phase'[j] = phase[j]
  BY DEF Claim, Becomes, TypeOK
<1>2. phase'[k] \in {"registering", "closed"}
  BY DEF Claim, Becomes, TypeOK
<1>3. \A j \in Sockets : Listening(j)' <=> Listening(j)
  BY <1>1, <1>2 DEF Listening
<1>4. EntryOfLive'
  <2>1. CASE entry[StationOf[k]] = NoSocket
    <3>1. \A j \in Sockets : StationOf[j] = StationOf[k] => ~Live(j)
      BY <2>1 DEF EntryOfLive, Live
    <3>2. \A j \in Sockets \ {k} : Live(j)' => Live(j)
      BY <1>1, <1>3 DEF Live
    <3>3. /\ entry'[StationOf[k]] = k
          /\ \A s \in Stations \ {StationOf[k]} : entry'[s] = entry[s]
      BY <2>1 DEF Claim, TypeOK
    <3> QED
      BY <3>1, <3>2, <3>3 DEF EntryOfLive, Live
  <2>2. CASE entry[StationOf[k]] # NoSocket
    <3>1. phase'[k] = "closed" /\ entry' = entry
      BY <2>2 DEF Claim, Becomes, TypeOK
    <3> QED
      BY <1>1, <1>3, <3>1 DEF EntryOfLive
  <2> QED
    BY <2>1, <2>2
<1>5. ConnsInv'
  <2> SUFFICES ASSUME NEW s \in Stations, conns[s] # NoSocket
               PROVE  /\ StationOf[conns[s]] = s
                      /\ phase'[conns[s]] \in {"open", "closing"}
                      /\ entry'[s] \in {conns[s], NoSocket}
                      /\ entry'[s] = NoSocket =>
                           \A j \in Sockets : StationOf[j] = s => phase'[j] # "replacing"
    BY DEF ConnsInv
  <2>1. conns[s] \in Sockets /\ conns[s] # k
    BY DEF ConnsInv, TypeOK
  <2>2. entry'[s] = entry[s]
    <3>1. CASE s = StationOf[k] /\ phase[k] = "replacing"
      <4>1. entry[s] # NoSocket
        BY <3>1 DEF ConnsInv
      <4> QED
        BY <3>1, <4>1 DEF Claim
    <3>2. CASE s = StationOf[k] /\ phase[k] = "upgraded"
      BY <3>2
    <3>3. CASE s # StationOf[k]
      BY <3>3 DEF Claim, TypeOK
    <3> QED
      BY <3>1, <3>2, <3>3
  <2> QED
    BY <1>1, <1>2, <2>1, <2>2 DEF ConnsInv
<1>6. ListenedInv'
  BY <1>3 DEF ListenedInv
<1> QED
  BY <1>4, <1>5, <1>6

(* Where a socket is forgotten that the server keeps, no other socket of   *)
(* the station is live.                                                    *)
LEMMA OnlyLive ==
  ASSUME LiveInv, NEW k \in Sockets, conns[StationOf[k]] = k
  PROVE  \A j \in Sockets : Live(j) /\ StationOf[j] = StationOf[k] => j = k
<1> USE StationOfAssumption, NoSocketAssumption DEF LiveInv
<1> SUFFICES ASSUME NEW j \in Sockets, Live(j), StationOf[j] = StationOf[k] PROVE j = k
  OBVIOUS
<1>1. entry[StationOf[k]] = j
  BY DEF Live, EntryOfLive
<1> QED
  BY <1>1 DEF ConnsInv

LEMMA LiveInvNext == LiveInv /\ [Next]_vars => LiveInv'
<1> SUFFICES ASSUME LiveInv, [Next]_vars PROVE LiveInv'
  OBVIOUS
<1> USE StationOfAssumption, NoSocketAssumption
<1>0. TypeOK /\ TypeOK'
  BY TypeNext DEF LiveInv
<1>1. ASSUME NEW k \in Sockets, Upgrade(k) PROVE EntryOfLive' /\ ConnsInv' /\ ListenedInv'
  BY <1>0, <1>1
  DEF Upgrade, Becomes, LiveInv, TypeOK, EntryOfLive, ConnsInv, ListenedInv, Listening
<1>2. ASSUME NEW k \in Sockets, CloseUnheard(k)
      PROVE EntryOfLive' /\ ConnsInv' /\ ListenedInv'
  BY <1>0, <1>2
  DEF CloseUnheard, LiveInv, EntryOfLive, ConnsInv, ListenedInv, Listening
<1>3. ASSUME NEW k \in Sockets, Replace(k) PROVE EntryOfLive' /\ ConnsInv' /\ ListenedInv'
  <2> DEFINE s == StationOf[k]  c == conns[s]
  <2>1. c \in Sockets /\ StationOf[c] = s /\ c # k /\ s \in Stations
    BY <1>0, <1>3 DEF Replace, LiveInv, ConnsInv, TypeOK
  <2>2. \A j \in Sockets : StationOf[j] = s /\ j # c => ~Live(j)
    BY <2>1, OnlyLive
  <2>3. /\ \A j \in Sockets \ {k, c} : phase'[j] = phase[j]
        /\ phase'[k] = "replacing" /\ phase'[c] = "closed"
        /\ \A t \in Stations \ {s} : entry'[t] = entry[t] /\ conns'[t] = conns[t]
        /\ conns'[s] = NoSocket /\ gone' = gone
    BY <1>0, <1>3, <2>1 DEF Replace, HandleClose, TypeOK
  <2>4. EntryOfLive' /\ ListenedInv'
    <3> SUFFICES ASSUME NEW j \in Sockets, Live(j)'
                 PROVE  /\ entry'[StationOf[j]] = j
                        /\ Listening(j)' => conns'[StationOf[j]] = j
      BY DEF EntryOfLive, ListenedInv, Live
    <3>1. j \notin {k, c}
      BY <2>3 DEF Live, Listening
    <3>2. Live(j) /\ (Listening(j)' => Listening(j))
      BY <2>3, <3>1 DEF Live, Listening
    <3>3. StationOf[j] \in Stations \ {s}
      BY <2>2, <3>1, <3>2
    <3> QED
      BY <2>3, <3>2, <3>3 DEF LiveInv, EntryOfLive, ListenedInv, Live
  <2>5. ConnsInv'
    <3> SUFFICES ASSUME NEW t \in Stations, conns'[t] # NoSocket
                 PROVE  /\ StationOf[conns'[t]] = t
                        /\ phase'[conns'[t]] \in {"open", "closing"}
                        /\ entry'[t] \in {conns'[t], NoSocket}
                        /\ entry'[t] = NoSocket =>
                             \A j \in Sockets : StationOf[j] = t => phase'[j] # "replacing"
      BY DEF ConnsInv
    <3>1. t # s /\ conns'[t] = conns[t] /\ entry'[t] = entry[t]
      BY <2>3
    <3>2. conns[t] \in Sockets \ {k, c}
      BY <1>0, <2>1, <3>1 DEF LiveInv, ConnsInv, TypeOK
    <3> QED
      BY <2>1, <2>3, <3>1, <3>2 DEF LiveInv, ConnsInv
  <2> QED
    BY <2>4, <2>5
<1>4. ASSUME NEW k \in Sockets, Admit(k) \/ Replaced(k)
      PROVE EntryOfLive' /\ ConnsInv' /\ ListenedInv'
  <2>1. CASE Claim(k) /\ (phase[k] = "upgraded" => conns[StationOf[k]] = NoSocket)
    BY <1>4, <2>1, ClaimKeepsLive DEF Admit, Replaced
  <2>2. CASE Becomes(k, "closed") /\ UNCHANGED entry
    BY <1>0, <1>4, <2>2
    DEF Admit, Replaced, Becomes, LiveInv, TypeOK, EntryOfLive, ConnsInv, ListenedInv,
        Listening
  <2> QED
    BY <1>4, <2>1, <2>2 DEF Admit, Replaced
<1>5. ASSUME NEW k \in Sockets, NEW p \in Parts, Subscribe(k, p)
      PROVE EntryOfLive' /\ ConnsInv' /\ ListenedInv'
  BY <1>5 DEF Subscribe, LiveInv, EntryOfLive, ConnsInv, ListenedInv, Listening
<1>6. ASSUME NEW k \in Sockets, NEW p \in Parts, RegistrationFails(k, p)
      PROVE EntryOfLive' /\ ConnsInv' /\ ListenedInv'
  <2>1. entry[StationOf[k]] = k /\ conns[StationOf[k]] = NoSocket
    BY <1>0, <1>6 DEF RegistrationFails, LiveInv, EntryOfLive, ConnsInv, TypeOK
  <2> QED
    BY <1>0, <1>6, <2>1
    DEF RegistrationFails, Becomes, LiveInv, TypeOK, EntryOfLive, ConnsInv, ListenedInv,
        Listening
<1>7. ASSUME NEW k \in Sockets, Open(k) PROVE EntryOfLive' /\ ConnsInv' /\ ListenedInv'
  <2>1. entry[StationOf[k]] = k
    BY <1>7 DEF Open, LiveInv, EntryOfLive
  <2> QED
    BY <1>0, <1>7, <2>1
    DEF Open, Becomes, LiveInv, TypeOK, EntryOfLive, ConnsInv, ListenedInv, Listening
<1>8. ASSUME NEW k \in Sockets, Close(k) PROVE EntryOfLive' /\ ConnsInv' /\ ListenedInv'
  <2> DEFINE s == StationOf[k]
  <2>1. conns[s] = k /\ s \in Stations
    BY <1>8 DEF Close, LiveInv, ListenedInv
  <2>2. \A j \in Sockets : StationOf[j] = s /\ j # k => ~Live(j)
    BY <2>1, OnlyLive
  <2>3. /\ \A j \in Sockets \ {k} : phase'[j] = phase[j]
        /\ phase'[k] = "closed"
        /\ \A t \in Stations \ {s} : entry'[t] = entry[t] /\ conns'[t] = conns[t]
        /\ conns'[s] = NoSocket /\ gone' = gone
    BY <1>0, <1>8, <2>1 DEF Close, Becomes, HandleClose, TypeOK
  <2>4. EntryOfLive' /\ ListenedInv'
    <3> SUFFICES ASSUME NEW j \in Sockets, Live(j)'
                 PROVE  /\ entry'[StationOf[j]] = j
                        /\ Listening(j)' => conns'[StationOf[j]] = j
      BY DEF EntryOfLive, ListenedInv, Live
    <3>1. j # k
      BY <2>3 DEF Live, Listening
    <3>2. Live(j) /\ (Listening(j)' => Listening(j))
      BY <2>3, <3>1 DEF Live, Listening
    <3>3. StationOf[j] \in Stations \ {s}
      BY <2>2, <3>1, <3>2
    <3> QED
      BY <2>3, <3>2, <3>3 DEF LiveInv, EntryOfLive, ListenedInv, Live
  <2>5. ConnsInv'
    <3> SUFFICES ASSUME NEW t \in Stations, conns'[t] # NoSocket
                 PROVE  /\ StationOf[conns'[t]] = t
                        /\ phase'[conns'[t]] \in {"open", "closing"}
                        /\ entry'[t] \in {conns'[t], NoSocket}
                        /\ entry'[t] = NoSocket =>
                             \A j \in Sockets : StationOf[j] = t => phase'[j] # "replacing"
      BY DEF ConnsInv
    <3>1. t # s /\ conns'[t] = conns[t] /\ entry'[t] = entry[t]
      BY <2>3
    <3>2. conns[t] \in Sockets \ {k}
      BY <1>0, <2>1, <3>1 DEF LiveInv, ConnsInv, TypeOK
    <3> QED
      BY <2>1, <2>3, <3>1, <3>2 DEF LiveInv, ConnsInv
  <2> QED
    BY <2>4, <2>5
<1>9. ASSUME NEW s \in Stations, Disconnect(s)
      PROVE EntryOfLive' /\ ConnsInv' /\ ListenedInv'
  BY <1>0, <1>9
  DEF Disconnect, Becomes, LiveInv, TypeOK, EntryOfLive, ConnsInv, ListenedInv, Listening
<1>10. ASSUME NEW s \in Stations, Expire(s) PROVE EntryOfLive' /\ ConnsInv' /\ ListenedInv'
  BY <1>0, <1>10
  DEF Expire, LiveInv, TypeOK, EntryOfLive, ConnsInv, ListenedInv, Listening
<1>11. ASSUME NEW d \in Deregistrations, DeregisterStep(d) \/ DeregisterFails(d)
       PROVE EntryOfLive' /\ ConnsInv' /\ ListenedInv'
  BY <1>11
  DEF DeregisterStep, DeregisterFails, LiveInv, EntryOfLive, ConnsInv, ListenedInv, Listening
<1>12. CASE UNCHANGED vars
  BY <1>0, <1>12 DEF vars, LiveInv, EntryOfLive, ConnsInv, ListenedInv, Listening
<1> QED
  BY <1>0, <1>1, <1>2, <1>3, <1>4, <1>5, <1>6, <1>7, <1>8, <1>9, <1>10, <1>11, <1>12
  DEF Next, Connect, LiveInv

LEMMA LiveInvInit == Init => LiveInv
  BY TypeInit, StationOfAssumption
  DEF Init, LiveInv, EntryOfLive, ConnsInv, ListenedInv, Listening

(* A station never has two live sockets: each one holds the entry.         *)
THEOREM EntryOfLiveAlways == Spec => []EntryOfLive
  BY LiveInvInit, LiveInvNext, PTL DEF Spec, LiveInv

(***************************************************************************)
(* The count of connections                                                *)
(***************************************************************************)

Kept == {s \in Stations : conns[s] # NoSocket}

(* What a close does to the count, when the server keeps a socket.         *)
LEMMA HandleCloseCounts ==
  ASSUME TypeOK, CountMatches, NEW s \in Stations, NEW k \in Sockets, conns[s] # NoSocket,
         HandleClose(s, k)
  PROVE  CountMatches'
<1>1. IsFiniteSet(Kept)
  BY StationsAssumption, FS_Subset DEF Kept
<1>2. s \in Kept /\ Kept' = Kept \ {s}
  BY NoSocketAssumption DEF Kept, HandleClose, TypeOK
<1>3. Cardinality(Kept) \in Nat /\ Cardinality(Kept') = Cardinality(Kept) - 1
  BY <1>1, <1>2, FS_RemoveElement, FS_CardinalityType
<1>4. Cardinality(Kept) # 0
  BY <1>1, <1>2, FS_EmptySet
<1>5. count = Cardinality(Kept)
  BY DEF CountMatches, Kept
<1>6. count' = Cardinality(Kept')
  BY <1>3, <1>4, <1>5 DEF HandleClose
<1> QED
  BY <1>6 DEF CountMatches, Kept

LEMMA CountNext == LiveInv /\ CountMatches /\ [Next]_vars => CountMatches'
<1> SUFFICES ASSUME LiveInv, CountMatches, [Next]_vars PROVE CountMatches'
  OBVIOUS
<1> USE StationOfAssumption, NoSocketAssumption
<1>1. ASSUME NEW k \in Sockets, Replace(k) PROVE CountMatches'
  BY <1>1, HandleCloseCounts DEF Replace, LiveInv
<1>2. ASSUME NEW k \in Sockets, Close(k) PROVE CountMatches'
  <2>1. conns[StationOf[k]] = k
    BY <1>2 DEF Close, LiveInv, ListenedInv
  <2> QED
    BY <1>2, <2>1, HandleCloseCounts DEF Close, LiveInv
<1>3. ASSUME NEW k \in Sockets, Open(k) PROVE CountMatches'
  <2> DEFINE s == StationOf[k]
  <2>1. entry[s] = k
    BY <1>3 DEF Open, LiveInv, EntryOfLive
  <2>2. conns[s] = NoSocket
    BY <1>3, <2>1 DEF Open, LiveInv, ConnsInv
  <2>3. IsFiniteSet(Kept)
    BY StationsAssumption, FS_Subset DEF Kept
  <2>4. s \notin Kept /\ Kept' = Kept \union {s}
    BY <1>3, <2>2 DEF Kept, Open, LiveInv, TypeOK
  <2>5. Cardinality(Kept') = Cardinality(Kept) + 1
    BY <2>3, <2>4, FS_AddElement
  <2> QED
    BY <1>3, <2>5 DEF Open, CountMatches, Kept
<1>4. CASE UNCHANGED <<conns, count>>
  BY <1>4 DEF CountMatches
<1>5. ASSUME NEW k \in Sockets,
             Upgrade(k) \/ CloseUnheard(k) \/ Admit(k) \/ Replaced(k)
      PROVE  CountMatches'
  BY <1>4, <1>5 DEF Upgrade, CloseUnheard, Admit, Replaced
<1>6. ASSUME NEW k \in Sockets, NEW p \in Parts, Subscribe(k, p) \/ RegistrationFails(k, p)
      PROVE  CountMatches'
  BY <1>4, <1>6 DEF Subscribe, RegistrationFails
<1>7. ASSUME NEW s \in Stations, Disconnect(s) \/ Expire(s) PROVE CountMatches'
  BY <1>4, <1>7 DEF Disconnect, Expire
<1>8. ASSUME NEW d \in Deregistrations, DeregisterStep(d) \/ DeregisterFails(d)
      PROVE  CountMatches'
  BY <1>4, <1>8 DEF DeregisterStep, DeregisterFails
<1>9. CASE UNCHANGED vars
  BY <1>4, <1>9 DEF vars
<1> QED
  BY <1>1, <1>2, <1>3, <1>5, <1>6, <1>7, <1>8, <1>9 DEF Next, Connect

(* The number the limit of the tenant is compared with is right.           *)
THEOREM CountAlwaysMatches == Spec => []CountMatches
<1>1. Init => CountMatches
  <2> SUFFICES ASSUME Init PROVE CountMatches
    OBVIOUS
  <2>1. {s \in Stations : conns[s] # NoSocket} = {}
    BY DEF Init
  <2> QED
    BY <2>1, FS_EmptySet DEF Init, CountMatches
<1> QED
  BY <1>1, LiveInvInit, LiveInvNext, CountNext, PTL DEF Spec

(***************************************************************************)
(* The bindings of an open socket                                          *)
(***************************************************************************)

(* A socket that is being registered, or is open, and met no deregistration *)
(* that another one began.                                                 *)
Undisturbed(k) ==
  /\ k \notin raced
  /\ phase[k] = "registering" \/ (phase[k] = "open" /\ Listening(k))

(* A socket that has asked for its place began no deregistration.          *)
BegunInv == \A d \in dereg : d.by \in Sockets => phase[d.by] \notin {"new", "upgraded"}

(* No deregistration is under way that would undo an undisturbed socket,   *)
(* and what it does not have yet is still to be done.                      *)
BoundInv ==
  \A k \in Sockets :
     Undisturbed(k) =>
       /\ \A d \in dereg : d.station # StationOf[k]
       /\ "bind" \in subscribing[k] \/ StationOf[k] \in bound
       /\ "online" \in subscribing[k] \/ StationOf[k] \in online
       /\ phase[k] = "open" => subscribing[k] = {}

LEMMA BegunNext == LiveInv /\ BegunInv /\ [Next]_vars => BegunInv'
<1> SUFFICES ASSUME LiveInv, BegunInv, [Next]_vars PROVE BegunInv'
  OBVIOUS
<1> USE StationOfAssumption, NoSocketAssumption DEF LiveInv, TypeOK, BegunInv
<1>1. ASSUME NEW k \in Sockets, Replace(k) PROVE BegunInv'
  BY <1>1 DEF Replace, HandleClose, Deregister
<1>2. ASSUME NEW k \in Sockets, Close(k) PROVE BegunInv'
  BY <1>2 DEF Close, HandleClose, Deregister, Becomes
<1>3. ASSUME NEW k \in Sockets, Upgrade(k) PROVE BegunInv'
  BY <1>3 DEF Upgrade, Becomes
<1>4. ASSUME NEW k \in Sockets, Admit(k) \/ Replaced(k) PROVE BegunInv'
  BY <1>4 DEF Admit, Replaced, Claim, Becomes
<1>5. ASSUME NEW k \in Sockets, CloseUnheard(k) \/ Open(k) PROVE BegunInv'
  BY <1>5 DEF CloseUnheard, Open, Becomes
<1>6. ASSUME NEW k \in Sockets, NEW p \in Parts, Subscribe(k, p) \/ RegistrationFails(k, p)
      PROVE  BegunInv'
  BY <1>6 DEF Subscribe, RegistrationFails, Becomes
<1>7. ASSUME NEW s \in Stations, Disconnect(s) PROVE BegunInv'
  <2>1. \A j \in Sockets : phase'[j] \in {"new", "upgraded"} => phase[j] = phase'[j]
    BY <1>7 DEF Disconnect, Becomes
  <2>2. \A d \in dereg' : d \in dereg \/ d.by = Admin
    BY <1>7 DEF Disconnect, Deregister
  <2> QED
    BY <2>1, <2>2, AdminAssumption
<1>8. ASSUME NEW s \in Stations, Expire(s) PROVE BegunInv'
  BY <1>8 DEF Expire
<1>9. ASSUME NEW d \in Deregistrations, DeregisterStep(d) \/ DeregisterFails(d)
      PROVE  BegunInv'
  BY <1>9 DEF DeregisterStep, DeregisterFails, Deregistrations
<1>10. CASE UNCHANGED vars
  BY <1>10 DEF vars
<1> QED
  BY <1>1, <1>2, <1>3, <1>4, <1>5, <1>6, <1>7, <1>8, <1>9, <1>10 DEF Next, Connect

(* A socket that another step leaves alone stays as bound as it was, where *)
(* no deregistration of its station is added.                              *)
LEMMA BoundInvNext == LiveInv /\ BegunInv /\ BoundInv /\ [Next]_vars => BoundInv'
<1> SUFFICES ASSUME LiveInv, BegunInv, BoundInv, [Next]_vars,
                    NEW j \in Sockets, Undisturbed(j)'
             PROVE  /\ \A d \in dereg' : d.station # StationOf[j]
                    /\ "bind" \in subscribing'[j] \/ StationOf[j] \in bound'
                    /\ "online" \in subscribing'[j] \/ StationOf[j] \in online'
                    /\ phase'[j] = "open" => subscribing'[j] = {}
  BY DEF BoundInv
<1> DEFINE Goal == /\ \A d \in dereg' : d.station # StationOf[j]
                   /\ "bind" \in subscribing'[j] \/ StationOf[j] \in bound'
                   /\ "online" \in subscribing'[j] \/ StationOf[j] \in online'
                   /\ phase'[j] = "open" => subscribing'[j] = {}
<1> USE StationOfAssumption, NoSocketAssumption
<1>0. TypeOK
  BY DEF LiveInv
<1>1. ASSUME NEW k \in Sockets, Upgrade(k) \/ CloseUnheard(k) PROVE Goal
  <2>1. Undisturbed(j)
    BY <1>0, <1>1 DEF Undisturbed, Listening, Upgrade, CloseUnheard, Becomes, TypeOK
  <2> QED
    BY <1>0, <1>1, <2>1 DEF BoundInv, Upgrade, CloseUnheard, Becomes, TypeOK
<1>2. ASSUME NEW k \in Sockets, Replace(k) PROVE Goal
  <2> DEFINE c == conns[StationOf[k]]
  <2>1. c \in Sockets /\ StationOf[c] = StationOf[k]
    BY <1>0, <1>2 DEF Replace, LiveInv, ConnsInv, TypeOK
  <2>2. j \notin {k, c} /\ Undisturbed(j)
    BY <1>0, <1>2, <2>1 DEF Replace, Undisturbed, Listening, TypeOK
  <2>3. StationOf[j] # StationOf[k]
    BY <2>1, <2>2, OnlyLive DEF Undisturbed, Live
  <2> QED
    BY <1>0, <1>2, <2>2, <2>3 DEF BoundInv, Replace, HandleClose, Deregister, TypeOK
<1>3. ASSUME NEW k \in Sockets, Close(k) PROVE Goal
  <2>1. conns[StationOf[k]] = k
    BY <1>3 DEF Close, LiveInv, ListenedInv
  <2>2. j # k /\ Undisturbed(j)
    BY <1>0, <1>3 DEF Close, Becomes, Undisturbed, Listening, TypeOK
  <2>3. StationOf[j] # StationOf[k]
    BY <2>1, <2>2, OnlyLive DEF Undisturbed, Live
  <2> QED
    BY <1>0, <1>3, <2>2, <2>3
    DEF BoundInv, Close, HandleClose, Deregister, Becomes, TypeOK
<1>4. ASSUME NEW k \in Sockets, Admit(k) \/ Replaced(k) PROVE Goal
  <2>1. CASE j # k
    <3>1. Undisturbed(j)
      BY <1>0, <1>4, <2>1
      DEF Admit, Replaced, Claim, Becomes, Undisturbed, Listening, TypeOK
    <3> QED
      BY <1>0, <1>4, <2>1, <3>1
      DEF BoundInv, Admit, Replaced, Claim, Becomes, TypeOK
  <2>2. CASE j = k
    <3>1. /\ phase'[k] = "registering" /\ subscribing'[k] = Parts
          /\ ~\E d \in dereg : d.station = StationOf[k] /\ d.by # k
      BY <1>0, <1>4, <2>2
      DEF Admit, Replaced, Claim, Becomes, Undisturbed, Listening, TypeOK
    <3>2. \A d \in dereg : d.by # k
      BY <1>4 DEF Admit, Replaced, BegunInv
    <3>3. dereg' = dereg
      BY <1>4 DEF Admit, Replaced
    <3> QED
      BY <2>2, <3>1, <3>2, <3>3 DEF Parts
  <2> QED
    BY <2>1, <2>2
<1>5. ASSUME NEW k \in Sockets, NEW p \in Parts, Subscribe(k, p) PROVE Goal
  <2>1. Undisturbed(j)
    BY <1>5 DEF Subscribe, Undisturbed, Listening
  <2> QED
    BY <1>0, <1>5, <2>1 DEF BoundInv, Subscribe, TypeOK, Parts
<1>6. ASSUME NEW k \in Sockets, NEW p \in Parts, RegistrationFails(k, p) PROVE Goal
  <2>1. j # k /\ Undisturbed(j)
    BY <1>0, <1>6 DEF RegistrationFails, Becomes, Undisturbed, Listening, TypeOK
  <2> QED
    BY <1>0, <1>6, <2>1 DEF BoundInv, RegistrationFails, Becomes, TypeOK
<1>7. ASSUME NEW k \in Sockets, Open(k) PROVE Goal
  <2>1. Undisturbed(j)
    BY <1>0, <1>7 DEF Open, Becomes, Undisturbed, Listening, TypeOK
  <2> QED
    BY <1>0, <1>7, <2>1 DEF BoundInv, Open, Becomes, TypeOK
<1>8. ASSUME NEW s \in Stations, Disconnect(s) PROVE Goal
  <2>1. Undisturbed(j) /\ phase[j] = phase'[j]
    BY <1>0, <1>8 DEF Disconnect, Becomes, Undisturbed, Listening, TypeOK
  <2>2. StationOf[j] # s
    <3>1. CASE phase[j] = "registering"
      BY <1>8, <3>1 DEF Disconnect, Undisturbed
    <3>2. CASE phase[j] = "open" /\ Listening(j)
      <4>1. StationOf[j] = s => conns[s] = j
        BY <3>2 DEF LiveInv, ListenedInv
      <4> QED
        BY <1>0, <1>8, <2>1, <3>2, <4>1 DEF Disconnect, Becomes, Listening, TypeOK
    <3> QED
      BY <2>1, <3>1, <3>2 DEF Undisturbed
  <2> QED
    BY <1>8, <2>1, <2>2 DEF BoundInv, Disconnect, Deregister
<1>9. ASSUME NEW s \in Stations, Expire(s) PROVE Goal
  <2>1. Undisturbed(j)
    BY <1>9 DEF Expire, Undisturbed, Listening
  <2> QED
    BY <1>9, <2>1 DEF BoundInv, Expire
<1>10. ASSUME NEW d \in Deregistrations, DeregisterStep(d) PROVE Goal
  <2>1. Undisturbed(j)
    BY <1>10 DEF DeregisterStep, Undisturbed, Listening
  <2>2. d.station # StationOf[j]
    BY <1>10, <2>1 DEF DeregisterStep, BoundInv
  <2> QED
    BY <1>10, <2>1, <2>2 DEF BoundInv, DeregisterStep, Deregistrations
<1>11. ASSUME NEW d \in Deregistrations, DeregisterFails(d) PROVE Goal
  <2>1. Undisturbed(j)
    BY <1>11 DEF DeregisterFails, Undisturbed, Listening
  <2> QED
    BY <1>11, <2>1 DEF BoundInv, DeregisterFails
<1>12. CASE UNCHANGED vars
  <2>1. Undisturbed(j)
    BY <1>12 DEF vars, Undisturbed, Listening
  <2> QED
    BY <1>12, <2>1 DEF BoundInv, vars
<1> QED
  BY <1>1, <1>2, <1>3, <1>4, <1>5, <1>6, <1>7, <1>8, <1>9, <1>10, <1>11, <1>12 DEF Next, Connect

(* The router gets the calls for every open socket that registered without *)
(* a deregistration of another beside it.                                  *)
THEOREM BoundAlwaysUnlessRaced == Spec => []BoundUnlessRaced
<1>1. Init => BegunInv /\ BoundInv
  BY DEF Init, BegunInv, BoundInv, Undisturbed, Listening
<1>2. BoundInv => BoundUnlessRaced
  BY DEF BoundInv, BoundUnlessRaced, Undisturbed
<1> QED
  BY <1>1, <1>2, LiveInvInit, LiveInvNext, BegunNext, BoundInvNext, PTL DEF Spec

(***************************************************************************)
(* The traces of a station that has left                                   *)
(***************************************************************************)

(* A socket of the station that has been registered, or is about to be.    *)
Attached(s) ==
  \E k \in Sockets : StationOf[k] = s /\ phase[k] \in {"registering", "open", "closing"}

(* What registerConnection still has to do belongs to a socket that is     *)
(* being registered; a deregistration that is under way will still undo    *)
(* what a station without a socket has left: isOnline before its first     *)
(* step, the bindings before its second.                                   *)
LeftInv ==
  /\ \A k \in Sockets :
        subscribing[k] # {} => phase[k] = "registering" \/ StationOf[k] \in failed
  /\ \A s \in Stations \ failed :
        s \in online => Attached(s) \/ \E d \in dereg : d.station = s /\ d.step = "offline"
  /\ \A s \in Stations \ failed :
        s \in bound => Attached(s) \/ \E d \in dereg : d.station = s

LEMMA LeftInvNext == LiveInv /\ LeftInv /\ [Next]_vars => LeftInv'
<1> SUFFICES ASSUME LiveInv, LeftInv, [Next]_vars PROVE LeftInv'
  OBVIOUS
<1> USE StationOfAssumption, NoSocketAssumption
<1>0. TypeOK
  BY DEF LiveInv
<1>1. ASSUME NEW k \in Sockets, Upgrade(k) \/ CloseUnheard(k) PROVE LeftInv'
  BY <1>0, <1>1 DEF LeftInv, Attached, Upgrade, CloseUnheard, Becomes, TypeOK
<1>2. ASSUME NEW k \in Sockets, Replace(k) PROVE LeftInv'
  <2> DEFINE s == StationOf[k]  c == conns[s]
  <2>1. c \in Sockets /\ StationOf[c] = s /\ phase[c] \in {"open", "closing"}
    BY <1>0, <1>2 DEF Replace, LiveInv, ConnsInv, TypeOK
  <2>2. /\ Deregister(s, k) \in dereg' /\ dereg \subseteq dereg'
        /\ \A j \in Sockets \ {k, c} : phase'[j] = phase[j]
        /\ UNCHANGED <<subscribing, bound, online, failed>>
    BY <1>0, <1>2 DEF Replace, HandleClose, TypeOK
  <2>3. \A t \in Stations \ {s} : Attached(t) => Attached(t)'
    BY <2>1, <2>2 DEF Attached
  <2>4. phase[k] = "upgraded"
    BY <1>2 DEF Replace
  <2>5. \A t \in Stations \ failed : t \in online =>
           Attached(t)' \/ \E d \in dereg' : d.station = t /\ d.step = "offline"
    BY <2>2, <2>3 DEF LeftInv, Deregister
  <2>6. \A t \in Stations \ failed : t \in bound =>
           Attached(t)' \/ \E d \in dereg' : d.station = t
    BY <2>2, <2>3 DEF LeftInv, Deregister
  <2>7. \A j \in Sockets :
           subscribing[j] # {} => phase'[j] = "registering" \/ StationOf[j] \in failed
    BY <2>1, <2>2, <2>4 DEF LeftInv
  <2> QED
    BY <2>2, <2>5, <2>6, <2>7 DEF LeftInv
<1>3. ASSUME NEW k \in Sockets, Close(k) PROVE LeftInv'
  <2> DEFINE s == StationOf[k]
  <2>1. /\ Deregister(s, k) \in dereg' /\ dereg \subseteq dereg'
        /\ \A j \in Sockets \ {k} : phase'[j] = phase[j]
        /\ phase[k] \in {"open", "closing"}
        /\ UNCHANGED <<subscribing, bound, online, failed>>
    BY <1>0, <1>3 DEF Close, HandleClose, Becomes, Listening, TypeOK
  <2>2. \A t \in Stations \ {s} : Attached(t) => Attached(t)'
    BY <2>1 DEF Attached
  <2>3. \A t \in Stations \ failed : t \in online =>
           Attached(t)' \/ \E d \in dereg' : d.station = t /\ d.step = "offline"
    BY <2>1, <2>2 DEF LeftInv, Deregister
  <2>4. \A t \in Stations \ failed : t \in bound =>
           Attached(t)' \/ \E d \in dereg' : d.station = t
    BY <2>1, <2>2 DEF LeftInv, Deregister
  <2>5. \A j \in Sockets :
           subscribing[j] # {} => phase'[j] = "registering" \/ StationOf[j] \in failed
    BY <2>1 DEF LeftInv
  <2> QED
    BY <2>1, <2>3, <2>4, <2>5 DEF LeftInv
<1>4. ASSUME NEW k \in Sockets, Admit(k) \/ Replaced(k) PROVE LeftInv'
  <2>1. /\ phase[k] \in {"upgraded", "replacing"} /\ phase'[k] \in {"registering", "closed"}
        /\ \A j \in Sockets \ {k} : phase'[j] = phase[j] /\ subscribing'[j] = subscribing[j]
        /\ phase'[k] = "closed" => subscribing'[k] = subscribing[k]
        /\ UNCHANGED <<dereg, bound, online, failed>>
    BY <1>0, <1>4 DEF Admit, Replaced, Claim, Becomes, TypeOK
  <2>2. \A t \in Stations : Attached(t) => Attached(t)'
    BY <2>1 DEF Attached
  <2> QED
    BY <2>1, <2>2 DEF LeftInv
<1>5. ASSUME NEW k \in Sockets, NEW p \in Parts, Subscribe(k, p) PROVE LeftInv'
  <2>1. StationOf[k] \notin failed => Attached(StationOf[k])
    BY <1>5 DEF Subscribe, LeftInv, Attached
  <2>2. \A t \in Stations : Attached(t)' <=> Attached(t)
    BY <1>5 DEF Subscribe, Attached
  <2>3. /\ \A t \in Stations \ {StationOf[k]} : (t \in bound' <=> t \in bound)
                                             /\ (t \in online' <=> t \in online)
        /\ UNCHANGED <<phase, dereg, failed>>
    BY <1>5 DEF Subscribe
  <2>4. \A j \in Sockets : subscribing'[j] # {} => subscribing[j] # {}
    BY <1>0, <1>5 DEF Subscribe, TypeOK
  <2> QED
    BY <2>1, <2>2, <2>3, <2>4 DEF LeftInv
<1>6. ASSUME NEW k \in Sockets, NEW p \in Parts, RegistrationFails(k, p) PROVE LeftInv'
  <2>1. /\ failed' = failed \union {StationOf[k]}
        /\ \A j \in Sockets \ {k} : phase'[j] = phase[j] /\ subscribing'[j] = subscribing[j]
        /\ UNCHANGED <<dereg, bound, online>>
    BY <1>0, <1>6 DEF RegistrationFails, Becomes, TypeOK
  <2>2. \A t \in Stations \ {StationOf[k]} : Attached(t) => Attached(t)'
    BY <2>1 DEF Attached
  <2> QED
    BY <2>1, <2>2 DEF LeftInv
<1>7. ASSUME NEW k \in Sockets, Open(k) PROVE LeftInv'
  <2>1. /\ phase'[k] = "open" /\ subscribing[k] = {}
        /\ \A j \in Sockets \ {k} : phase'[j] = phase[j]
        /\ UNCHANGED <<subscribing, dereg, bound, online, failed>>
    BY <1>0, <1>7 DEF Open, Becomes, TypeOK
  <2>2. \A t \in Stations : Attached(t) => Attached(t)'
    BY <2>1 DEF Attached
  <2> QED
    BY <2>1, <2>2 DEF LeftInv
<1>8. ASSUME NEW s \in Stations, Disconnect(s) PROVE LeftInv'
  <2>1. conns[s] # NoSocket => conns[s] \in Sockets /\ phase[conns[s]] \in {"open", "closing"}
    BY <1>0 DEF LiveInv, ConnsInv, TypeOK
  <2>2. /\ \A j \in Sockets : \/ phase'[j] = phase[j]
                              \/ phase[j] \in {"open", "closing"} /\ phase'[j] = "closing"
        /\ dereg \subseteq dereg'
        /\ UNCHANGED <<subscribing, bound, online, failed>>
    BY <1>0, <1>8, <2>1 DEF Disconnect, Becomes, TypeOK
  <2>3. \A t \in Stations : Attached(t) => Attached(t)'
    BY <2>2 DEF Attached
  <2> QED
    BY <2>2, <2>3 DEF LeftInv
<1>9. ASSUME NEW s \in Stations, Expire(s) PROVE LeftInv'
  BY <1>9 DEF Expire, LeftInv, Attached
<1>10. ASSUME NEW d \in Deregistrations, DeregisterStep(d) PROVE LeftInv'
  <2>1. \A t \in Stations : Attached(t)' <=> Attached(t)
    BY <1>10 DEF DeregisterStep, Attached
  <2>2. CASE d.step = "offline"
    <3>1. /\ online' = online \ {d.station}
          /\ \A e \in dereg : e # d => e \in dereg'
          /\ [d EXCEPT !.step = "unbind"] \in dereg'
          /\ [d EXCEPT !.step = "unbind"].station = d.station
          /\ UNCHANGED <<phase, subscribing, bound, failed>>
      BY <1>10, <2>2 DEF DeregisterStep, Deregistrations
    <3> QED
      BY <2>1, <3>1 DEF LeftInv
  <2>3. CASE d.step = "unbind"
    <3>1. /\ bound' = bound \ {d.station}
          /\ \A e \in dereg : e # d => e \in dereg'
          /\ UNCHANGED <<phase, subscribing, online, failed>>
      BY <1>10, <2>3 DEF DeregisterStep
    <3> QED
      BY <2>1, <2>3, <3>1 DEF LeftInv
  <2> QED
    BY <2>2, <2>3 DEF Deregistrations
<1>11. ASSUME NEW d \in Deregistrations, DeregisterFails(d) PROVE LeftInv'
  BY <1>11 DEF DeregisterFails, LeftInv, Attached
<1>12. CASE UNCHANGED vars
  BY <1>12 DEF vars, LeftInv, Attached
<1> QED
  BY <1>1, <1>2, <1>3, <1>4, <1>5, <1>6, <1>7, <1>8, <1>9, <1>10, <1>11, <1>12 DEF Next, Connect

(* A station without a socket, and without a deregistration under way, is  *)
(* offline and unbound, unless a part of a registration or deregistration  *)
(* of it failed.                                                           *)
THEOREM ClosedAlwaysDeregistered == Spec => []ClosedIsDeregistered
<1>1. Init => LeftInv
  BY DEF Init, LeftInv
<1>2. LeftInv => ClosedIsDeregistered
  <2> SUFFICES ASSUME LeftInv, NEW s \in Stations \ failed,
                      \A k \in Sockets : StationOf[k] = s => phase[k] \in {"new", "upgraded", "closed"},
                      \A d \in dereg : d.station # s
               PROVE  s \notin bound \union online
    BY DEF ClosedIsDeregistered
  <2>1. ~Attached(s)
    BY DEF Attached
  <2> QED
    BY <2>1 DEF LeftInv
<1> QED
  BY <1>1, <1>2, LiveInvInit, LiveInvNext, LeftInvNext, PTL DEF Spec

===============================================================================
