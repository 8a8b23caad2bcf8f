-------------------------- MODULE EventPumpProofs --------------------------
(***************************************************************************)
(* Theorems about EventPump, for any peers, any capacity of the bus and    *)
(* any amount of news.                                                     *)
(***************************************************************************)
EXTENDS EventPump, FiniteSetTheorems, TLAPS

USE DEF routeVars, pumpVars, daemonVars, others

(* A wait only begins with a service to poll, and the lobby is given none. *)
PumpInv ==
    /\ TypeOK
    /\ Len(bus) <= MaxNews
    /\ api => ~solo /\ api \in ApiChoices
    /\ pc = "wait" => api

LEMMA PublishTypes ==
    ASSUME TypeOK, NEW ev \in BusEvent, Publish(ev)
    PROVE  /\ bus' \in Seq(BusEvent) /\ Len(bus') = Len(bus) + 1
           /\ Len(bus') <= MaxNews
           /\ \A k \in 1..Len(bus) : bus'[k] = bus[k]
           /\ bus'[Len(bus')] = ev
BY BoundsAssumption DEF TypeOK, Publish

LEMMA SayTypes ==
    ASSUME TypeOK, NEW kind \in EventKinds, Say(kind)
    PROVE  /\ sent' \in Seq(EventKinds)
           /\ Len(sent') \in Nat /\ Len(sent) <= Len(sent')
           /\ pc' \in {"recv", "done"}
           /\ \A i \in 1..Len(sent) : sent'[i] = sent[i]
           /\ outOpen => Len(sent') = Len(sent) + 1 /\ sent'[Len(sent')] = kind
           /\ ~outOpen => sent' = sent
<1>1. sent \in Seq(EventKinds) /\ Len(sent) \in Nat
  BY DEF TypeOK
<1>2. CASE outOpen
  <2>1. sent' = Append(sent, kind) /\ pc' = "recv"
    BY <1>2 DEF Say
  <2>2. QED
    BY <1>1, <1>2, <2>1
<1>3. CASE ~outOpen
  <2>1. sent' = sent /\ pc' = "done"
    BY <1>3 DEF Say
  <2>2. QED
    BY <1>1, <1>3, <2>1
<1>4. QED
  BY <1>2, <1>3

LEMMA Translation ==
    ASSUME NEW ev \in BusEvent
    PROVE  /\ Translated(ev) \in EventKinds \cup {Nothing}
           /\ ev.kind \in Joining => Translated(ev) = "peers_changed"
           /\ ev.kind = "TunDeviceError" <=> Translated(ev) = "disconnected"
<1>1. ev.kind \in AllKinds
  BY DEF BusEvent, AllKinds
<1>2. CASE ev.kind \in Joining \cup Leaving \cup Changes
  <2>1. ev.kind \notin {"TunDeviceReady", "TunDeviceError"}
    BY <1>2 DEF Joining, Leaving, Changes
  <2>2. Translated(ev) = "peers_changed"
    BY <1>2, <2>1, SMT DEF Translated, Troubles, Joining, Leaving, Changes
  <2>3. QED
    BY <2>1, <2>2 DEF EventKinds
<1>3. CASE ev.kind \in Troubles
  <2>1. ev.kind \notin {"TunDeviceReady", "TunDeviceError"} \cup Joining \cup Leaving \cup Changes
    BY <1>3 DEF Troubles, Joining, Leaving, Changes
  <2>2. Translated(ev) = "degraded"
    BY <1>3, <2>1, SMT DEF Translated
  <2>3. QED
    BY <2>1, <2>2 DEF EventKinds
<1>4. CASE ev.kind \in {"TunDeviceReady", "TunDeviceError", "ListenerAdded"}
  <2>1. ev.kind \notin Joining \cup Leaving \cup Changes \cup Troubles
    BY <1>4 DEF Troubles, Joining, Leaving, Changes
  <2>2. ev.kind = "TunDeviceReady" => Translated(ev) = "connected"
    BY <2>1, SMT DEF Translated
  <2>3. ev.kind = "TunDeviceError" => Translated(ev) = "disconnected"
    BY <2>1, SMT DEF Translated
  <2>4. ev.kind = "ListenerAdded" => Translated(ev) = Nothing
    BY <2>1, SMT DEF Translated
  <2>5. QED
    BY <1>4, <2>1, <2>2, <2>3, <2>4 DEF EventKinds, Nothing
<1>5. QED
  BY <1>1, <1>2, <1>3, <1>4 DEF AllKinds, Plain

(* An instance's step keeps what was published and what was said. *)
LEMMA InstanceTypes ==
    ASSUME PumpInv, Instance
    PROVE  /\ PumpInv'
           /\ UNCHANGED <<outOpen, solo, api, head, pc, sent, heard, known, seen>>
           /\ Len(bus) <= Len(bus')
           /\ \A k \in 1..Len(bus) : bus'[k] = bus[k]
<1>1. ASSUME NEW p \in Peers, Joins(p) \/ Reconnects(p)
      PROVE  \E ev \in BusEvent : Publish(ev) /\ route' \in [Peers -> {"absent", "bare", "addressed"}]
  BY <1>1 DEF Joins, Reconnects, PumpInv, TypeOK, BusEvent, Joining, Leaving
<1>2. ASSUME NEW kind \in Plain, Reports(kind)
      PROVE  \E ev \in BusEvent : Publish(ev) /\ route' \in [Peers -> {"absent", "bare", "addressed"}]
  BY <1>2 DEF Reports, PumpInv, TypeOK, BusEvent
<1>3. ASSUME NEW ev \in BusEvent, Publish(ev),
             route' \in [Peers -> {"absent", "bare", "addressed"}]
      PROVE  /\ PumpInv'
             /\ UNCHANGED <<outOpen, solo, api, head, pc, sent, heard, known, seen>>
             /\ Len(bus) <= Len(bus')
             /\ \A k \in 1..Len(bus) : bus'[k] = bus[k]
  <2>1. /\ bus' \in Seq(BusEvent) /\ Len(bus') = Len(bus) + 1
        /\ Len(bus') <= MaxNews
        /\ \A k \in 1..Len(bus) : bus'[k] = bus[k]
    BY <1>3, PublishTypes DEF PumpInv
  <2>2. pc = "wait" => head - 1 \in 1..Len(bus)
    BY DEF PumpInv, TypeOK
  <2>3. QED
    BY <1>3, <2>1, <2>2 DEF PumpInv, TypeOK, Publish
<1>4. ASSUME NEW p \in Peers, Resolves(p) \/ Withdraws(p)
      PROVE  /\ PumpInv'
             /\ UNCHANGED <<bus, outOpen, solo, api, head, pc, sent, heard, known, seen>>
  BY <1>4 DEF Resolves, Withdraws, PumpInv, TypeOK
<1>5. ASSUME BusCloses
      PROVE  /\ PumpInv'
             /\ UNCHANGED <<bus, outOpen, solo, api, head, pc, sent, heard, known, seen>>
  BY <1>5 DEF BusCloses, PumpInv, TypeOK
<1>6. Len(bus) \in Nat
  BY DEF PumpInv, TypeOK
<1>7. QED
  BY <1>1, <1>2, <1>3, <1>4, <1>5, <1>6 DEF Instance

LEMMA PumpTypes == ASSUME PumpInv, Pump PROVE PumpInv'
<1> "peers_changed" \in EventKinds /\ "disconnected" \in EventKinds
  BY DEF EventKinds
<1>1. ASSUME Takes
      PROVE  /\ head \in 1..Len(bus) /\ bus[head] \in BusEvent
             /\ head' = head + 1 /\ head' \in 1..(Len(bus) + 1)
  BY <1>1 DEF Takes, Behind, PumpInv, TypeOK
<1>2. CASE Ignores
  BY <1>1, <1>2 DEF Ignores, Takes, PumpInv, TypeOK
<1>3. CASE BeginsToWait
  <2>1. bus[head].kind \in Joining /\ api /\ head > 0
    BY <1>1, <1>3 DEF BeginsToWait, Waits, PumpInv, TypeOK
  <2>2. /\ pc' = "wait" /\ head' - 1 = head
        /\ head' > 1 /\ head' \in 1..(Len(bus) + 1)
        /\ UNCHANGED <<others, sent>>
    BY <1>1, <1>3 DEF BeginsToWait, PumpInv, TypeOK
  <2>3. bus'[head' - 1].kind \in Joining
    BY <2>1, <2>2
  <2>4. QED
    BY <2>1, <2>2, <2>3 DEF PumpInv, TypeOK
<1>4. CASE Announces
  <2>1. Translated(bus[head]) \in EventKinds
    BY <1>1, <1>4, Translation DEF Announces
  <2>2. /\ sent' \in Seq(EventKinds) /\ Len(sent') \in Nat
        /\ Len(sent) <= Len(sent') /\ pc' \in {"recv", "done"}
    BY <1>4, <2>1, SayTypes DEF Announces, PumpInv
  <2>3. QED
    BY <1>1, <1>4, <2>2 DEF Announces, PumpInv, TypeOK
<1>5. CASE Lags
  <2>1. head' \in 1..(Len(bus) + 1)
    BY <1>5, BoundsAssumption DEF Lags, Lagged, Behind, PumpInv, TypeOK
  <2>2. sent' \in Seq(EventKinds) /\ Len(sent') \in Nat /\ Len(sent) <= Len(sent')
    BY <1>5 DEF Lags, PumpInv, TypeOK
  <2>3. QED
    BY <1>5, <2>1, <2>2 DEF Lags, PumpInv, TypeOK
<1>6. CASE Ends
  BY <1>6 DEF Ends, PumpInv, TypeOK
<1>7. CASE AddressSeen \/ GivesUp
  <2>1. /\ sent' \in Seq(EventKinds) /\ Len(sent') \in Nat
        /\ Len(sent) <= Len(sent') /\ pc' \in {"recv", "done"}
    BY <1>7, SayTypes DEF AddressSeen, GivesUp, PumpInv
  <2>2. UNCHANGED <<others, head>>
    BY <1>7 DEF AddressSeen, GivesUp
  <2>3. QED
    BY <2>1, <2>2 DEF PumpInv, TypeOK
<1>8. QED
  BY <1>2, <1>3, <1>4, <1>5, <1>6, <1>7 DEF Pump

LEMMA PumpInvInit == Init => PumpInv
<1> SUFFICES ASSUME Init PROVE PumpInv
  OBVIOUS
<1>1. bus \in Seq(BusEvent) /\ sent \in Seq(EventKinds)
      /\ Len(bus) = 0 /\ Len(sent) = 0
  BY DEF Init
<1>2. solo \in BOOLEAN /\ api \in BOOLEAN /\ (api => ~solo /\ api \in ApiChoices)
  BY ChoicesAssumption DEF Init
<1>3. QED
  BY <1>1, <1>2, BoundsAssumption DEF Init, PumpInv, TypeOK

LEMMA PumpInvStep == PumpInv /\ [Next]_vars => PumpInv'
<1> SUFFICES ASSUME PumpInv, [Next]_vars PROVE PumpInv'
  OBVIOUS
<1>1. CASE UNCHANGED vars
  BY <1>1 DEF vars, PumpInv, TypeOK
<1>2. CASE OutCloses
  BY <1>2 DEF OutCloses, PumpInv, TypeOK
<1>3. CASE DaemonHears
  <2>1. Listed \in SUBSET Peers
    BY DEF Listed
  <2>2. QED
    BY <1>3, <2>1 DEF DaemonHears, PumpInv, TypeOK
<1>4. QED
  BY <1>1, <1>2, <1>3, InstanceTypes, PumpTypes DEF Next

LEMMA PumpInvAlways == Spec => []PumpInv
BY PumpInvInit, PumpInvStep, PTL DEF Spec

(* Every variable of the pump stays within its type, and it only ever waits *)
(* on a join it has taken (engine.rs: pump, esperar_direccion).             *)
THEOREM PumpTypeCorrect == Spec => []TypeOK
<1>1. PumpInv => TypeOK
  BY DEF PumpInv
<1>2. QED
  BY <1>1, PumpInvAlways, PTL

-----------------------------------------------------------------------------
(* What is ahead of the daemon stays ahead of it while the pump only adds.  *)
LEMMA ReadStaysAhead ==
    ASSUME PumpInv, ReadAhead, heard' = heard,
           Len(sent') \in Nat, Len(sent) <= Len(sent'),
           \A i \in 1..Len(sent) : sent'[i] = sent[i]
    PROVE  ReadAhead'
<1>1. PICK i \in (heard + 1)..Len(sent) : sent[i] = "peers_changed"
  BY DEF ReadAhead
<1>2. heard \in Nat /\ Len(sent) \in Nat
  BY DEF PumpInv, TypeOK
<1>3. i \in 1..Len(sent) /\ i \in (heard' + 1)..Len(sent')
  BY <1>1, <1>2
<1>4. sent'[i] = "peers_changed"
  BY <1>1, <1>3
<1>5. QED
  BY <1>3, <1>4 DEF ReadAhead

(* Saying that the members changed puts a re-read ahead of it.              *)
LEMMA SayingPutsARead ==
    ASSUME PumpInv, heard' = heard, sent' = Append(sent, "peers_changed")
    PROVE  ReadAhead'
<1>1. sent \in Seq(EventKinds) /\ Len(sent) \in Nat /\ heard \in 0..Len(sent)
  BY DEF PumpInv, TypeOK
<1>2. Len(sent') = Len(sent) + 1 /\ sent'[Len(sent')] = "peers_changed"
  BY <1>1
<1>3. Len(sent') \in (heard' + 1)..Len(sent')
  BY <1>1, <1>2
<1>4. QED
  BY <1>2, <1>3 DEF ReadAhead

LEMMA PumpLosesNothing ==
    ASSUME PumpInv, NewsNotLost, Pump PROVE NewsNotLost'
<1> SUFFICES ASSUME ~solo, outOpen,
                    NEW k \in (seen + 1)..(head' - 1), MemberNews(bus[k])
             PROVE  pc' = "wait" \/ ReadAhead'
  <2>1. solo' = solo /\ outOpen' = outOpen /\ seen' = seen /\ bus' = bus
    BY DEF Pump, Ignores, BeginsToWait, Announces, Lags, Ends, AddressSeen,
           GivesUp
  <2>2. QED
    BY <2>1 DEF NewsNotLost, MemberNews
<1> heard' = heard
  BY DEF Pump, Ignores, BeginsToWait, Announces, Lags, Ends, AddressSeen, GivesUp
<1>1. /\ head \in Nat /\ seen \in Nat /\ Len(sent) \in Nat
  BY DEF PumpInv, TypeOK
<1>2. ASSUME k \in (seen + 1)..(head - 1)
      PROVE  pc = "wait" \/ ReadAhead
  BY <1>2 DEF NewsNotLost
<1>3. ASSUME Takes
      PROVE  k \in (seen + 1)..(head - 1) \/ k = head
  BY <1>1, <1>3 DEF Takes
<1>4. ASSUME sent' = sent, ReadAhead PROVE ReadAhead'
  BY <1>4, <1>1, ReadStaysAhead
<1>5. CASE Ignores
  <2>1. Takes /\ pc = "recv" /\ sent' = sent
    BY <1>5 DEF Ignores, Takes
  <2>2. k # head
    BY <1>5 DEF Ignores, Filtered, MemberNews, Nothing
  <2>3. QED
    BY <2>1, <2>2, <1>2, <1>3, <1>4
<1>6. CASE BeginsToWait
  BY <1>6 DEF BeginsToWait
<1>7. CASE Announces
  <2>1. Takes /\ pc = "recv" /\ Say(Translated(bus[head]))
    BY <1>7 DEF Announces, Takes
  <2>2. sent' = Append(sent, Translated(bus[head]))
    BY <2>1 DEF Say
  <2>3. CASE k = head
    BY <2>2, <2>3, SayingPutsARead DEF MemberNews
  <2>4. CASE k \in (seen + 1)..(head - 1)
    <3>1. ReadAhead
      BY <2>1, <2>4, <1>2
    <3>2. bus[head] \in BusEvent
      BY <2>1 DEF Takes, Behind, PumpInv, TypeOK
    <3>3. Translated(bus[head]) \in EventKinds
      BY <3>2, <1>7, Translation DEF Announces
    <3>4. QED
      BY <3>1, <3>3, <2>1, SayTypes, ReadStaysAhead DEF PumpInv
  <2>5. QED
    BY <2>1, <2>3, <2>4, <1>3
<1>8. CASE Lags
  BY <1>8, SayingPutsARead DEF Lags
<1>9. CASE Ends
  BY <1>9, <1>2, <1>4 DEF Ends
<1>10. CASE AddressSeen \/ GivesUp
  <2>1. Say("peers_changed")
    BY <1>10 DEF AddressSeen, GivesUp
  <2>2. QED
    BY <2>1, SayingPutsARead DEF Say
<1>11. QED
  BY <1>5, <1>6, <1>7, <1>8, <1>9, <1>10 DEF Pump

(* Hearing anything else leaves the reads that are ahead where they are.    *)
LEMMA HearingKeepsReads ==
    ASSUME PumpInv, DaemonHears, sent[heard + 1] # "peers_changed", ReadAhead
    PROVE  ReadAhead'
<1>1. heard \in 0..Len(sent) /\ Len(sent) \in Nat
  BY DEF PumpInv, TypeOK
<1>2. heard' = heard + 1 /\ sent' = sent
  BY DEF DaemonHears
<1>3. PICK i \in (heard + 1)..Len(sent) : sent[i] = "peers_changed"
  BY DEF ReadAhead
<1>4. i # heard + 1
  BY <1>3
<1>5. i \in (heard' + 1)..Len(sent')
  BY <1>1, <1>2, <1>3, <1>4
<1>6. QED
  BY <1>2, <1>3, <1>5 DEF ReadAhead

LEMMA DaemonLosesNothing ==
    ASSUME PumpInv, NewsNotLost, DaemonHears PROVE NewsNotLost'
<1>1. /\ heard \in 0..Len(sent) /\ Len(sent) \in Nat /\ Len(bus) \in Nat
      /\ head \in 1..(Len(bus) + 1)
  BY DEF PumpInv, TypeOK
<1>2. /\ heard' = heard + 1
      /\ UNCHANGED <<solo, outOpen, bus, head, pc, sent>>
  BY DEF DaemonHears
<1>3. CASE sent[heard + 1] = "peers_changed"
  <2>1. seen' = Len(bus)
    BY <1>3 DEF DaemonHears
  <2>2. \A k \in (seen' + 1)..(head' - 1) : FALSE
    BY <1>1, <1>2, <2>1
  <2>3. QED
    BY <2>2 DEF NewsNotLost
<1>4. CASE sent[heard + 1] # "peers_changed"
  <2>1. seen' = seen
    BY <1>4 DEF DaemonHears
  <2>2. ReadAhead => ReadAhead'
    BY <1>4, HearingKeepsReads
  <2>3. QED
    BY <1>2, <2>1, <2>2 DEF NewsNotLost, MemberNews
<1>5. QED
  BY <1>3, <1>4

LEMMA InstanceLosesNothing ==
    ASSUME PumpInv, NewsNotLost, Instance PROVE NewsNotLost'
<1>1. /\ UNCHANGED <<outOpen, solo, head, pc, sent, heard, seen>>
      /\ \A k \in 1..Len(bus) : bus'[k] = bus[k]
  BY InstanceTypes
<1>2. head \in 1..(Len(bus) + 1) /\ Len(bus) \in Nat /\ seen \in Nat
  BY DEF PumpInv, TypeOK
<1>3. ASSUME NEW k \in (seen + 1)..(head - 1) PROVE bus'[k] = bus[k]
  BY <1>1, <1>2
<1>4. ReadAhead' <=> ReadAhead
  BY <1>1 DEF ReadAhead
<1>5. QED
  BY <1>1, <1>3, <1>4 DEF NewsNotLost, MemberNews

(* No news of a member is ever lost (engine.rs: pump): whatever the room's  *)
(* bus told of its members since the daemon's last re-read is still to be   *)
(* taken, waited for, or said and not yet heard, however far the pump fell  *)
(* behind.                                                                  *)
THEOREM NewsIsNeverLost == Spec => []NewsNotLost
<1>1. Init => NewsNotLost
  BY DEF Init, NewsNotLost
<1>2. PumpInv /\ NewsNotLost /\ [Next]_vars => NewsNotLost'
  <2> SUFFICES ASSUME PumpInv, NewsNotLost, [Next]_vars PROVE NewsNotLost'
    OBVIOUS
  <2>1. CASE OutCloses
    BY <2>1 DEF OutCloses, NewsNotLost
  <2>2. CASE UNCHANGED vars
    BY <2>2 DEF vars, NewsNotLost, MemberNews, ReadAhead
  <2>3. QED
    BY <2>1, <2>2, InstanceLosesNothing, PumpLosesNothing,
       DaemonLosesNothing DEF Next
<1>3. QED
  BY <1>1, <1>2, PumpInvAlways, PTL DEF Spec

-----------------------------------------------------------------------------
(* The lobby's pump says one thing only, even when it lags, and so the list *)
(* the firewall is opened for never comes from it (engine.rs: pump,         *)
(* solo_adaptador).                                                         *)
THEOREM LobbyIsSilent == Spec => []LobbyLeaksNothing
<1>1. Init => LobbyLeaksNothing
  BY DEF Init, LobbyLeaksNothing
<1>2. PumpInv /\ LobbyLeaksNothing /\ [Next]_vars => LobbyLeaksNothing'
  <2> SUFFICES ASSUME PumpInv, LobbyLeaksNothing, [Next]_vars, solo'
               PROVE  /\ \A i \in 1..Len(sent') : sent'[i] = "disconnected"
                      /\ known' = {}
    BY DEF LobbyLeaksNothing
  <2>1. solo
    BY InstanceTypes DEF Next, vars, OutCloses, DaemonHears, Pump, Ignores,
       BeginsToWait, Announces, Lags, Ends, AddressSeen, GivesUp
  <2>2. /\ \A i \in 1..Len(sent) : sent[i] = "disconnected"
        /\ known = {} /\ ~api /\ pc # "wait"
        /\ sent \in Seq(EventKinds) /\ Len(sent) \in Nat
    BY <2>1 DEF LobbyLeaksNothing, PumpInv, TypeOK
  <2>3. CASE sent' = sent /\ known' = known
    BY <2>2, <2>3
  <2>4. CASE Announces
    <3>1. bus[head].kind = "TunDeviceError" /\ bus[head] \in BusEvent
      BY <2>1, <2>4 DEF Announces, Takes, Filtered, Behind, PumpInv, TypeOK
    <3>2. Say("disconnected") /\ known' = known
      BY <3>1, <2>4, Translation DEF Announces
    <3>3. sent' = sent \/ sent' = Append(sent, "disconnected")
      BY <3>2 DEF Say
    <3>4. QED
      BY <2>2, <3>2, <3>3
  <2>5. CASE DaemonHears
    <3>1. heard + 1 \in 1..Len(sent)
      BY <2>5 DEF DaemonHears, PumpInv, TypeOK
    <3>2. sent[heard + 1] # "peers_changed"
      BY <2>2, <3>1
    <3>3. sent' = sent /\ known' = known
      BY <2>5, <3>2 DEF DaemonHears
    <3>4. QED
      BY <2>2, <3>3
  <2>6. Instance \/ OutCloses \/ UNCHANGED vars => sent' = sent /\ known' = known
    BY InstanceTypes DEF OutCloses, vars
  <2>7. CASE Pump
    BY <2>1, <2>2, <2>3, <2>4, <2>7 DEF Pump, Ignores, BeginsToWait, Lags,
       Ends, AddressSeen, GivesUp
  <2>8. QED
    BY <2>3, <2>5, <2>6, <2>7 DEF Next
<1>3. QED
  BY <1>1, <1>2, PumpInvAlways, PTL DEF Spec

(* Falling behind never ends the pump (engine.rs: pump, the Lagged arm): it *)
(* ends with the instance, or once nobody is left to write.                 *)
THEOREM LagNeverEndsPump == Spec => []PumpOutlivesLag
<1>1. Init => PumpOutlivesLag
  BY DEF Init, PumpOutlivesLag
<1>2. PumpInv /\ PumpOutlivesLag /\ [Next]_vars => PumpOutlivesLag'
  <2> SUFFICES ASSUME PumpInv, PumpOutlivesLag, [Next]_vars
               PROVE  PumpOutlivesLag'
    OBVIOUS
  <2>1. CASE Pump
    <3>1. ASSUME NEW kind, Say(kind), outOpen' = outOpen
          PROVE  PumpOutlivesLag'
      BY <3>1 DEF Say, PumpOutlivesLag
    <3>2. CASE Announces
      BY <3>1, <3>2 DEF Announces
    <3>3. CASE AddressSeen \/ GivesUp
      BY <3>1, <3>3 DEF AddressSeen, GivesUp
    <3>4. CASE Ignores \/ Lags
      BY <3>4 DEF Ignores, Takes, Lags, PumpOutlivesLag
    <3>5. CASE BeginsToWait
      BY <3>5 DEF BeginsToWait, PumpOutlivesLag
    <3>6. CASE Ends
      BY <3>6 DEF Ends, PumpOutlivesLag, Behind
    <3>7. QED
      BY <2>1, <3>2, <3>3, <3>4, <3>5, <3>6 DEF Pump
  <2>2. CASE Instance
    <3>1. UNCHANGED <<outOpen, head, pc>>
      BY <2>2, InstanceTypes
    <3>2. CASE busOpen /\ outOpen
      BY <3>1, <3>2 DEF PumpOutlivesLag
    <3>3. CASE ~busOpen
      BY <2>2, <3>3 DEF Instance, Joins, Reconnects, Resolves, Withdraws,
         Reports, Publish, BusCloses
    <3>4. QED
      BY <3>1, <3>2, <3>3 DEF PumpOutlivesLag
  <2>3. CASE OutCloses
    BY <2>3 DEF OutCloses, PumpOutlivesLag
  <2>4. CASE DaemonHears \/ UNCHANGED vars
    BY <2>4 DEF DaemonHears, vars, PumpOutlivesLag, Behind
  <2>5. QED
    BY <2>1, <2>2, <2>3, <2>4 DEF Next
<1>3. QED
  BY <1>1, <1>2, PumpInvAlways, PTL DEF Spec

-----------------------------------------------------------------------------
(***************************************************************************)
(* Nobody is locked out, under the three conditions the code bets on: the  *)
(* bus keeps up, the pump has a service to poll, routes converge in time.  *)
(* Each is needed: the violation runs drop one.  The invariant is that a   *)
(* route still without an address has its join ahead of the pump, or being *)
(* waited for.                                                             *)
(***************************************************************************)
KeepsUp ==
    /\ MaxNews <= BusCap
    /\ ApiChoices \subseteq {TRUE}
    /\ ConvergesInTime = TRUE

JoinAhead(p) ==
    \E k \in head..Len(bus) : bus[k].kind \in Joining /\ bus[k].peer = p

JoinPending ==
    /\ ~solo => api
    /\ ~solo /\ outOpen /\ busOpen =>
          \A p \in Peers \ Seeds : route[p] = "bare" =>
              (pc = "wait" /\ Awaited = p) \/ JoinAhead(p)

LEMMA JoinPendingInit ==
    ASSUME KeepsUp, Init PROVE JoinPending /\ NobodyLockedOut
<1>1. ~solo => api
  BY DEF KeepsUp, Init
<1>2. Listed = {} /\ \A p \in Peers : route[p] # "bare"
  BY DEF Init, Listed
<1>3. QED
  BY <1>1, <1>2 DEF JoinPending, NobodyLockedOut

LEMMA JoinPendingInstance ==
    ASSUME PumpInv, JoinPending, Instance PROVE JoinPending'
<1>1. /\ UNCHANGED <<outOpen, solo, api, head, pc>>
      /\ Len(bus) <= Len(bus')
      /\ \A k \in 1..Len(bus) : bus'[k] = bus[k]
  BY InstanceTypes
<1>2. /\ head \in 1..(Len(bus) + 1) /\ Len(bus) \in Nat /\ Len(bus') \in Nat
      /\ pc = "wait" => head > 1
  BY InstanceTypes DEF PumpInv, TypeOK
<1>3. pc = "wait" => Awaited' = Awaited
  <2>1. pc = "wait" => head - 1 \in 1..Len(bus)
    BY <1>2
  <2>2. QED
    BY <1>1, <2>1 DEF Awaited
<1>4. ASSUME NEW p \in Peers, JoinAhead(p) PROVE JoinAhead(p)'
  <2>1. PICK k \in head..Len(bus) : bus[k].kind \in Joining /\ bus[k].peer = p
    BY <1>4 DEF JoinAhead
  <2>2. k \in 1..Len(bus) /\ k \in head'..Len(bus')
    BY <1>1, <1>2, <2>1
  <2>3. QED
    BY <1>1, <2>1, <2>2 DEF JoinAhead
<1>5. ASSUME ~solo, outOpen, busOpen, NEW p \in Peers \ Seeds,
             route[p] = "bare"
      PROVE  (pc' = "wait" /\ Awaited' = p) \/ JoinAhead(p)'
  BY <1>1, <1>3, <1>4, <1>5 DEF JoinPending
<1>6. ASSUME NEW p \in Peers, Joins(p)
      PROVE  JoinAhead(p)' /\ \A q \in Peers \ {p} : route'[q] = route[q]
  <2>1. PICK k \in Joining : Publish([kind |-> k, peer |-> p])
    BY <1>6 DEF Joins
  <2>2. bus' = Append(bus, [kind |-> k, peer |-> p])
    BY <2>1 DEF Publish
  <2>3. /\ Len(bus') = Len(bus) + 1
        /\ bus'[Len(bus')] = [kind |-> k, peer |-> p]
    BY <2>2 DEF PumpInv, TypeOK
  <2>4. Len(bus') \in head'..Len(bus')
    BY <1>1, <1>2, <2>3
  <2>5. JoinAhead(p)'
    BY <2>1, <2>3, <2>4 DEF JoinAhead
  <2>6. QED
    BY <1>6, <2>5 DEF Joins, PumpInv, TypeOK
<1>7. busOpen' => busOpen
  BY DEF Instance, Joins, Reconnects, Resolves, Withdraws, Reports, Publish,
         BusCloses
<1>8. ASSUME NEW p \in Peers, route'[p] = "bare", ~JoinAhead(p)'
      PROVE  route[p] = "bare"
  <2>1. CASE route' = route
    BY <1>8, <2>1
  <2>2. ASSUME NEW q \in Peers, Resolves(q) \/ Withdraws(q)
        PROVE  route[p] = "bare"
    BY <1>8, <2>2 DEF Resolves, Withdraws, PumpInv, TypeOK
  <2>3. ASSUME NEW q \in Peers, Joins(q) PROVE route[p] = "bare"
    BY <1>6, <1>8, <2>3
  <2>4. QED
    BY <2>1, <2>2, <2>3 DEF Instance, Reconnects, Reports, BusCloses
<1>9. QED
  BY <1>1, <1>5, <1>7, <1>8 DEF JoinPending

LEMMA JoinPendingPump ==
    ASSUME KeepsUp, PumpInv, JoinPending, Pump PROVE JoinPending'
<1>1. UNCHANGED others
  BY DEF Pump, Ignores, BeginsToWait, Announces, Lags, Ends, AddressSeen, GivesUp
<1> SUFFICES ASSUME ~solo, api, outOpen, busOpen, NEW p \in Peers \ Seeds,
                    route[p] = "bare"
             PROVE  (pc' = "wait" /\ Awaited' = p) \/ JoinAhead(p)'
  BY <1>1 DEF JoinPending
<1>2. (pc = "wait" /\ Awaited = p) \/ JoinAhead(p)
  BY DEF JoinPending
<1>3. head \in 1..(Len(bus) + 1) /\ Len(bus) \in Nat /\ Len(bus) <= MaxNews
  BY DEF PumpInv, TypeOK
<1>4. ASSUME Takes, JoinAhead(p),
             bus[head].kind \notin Joining \/ bus[head].peer # p
      PROVE  JoinAhead(p)'
  <2>1. PICK k \in head..Len(bus) : bus[k].kind \in Joining /\ bus[k].peer = p
    BY <1>4 DEF JoinAhead
  <2>2. k \in head'..Len(bus)
    BY <1>3, <1>4, <2>1 DEF Takes
  <2>3. QED
    BY <1>1, <2>1, <2>2 DEF JoinAhead
<1>5. ASSUME Takes PROVE bus[head] \in BusEvent /\ JoinAhead(p)
  BY <1>2, <1>5 DEF Takes, Behind, PumpInv, TypeOK
<1>6. CASE Ignores
  <2>1. bus[head].kind \notin Joining
    BY <1>5, <1>6, Translation DEF Ignores, Filtered, Nothing
  <2>2. QED
    BY <1>4, <1>5, <1>6, <2>1 DEF Ignores
<1>7. CASE BeginsToWait
  <2>1. CASE bus[head].peer = p
    <3>1. head' - 1 = head /\ pc' = "wait" /\ bus' = bus
      BY <1>1, <1>3, <1>7 DEF BeginsToWait, Takes
    <3>2. QED
      BY <2>1, <3>1 DEF Awaited
  <2>2. CASE bus[head].peer # p
    BY <1>4, <1>5, <1>7, <2>2 DEF BeginsToWait
  <2>3. QED
    BY <2>1, <2>2
<1>8. CASE Announces
  BY <1>4, <1>5, <1>8 DEF Announces, Waits
<1>9. CASE Lags
  BY <1>3, <1>9, BoundsAssumption DEF Lags, Lagged, Behind, KeepsUp
<1>10. CASE Ends
  BY <1>10 DEF Ends
<1>11. CASE AddressSeen \/ GivesUp
  <2>1. Awaited # p
    BY <1>11 DEF AddressSeen, GivesUp, KeepsUp
  <2>2. head' = head /\ bus' = bus
    BY <1>1, <1>11 DEF AddressSeen, GivesUp
  <2>3. QED
    BY <1>2, <2>1, <2>2 DEF JoinAhead
<1>12. QED
  BY <1>6, <1>7, <1>8, <1>9, <1>10, <1>11 DEF Pump

NewsAhead == \E k \in head..Len(bus) : MemberNews(bus[k])

LEMMA LockoutInstance ==
    ASSUME PumpInv, JoinPending, NobodyLockedOut, Instance
    PROVE  NobodyLockedOut'
<1>1. /\ UNCHANGED <<outOpen, solo, head, pc, sent, heard, known>>
      /\ Len(bus) <= Len(bus')
      /\ \A k \in 1..Len(bus) : bus'[k] = bus[k]
  BY InstanceTypes
<1>2. head \in 1..(Len(bus) + 1) /\ Len(bus) \in Nat /\ Len(bus') \in Nat
  BY InstanceTypes DEF PumpInv, TypeOK
<1>3. NewsAhead => NewsAhead'
  <2>1. ASSUME NEW k \in head..Len(bus)
        PROVE  k \in head'..Len(bus') /\ bus'[k] = bus[k]
    BY <1>1, <1>2
  <2>2. QED
    BY <2>1 DEF NewsAhead, MemberNews
<1>4. ReadAhead => ReadAhead'
  BY <1>1 DEF ReadAhead
<1>5. ASSUME NEW p \in Peers, Resolves(p), ~solo, outOpen
      PROVE  pc = "wait" \/ NewsAhead
  <2>1. pc = "wait" \/ JoinAhead(p)
    BY <1>5 DEF Resolves, JoinPending
  <2>2. JoinAhead(p) => NewsAhead
    <3>1. \A k \in head..Len(bus) : bus[k] \in BusEvent
      BY <1>2 DEF PumpInv, TypeOK
    <3>2. QED
      BY <3>1, Translation DEF JoinAhead, NewsAhead, MemberNews
  <2>3. QED
    BY <2>1, <2>2
<1>6. ASSUME ~ \E p \in Peers : Resolves(p) PROVE Listed' \subseteq Listed
  BY <1>6 DEF Instance, Joins, Reconnects, Withdraws, Reports, BusCloses,
              Listed, PumpInv, TypeOK
<1>7. QED
  BY <1>1, <1>3, <1>4, <1>5, <1>6 DEF NobodyLockedOut, NewsAhead

LEMMA LockoutPump ==
    ASSUME PumpInv, NobodyLockedOut, Pump PROVE NobodyLockedOut'
<1>1. UNCHANGED others
  BY DEF Pump, Ignores, BeginsToWait, Announces, Lags, Ends, AddressSeen, GivesUp
<1> SUFFICES ASSUME ~solo, outOpen, pc = "wait" \/ ReadAhead \/ NewsAhead
             PROVE  pc' = "wait" \/ ReadAhead' \/ NewsAhead'
  BY <1>1 DEF NobodyLockedOut, NewsAhead, Listed
<1>2. head \in 1..(Len(bus) + 1) /\ Len(bus) \in Nat /\ Len(sent) \in Nat
  BY DEF PumpInv, TypeOK
<1>3. ASSUME Takes, NewsAhead, ~MemberNews(bus[head]) PROVE NewsAhead'
  <2>1. PICK k \in head..Len(bus) : MemberNews(bus[k])
    BY <1>3 DEF NewsAhead
  <2>2. k \in head'..Len(bus)
    BY <1>2, <1>3, <2>1 DEF Takes
  <2>3. QED
    BY <1>1, <2>1, <2>2 DEF NewsAhead, MemberNews
<1>4. ASSUME sent' = sent, ReadAhead PROVE ReadAhead'
  BY <1>1, <1>2, <1>4, ReadStaysAhead
<1>5. CASE Ignores
  <2>1. ~MemberNews(bus[head]) /\ Takes /\ pc = "recv" /\ sent' = sent
    BY <1>5 DEF Ignores, Takes, Filtered, MemberNews, Nothing
  <2>2. QED
    BY <1>3, <1>4, <2>1
<1>6. CASE BeginsToWait
  BY <1>6 DEF BeginsToWait
<1>7. CASE Announces
  <2>1. Takes /\ pc = "recv" /\ Say(Translated(bus[head]))
    BY <1>7 DEF Announces, Takes
  <2>2. CASE MemberNews(bus[head])
    BY <1>1, <2>1, <2>2, SayingPutsARead DEF Say, MemberNews
  <2>3. CASE ~MemberNews(bus[head])
    <3>1. bus[head] \in BusEvent
      BY <2>1 DEF Takes, Behind, PumpInv, TypeOK
    <3>2. Translated(bus[head]) \in EventKinds
      BY <1>7, <3>1, Translation DEF Announces
    <3>3. ReadAhead => ReadAhead'
      BY <1>1, <2>1, <3>2, SayTypes, ReadStaysAhead DEF PumpInv
    <3>4. QED
      BY <1>3, <2>1, <2>3, <3>3
  <2>4. QED
    BY <2>2, <2>3
<1>8. CASE Lags
  BY <1>1, <1>8, SayingPutsARead DEF Lags
<1>9. CASE Ends
  BY <1>1, <1>4, <1>9 DEF Ends, NewsAhead, MemberNews
<1>10. CASE AddressSeen \/ GivesUp
  <2>1. Say("peers_changed")
    BY <1>10 DEF AddressSeen, GivesUp
  <2>2. QED
    BY <1>1, <2>1, SayingPutsARead DEF Say
<1>11. QED
  BY <1>5, <1>6, <1>7, <1>8, <1>9, <1>10 DEF Pump

LEMMA LockoutDaemon ==
    ASSUME PumpInv, NobodyLockedOut, DaemonHears PROVE NobodyLockedOut'
<1>1. UNCHANGED <<solo, outOpen, route, bus, head, pc>>
  BY DEF DaemonHears
<1>2. CASE sent[heard + 1] = "peers_changed"
  BY <1>1, <1>2 DEF DaemonHears, NobodyLockedOut, Listed
<1>3. CASE sent[heard + 1] # "peers_changed"
  <2>1. known' = known /\ (ReadAhead => ReadAhead')
    BY <1>3, HearingKeepsReads DEF DaemonHears
  <2>2. QED
    BY <1>1, <2>1 DEF NobodyLockedOut, Listed, MemberNews
<1>4. QED
  BY <1>2, <1>3

LEMMA LockoutStep ==
    ASSUME KeepsUp, PumpInv, JoinPending, NobodyLockedOut, [Next]_vars
    PROVE  JoinPending' /\ NobodyLockedOut'
<1>1. CASE OutCloses
  BY <1>1 DEF OutCloses, JoinPending, NobodyLockedOut
<1>2. CASE DaemonHears
  BY <1>2, LockoutDaemon DEF DaemonHears, JoinPending, JoinAhead, Awaited
<1>3. CASE UNCHANGED vars
  BY <1>3 DEF vars, JoinPending, JoinAhead, Awaited, NobodyLockedOut, Listed,
              MemberNews, ReadAhead
<1>4. QED
  BY <1>1, <1>2, <1>3, JoinPendingInstance, JoinPendingPump, LockoutInstance,
     LockoutPump DEF Next

(* A member whose route carries an address is on the daemon's list, or the  *)
(* re-read that will find it is on its way, as long as the bus keeps up,    *)
(* the pump has a service to poll and routes converge within                *)
(* ESPERA_DE_RUTA (engine.rs: pump, esperar_direccion).                     *)
THEOREM NobodyIsLockedOut ==
    ASSUME KeepsUp PROVE Spec => []NobodyLockedOut
<1>1. Init => JoinPending /\ NobodyLockedOut
  BY JoinPendingInit
<1>2. PumpInv /\ JoinPending /\ NobodyLockedOut /\ [Next]_vars
         => JoinPending' /\ NobodyLockedOut'
  BY LockoutStep
<1>3. QED
  BY <1>1, <1>2, PumpInvAlways, PTL DEF Spec

-----------------------------------------------------------------------------
(***************************************************************************)
(* The adapter's fate.  Both counts grow by one in the same step, or by    *)
(* none: what is said is of the event just taken, if nothing was dropped.  *)
(***************************************************************************)
Counts == Cardinality(Said) = Cardinality(Failures(head - 1))

LEMMA SetsAreFinite ==
  ASSUME TypeOK
  PROVE  IsFiniteSet(Said) /\ \A n \in Nat : IsFiniteSet(Failures(n))
  <1>1. \A n \in Nat : IsFiniteSet(1..n)
    BY FS_Interval
  <1>2. Len(sent) \in Nat /\ Said \in SUBSET (1..Len(sent))
    BY DEF TypeOK, Said
  <1>3. \A n \in Nat : Failures(n) \in SUBSET (1..n)
    BY DEF Failures
  <1> QED  BY <1>1, <1>2, <1>3, FS_Subset

LEMMA SayingCounts ==
  ASSUME TypeOK, NEW kind \in EventKinds, Say(kind), outOpen
  PROVE  Cardinality(Said)' = Cardinality(Said) + (IF kind = "disconnected" THEN 1 ELSE 0)
  <1>1. /\ Len(sent') = Len(sent) + 1 /\ sent'[Len(sent) + 1] = kind /\ Len(sent) \in Nat
        /\ \A i \in 1..Len(sent) : sent'[i] = sent[i]
    BY SayTypes DEF TypeOK
  <1>2. CASE kind = "disconnected"
    <2>1. Said' = Said \cup {Len(sent) + 1} /\ Len(sent) + 1 \notin Said
      BY <1>1, <1>2 DEF Said
    <2>2. Cardinality(Said \cup {Len(sent) + 1}) = Cardinality(Said) + 1
      BY <2>1, SetsAreFinite, FS_AddElement
    <2> QED  BY <1>2, <2>1, <2>2
  <1>3. CASE kind # "disconnected"
    <2>1. Said' = Said
      BY <1>1, <1>3 DEF Said
    <2>2. Cardinality(Said) \in Nat
      BY SetsAreFinite, FS_CardinalityType
    <2> QED  BY <1>3, <2>1, <2>2
  <1> QED  BY <1>2, <1>3

LEMMA TakingCounts ==
  ASSUME TypeOK, Takes, UNCHANGED bus
  PROVE  Cardinality(Failures(head - 1))' = Cardinality(Failures(head - 1))
            + (IF bus[head].kind = "TunDeviceError" THEN 1 ELSE 0)
  <1>1. head \in Nat /\ head >= 1 /\ head' = head + 1 /\ bus' = bus
    BY DEF TypeOK, Takes
  <1>2. IsFiniteSet(Failures(head - 1))
    BY <1>1, SetsAreFinite
  <1>3. CASE bus[head].kind = "TunDeviceError"
    <2>1. Failures(head - 1)' = Failures(head - 1) \cup {head} /\ head \notin Failures(head - 1)
      BY <1>1, <1>3 DEF Failures
    <2>2. Cardinality(Failures(head - 1) \cup {head}) = Cardinality(Failures(head - 1)) + 1
      BY <1>2, <2>1, FS_AddElement
    <2> QED  BY <1>3, <2>1, <2>2
  <1>4. CASE bus[head].kind # "TunDeviceError"
    <2>1. Failures(head - 1)' = Failures(head - 1)
      BY <1>1, <1>4 DEF Failures
    <2>2. Cardinality(Failures(head - 1)) \in Nat
      BY <1>2, FS_CardinalityType
    <2> QED  BY <1>4, <2>1, <2>2
  <1> QED  BY <1>3, <1>4

(* A channel that is closed is not opened again. *)
LEMMA ClosedStaysClosed == [Next]_vars /\ outOpen' => outOpen
  <1> SUFFICES ASSUME [Next]_vars, outOpen' PROVE outOpen
    OBVIOUS
  <1>1. CASE Instance
    BY <1>1 DEF Instance, Joins, Reconnects, Resolves, Withdraws, Reports, BusCloses, Publish
  <1>2. CASE Ignores \/ BeginsToWait \/ Announces
    BY <1>2 DEF Ignores, BeginsToWait, Announces
  <1>3. CASE Lags \/ Ends
    BY <1>3 DEF Lags, Ends
  <1>4. CASE AddressSeen \/ GivesUp
    BY <1>4 DEF AddressSeen, GivesUp
  <1>5. CASE OutCloses \/ DaemonHears \/ UNCHANGED vars
    BY <1>5 DEF OutCloses, DaemonHears, vars
  <1> QED  BY <1>1, <1>2, <1>3, <1>4, <1>5 DEF Next, Pump

LEMMA CountsStep ==
  ASSUME MaxNews <= BusCap, PumpInv, outOpen => Counts, [Next]_vars
  PROVE  (outOpen => Counts)'
  <1> SUFFICES ASSUME outOpen' PROVE Counts'
    OBVIOUS
  <1>t. /\ TypeOK /\ head \in 1..(Len(bus) + 1) /\ Len(bus) \in Nat /\ Len(bus) <= MaxNews
        /\ BusCap \in Nat /\ MaxNews \in Nat
    BY BoundsAssumption DEF PumpInv, TypeOK
  <1>1. outOpen
    BY ClosedStaysClosed
  <1>2. Counts
    BY <1>1
  <1>3. Cardinality(Said) \in Nat /\ Cardinality(Failures(head - 1)) \in Nat
    <2>1. TypeOK /\ head - 1 \in Nat
      BY <1>t
    <2>2. IsFiniteSet(Said) /\ IsFiniteSet(Failures(head - 1))
      BY <2>1, SetsAreFinite
    <2> QED  BY <2>2, FS_CardinalityType
  <1>4. CASE UNCHANGED <<sent, head, bus>>
    BY <1>2, <1>4 DEF Counts, Said, Failures
  <1>5. ASSUME NEW ev \in BusEvent, Publish(ev) PROVE Counts'
    <2>1. /\ \A k \in 1..Len(bus) : bus'[k] = bus[k]
          /\ UNCHANGED <<sent, head>>
      BY <1>t, <1>5, PublishTypes DEF Publish
    <2>2. Failures(head - 1)' = Failures(head - 1)
      BY <1>t, <2>1 DEF Failures
    <2> QED  BY <1>2, <2>1, <2>2 DEF Counts, Said
  <1>6. CASE Ignores
    <2>1. bus[head] \in BusEvent /\ bus' = bus /\ sent' = sent
      BY <1>t, <1>6 DEF Ignores, Takes, Behind, TypeOK
    <2>2. bus[head].kind # "TunDeviceError"
      BY <1>6, <2>1, Translation DEF Ignores, Filtered, Nothing
    <2> QED  BY <1>2, <1>3, <1>6, <1>t, <2>1, <2>2, TakingCounts DEF Ignores, Counts, Said
  <1>7. CASE BeginsToWait
    <2>1. bus[head].kind # "TunDeviceError" /\ bus' = bus /\ sent' = sent
      BY <1>7 DEF BeginsToWait, Waits, Joining
    <2> QED  BY <1>2, <1>3, <1>7, <1>t, <2>1, TakingCounts DEF BeginsToWait, Counts, Said
  <1>8. CASE Announces
    <2>1. bus[head] \in BusEvent /\ bus' = bus
      BY <1>t, <1>8 DEF Announces, Takes, Behind, TypeOK
    <2>2. /\ Translated(bus[head]) \in EventKinds
          /\ Translated(bus[head]) = "disconnected" <=> bus[head].kind = "TunDeviceError"
      BY <1>8, <2>1, Translation DEF Announces
    <2>3. Say(Translated(bus[head])) /\ Takes
      BY <1>8 DEF Announces
    <2> QED  BY <1>1, <1>2, <1>3, <1>t, <2>1, <2>2, <2>3, TakingCounts, SayingCounts DEF Counts
  <1>9. CASE Lags
    BY <1>t, <1>9 DEF Lags, Lagged, Behind
  <1>10. CASE AddressSeen \/ GivesUp
    <2>1. Say("peers_changed") /\ UNCHANGED <<head, bus>> /\ "peers_changed" \in EventKinds
      BY <1>10 DEF AddressSeen, GivesUp, EventKinds
    <2>2. Cardinality(Said)' = Cardinality(Said)
      BY <1>1, <1>3, <1>t, <2>1, SayingCounts
    <2> QED  BY <1>2, <2>1, <2>2 DEF Counts, Failures
  <1> QED
    <2>1. CASE Instance
      BY <1>4, <1>5, <2>1 DEF Instance, Joins, Reconnects, Resolves, Withdraws, Reports,
           BusCloses, BusEvent, Joining, Leaving, PumpTypes
    <2> QED
      BY <1>4, <1>6, <1>7, <1>8, <1>9, <1>10, <2>1
         DEF Next, Pump, OutCloses, DaemonHears, Ends, vars

(* If the bus keeps up, every adapter failure is said exactly once, in the  *)
(* room and in the lobby alike (engine.rs: pump, "the one fact the daemon   *)
(* cannot get any other way").                                              *)
THEOREM AdapterFateIsReported ==
    ASSUME MaxNews <= BusCap PROVE Spec => []AdapterFateReported
  <1>1. Init => (outOpen => Counts)
    <2> SUFFICES ASSUME Init PROVE Counts
      OBVIOUS
    <2>1. Said = {} /\ Failures(head - 1) = {}
      BY DEF Init, Said, Failures
    <2> QED  BY <2>1 DEF Counts
  <1>2. PumpInv /\ (outOpen => Counts) /\ [Next]_vars => (outOpen => Counts)'
    BY CountsStep
  <1>3. (outOpen => Counts) => AdapterFateReported
    BY DEF Counts, AdapterFateReported
  <1> QED  BY <1>1, <1>2, <1>3, PumpInvAlways, PTL DEF Spec
=============================================================================
