----------------------------- MODULE EventPump -----------------------------
(***************************************************************************)
(* One event pump (src/src/engine.rs: pump, esperar_direccion), between    *)
(* the instance's event bus and the daemon that re-reads the member list   *)
(* whenever it is told to.                                                 *)
(*                                                                         *)
(* Actors: the instance, which moves routes and publishes on the bus       *)
(* (EasyTier, external); the pump; and the daemon (external).  The writer  *)
(* between pump and daemon keeps order and is Engine's business.           *)
(*                                                                         *)
(* The bus is a tokio broadcast channel: this receiver has a position of   *)
(* its own, and one that falls more than BusCap behind is told so and put  *)
(* at the oldest event still kept.                                         *)
(***************************************************************************)
EXTENDS Integers, Sequences, FiniteSets

CONSTANTS
    Peers,            \* the other nodes of the network
    Seeds,            \* those that never carry an address inside the room
    BusCap,           \* capacity of the broadcast channel
    MaxNews,          \* bound: events the instance ever publishes
    Kinds,            \* bound: the kinds of event it publishes
    SoloChoices,      \* which pumps: solo_adaptador is TRUE in the lobby
    ApiChoices,       \* what self.api().ok() may give a room's pump
    ConvergesInTime   \* do routes get an address within ESPERA_DE_RUTA?

ASSUME PeersAssumption == Seeds \subseteq Peers
ASSUME BoundsAssumption == BusCap \in Nat \ {0} /\ MaxNews \in Nat
ASSUME ChoicesAssumption ==
    /\ SoloChoices \subseteq BOOLEAN
    /\ ApiChoices \subseteq BOOLEAN
    /\ ConvergesInTime \in BOOLEAN

(* The bus's vocabulary, by what pump makes of it. *)
Joining == {"PeerAdded", "PeerConnAdded"}
Leaving == {"PeerRemoved", "PeerConnRemoved"}
Troubles == {"ConnectError", "ConnectionError", "DhcpIpv4Conflicted"}
Changes == {"DhcpIpv4Changed", "CredentialChanged"}
Plain == Troubles \cup Changes
            \cup {"TunDeviceReady", "TunDeviceError", "ListenerAdded"}

AllKinds == Joining \cup Leaving \cup Plain

ASSUME KindsAssumption == Kinds \subseteq AllKinds

BusEvent == [kind : Joining \cup Leaving, peer : Peers] \cup [kind : Plain]

EventKinds == {"connected", "peers_changed", "degraded", "disconnected"}
Nothing == "nothing"

(* The match in pump: what is said of an event, or nothing. *)
Translated(ev) ==
    CASE ev.kind = "TunDeviceReady" -> "connected"
      [] ev.kind = "TunDeviceError" -> "disconnected"
      [] ev.kind \in Joining \cup Leaving \cup Changes -> "peers_changed"
      [] ev.kind \in Troubles -> "degraded"
      [] OTHER -> Nothing

VARIABLES
    solo,       \* solo_adaptador
    api,        \* whether the pump was given the room's RPC service
    route,      \* the instance's route table
    bus,        \* every event published, never consumed
    head,       \* position of the pump's receiver in it
    busOpen,    \* FALSE once the instance is gone
    outOpen,    \* FALSE once the writer task is gone
    pc,         \* the pump: "recv", "wait" (esperar_direccion) or "done"
    sent,       \* what the pump said, never consumed
    heard,      \* how much of it the daemon has taken
    known,      \* the daemon's member list, as of its last re-read
    seen        \* history: how long the bus was at that re-read

routeVars == <<route, bus, busOpen>>
pumpVars == <<solo, api, head, pc, sent>>
daemonVars == <<heard, known, seen>>
others == <<solo, api, route, bus, busOpen, outOpen, heard, known, seen>>
                            \* what no step of the pump touches
vars == <<solo, api, route, bus, head, busOpen, outOpen, pc, sent, heard,
          known, seen>>

TypeOK ==
    /\ solo \in BOOLEAN /\ api \in BOOLEAN
    /\ route \in [Peers -> {"absent", "bare", "addressed"}]
    /\ bus \in Seq(BusEvent)
    /\ head \in 1..(Len(bus) + 1)
    /\ busOpen \in BOOLEAN /\ outOpen \in BOOLEAN
    /\ pc \in {"recv", "wait", "done"}
    /\ pc = "wait" => head > 1 /\ bus[head - 1].kind \in Joining
    /\ sent \in Seq(EventKinds)
    /\ heard \in 0..Len(sent)
    /\ known \in SUBSET Peers
    /\ seen \in 0..Len(bus)

(* Engine::start: the lobby's pump gets no api, the room's gets what there  *)
(* is at that instant.                                                     *)
Init ==
    /\ solo \in SoloChoices
    /\ api \in (IF solo THEN {FALSE} ELSE ApiChoices)
    /\ route = [p \in Peers |-> "absent"]
    /\ bus = <<>> /\ head = 1
    /\ busOpen = TRUE /\ outOpen = TRUE
    /\ pc = "recv"
    /\ sent = <<>> /\ heard = 0
    /\ known = {} /\ seen = 0

(* Engine::peers drops every route with no address. *)
Listed == {p \in Peers : route[p] = "addressed"}

(***************************************************************************)
(* The instance (external).  A connection is announced the moment it comes *)
(* up, and the route to whoever is behind it gets its address later and    *)
(* without an event.  A route may also go without one.                     *)
(***************************************************************************)
Publish(ev) ==
    /\ busOpen /\ Len(bus) < MaxNews /\ ev.kind \in Kinds
    /\ bus' = Append(bus, ev)
    /\ UNCHANGED <<busOpen, outOpen, pumpVars, daemonVars>>

Joins(p) ==
    /\ route[p] = "absent"
    /\ route' = [route EXCEPT ![p] = "bare"]
    /\ \E k \in Joining : Publish([kind |-> k, peer |-> p])

Reconnects(p) ==
    /\ route[p] # "absent"
    /\ \E k \in {"PeerConnAdded"} \cup Leaving : Publish([kind |-> k, peer |-> p])
    /\ UNCHANGED route

Resolves(p) ==
    /\ busOpen /\ route[p] = "bare" /\ p \notin Seeds
    /\ route' = [route EXCEPT ![p] = "addressed"]
    /\ UNCHANGED <<bus, busOpen, outOpen, pumpVars, daemonVars>>

Withdraws(p) ==
    /\ busOpen /\ route[p] # "absent"
    /\ route' = [route EXCEPT ![p] = "absent"]
    /\ UNCHANGED <<bus, busOpen, outOpen, pumpVars, daemonVars>>

Reports(kind) ==
    /\ Publish([kind |-> kind])
    /\ UNCHANGED route

BusCloses ==
    /\ busOpen
    /\ busOpen' = FALSE
    /\ UNCHANGED <<route, bus, outOpen, pumpVars, daemonVars>>

(* The writer task returned: every send from here on is an error. *)
OutCloses ==
    /\ outOpen
    /\ outOpen' = FALSE
    /\ UNCHANGED <<routeVars, pumpVars, daemonVars>>

(***************************************************************************)
(* The pump.                                                               *)
(***************************************************************************)
(* The send at the end of the loop: a closed channel ends the pump. *)
Say(kind) ==
    IF outOpen THEN sent' = Append(sent, kind) /\ pc' = "recv"
               ELSE pc' = "done" /\ UNCHANGED sent

Behind == Len(bus) - head + 1           \* events not yet received
Lagged == Behind > BusCap

Takes == pc = "recv" /\ Behind > 0 /\ ~Lagged /\ head' = head + 1
(* Variants to be caught: the lobby says nothing at all; only PeerAdded waits. *)
FilteredAll(ev) == solo
WaitsForAdded(ev) == api /\ ev.kind = "PeerAdded"

Filtered(ev) == solo /\ ev.kind # "TunDeviceError"
Waits(ev) == api /\ ev.kind \in Joining

(* The lobby's filter, and the kinds that translate to nothing. *)
Ignores ==
    /\ Takes
    /\ Filtered(bus[head]) \/ Translated(bus[head]) = Nothing
    /\ UNCHANGED <<others, pc, sent>>

(* esperar_direccion with an api: the announcement is held back. *)
BeginsToWait ==
    /\ Takes
    /\ ~Filtered(bus[head]) /\ Waits(bus[head])
    /\ pc' = "wait"
    /\ UNCHANGED <<others, sent>>

(* Variant to be caught: a kind that translates to nothing is said as well. *)
AnnouncesAll ==
    /\ Takes
    /\ ~Filtered(bus[head]) /\ ~Waits(bus[head])
    /\ Say(Translated(bus[head]))
    /\ UNCHANGED others

(* Everything else is said at once, a join with no api to ask included. *)
Announces ==
    /\ Takes
    /\ ~Filtered(bus[head]) /\ ~Waits(bus[head])
    /\ Translated(bus[head]) # Nothing
    /\ Say(Translated(bus[head]))
    /\ UNCHANGED others

(* Variants to be caught: falling behind is silent in the room, is said in   *)
(* the lobby, or ends the pump.                                              *)
LagsSilently ==
    /\ pc = "recv" /\ Lagged
    /\ head' = Len(bus) - BusCap + 1
    /\ UNCHANGED <<others, pc, sent>>
LagsAloud ==
    /\ pc = "recv" /\ Lagged
    /\ head' = Len(bus) - BusCap + 1
    /\ sent' = IF outOpen THEN Append(sent, "peers_changed") ELSE sent
    /\ UNCHANGED <<others, pc>>
LagsForGood ==
    /\ pc = "recv" /\ Lagged
    /\ pc' = "done"
    /\ UNCHANGED <<others, head, sent>>

(* RecvError::Lagged: the lobby says nothing, the room says its members     *)
(* changed, and neither minds whether anybody listens.                      *)
Lags ==
    /\ pc = "recv" /\ Lagged
    /\ head' = Len(bus) - BusCap + 1
    /\ sent' = IF ~solo /\ outOpen THEN Append(sent, "peers_changed") ELSE sent
    /\ UNCHANGED <<others, pc>>

(* RecvError::Closed, once everything kept has been received. *)
Ends ==
    /\ pc = "recv" /\ Behind = 0 /\ ~busOpen
    /\ pc' = "done"
    /\ UNCHANGED <<others, head, sent>>

Awaited == bus[head - 1].peer

(* Variant to be caught: any route will do, addressed or not. *)
RouteSeen ==
    /\ pc = "wait" /\ route[Awaited] # "absent"
    /\ Say("peers_changed")
    /\ UNCHANGED <<others, head>>

(* A poll of the route table that finds the address.  One that does not,    *)
(* or fails, changes nothing.                                               *)
AddressSeen ==
    /\ pc = "wait" /\ route[Awaited] = "addressed"
    /\ Say("peers_changed")
    /\ UNCHANGED <<others, head>>

(* Variant to be caught: past the deadline the event is not said. *)
GivesUpSilently ==
    /\ pc = "wait"
    /\ ConvergesInTime =>
          ~(busOpen /\ route[Awaited] = "bare" /\ Awaited \notin Seeds)
    /\ pc' = "recv"
    /\ UNCHANGED <<others, head, sent>>

(* ESPERA_DE_RUTA ran out: said anyway.  With ConvergesInTime that is the   *)
(* fate of seeds, of whoever left again, and of polls that failed.          *)
GivesUp ==
    /\ pc = "wait"
    /\ ConvergesInTime =>
          ~(busOpen /\ route[Awaited] = "bare" /\ Awaited \notin Seeds)
    /\ Say("peers_changed")
    /\ UNCHANGED <<others, head>>

(***************************************************************************)
(* The daemon (external): on peers_changed it asks for the member list.    *)
(***************************************************************************)
DaemonHears ==
    /\ heard < Len(sent)
    /\ heard' = heard + 1
    /\ IF sent[heard + 1] = "peers_changed"
         THEN known' = Listed /\ seen' = Len(bus)
         ELSE UNCHANGED <<known, seen>>
    /\ UNCHANGED <<routeVars, outOpen, pumpVars>>

Instance ==
    \/ \E p \in Peers : Joins(p) \/ Reconnects(p) \/ Resolves(p) \/ Withdraws(p)
    \/ \E kind \in Plain : Reports(kind)
    \/ BusCloses
Pump ==
    \/ Ignores \/ BeginsToWait \/ Announces \/ Lags \/ Ends
    \/ AddressSeen \/ GivesUp

Next == Instance \/ OutCloses \/ Pump \/ DaemonHears

Spec == Init /\ [][Next]_vars

(***************************************************************************)
(* Fairness: the executor polls the pump and its timer, the daemon reads   *)
(* what it is sent, and a member's route converges.  Nothing is assumed of *)
(* what the instance publishes, nor of anything closing.                   *)
(***************************************************************************)
FairSpec ==
    /\ Spec
    /\ WF_vars(Pump)
    /\ WF_vars(DaemonHears)
    /\ \A p \in Peers : WF_vars(Resolves(p))

-----------------------------------------------------------------------------
MemberNews(ev) == Translated(ev) = "peers_changed"

(* A re-read the daemon still owes itself. *)
ReadAhead == \E i \in (heard + 1)..Len(sent) : sent[i] = "peers_changed"

(* No news of a member is ever lost, lag or no lag, api or no api: whatever *)
(* the room published since the daemon's last re-read is still in front of  *)
(* the pump, being waited for, or said and not yet heard ("the state was    *)
(* re-read", engine.rs: pump).                                              *)
NewsNotLost ==
    ~solo /\ outOpen =>
        \A k \in (seen + 1)..(head - 1) :
            MemberNews(bus[k]) => pc = "wait" \/ ReadAhead

(* The lobby's whole vocabulary is ONE event, even when it lags: strangers  *)
(* who hold the invite code never reach the list the firewall opens ports   *)
(* for, and the lobby's readiness never passes for the room's.              *)
LobbyLeaksNothing ==
    solo => /\ \A i \in 1..Len(sent) : sent[i] = "disconnected"
            /\ known = {}

(* Falling behind "must not end the pump": it ends when the instance is     *)
(* gone or when nobody is left to write.                                    *)
PumpOutlivesLag == pc = "done" => ~outOpen \/ (~busOpen /\ Behind = 0)

(* While the bus keeps up, every adapter failure is said exactly once, in   *)
(* the room and in the lobby alike: "the one fact the daemon cannot get any *)
(* other way".                                                              *)
Failures(n) == {k \in 1..n : bus[k].kind = "TunDeviceError"}
Said == {i \in 1..Len(sent) : sent[i] = "disconnected"}
AdapterFateReported ==
    outOpen => Cardinality(Said) = Cardinality(Failures(head - 1))

(* Nobody is locked out: a member whose route carries an address is on the  *)
(* daemon's list, or a re-read that will find it is on its way (engine.rs:  *)
(* esperar_direccion, "three people were locked out of a room").            *)
NobodyLockedOut ==
    ~solo /\ outOpen =>
        \A p \in Listed \ known :
            \/ pc = "wait" \/ ReadAhead
            \/ \E k \in head..Len(bus) : MemberNews(bus[k])

(* The same, as what the daemon gets: whoever stays on the route table with *)
(* an address ends up, and stays, on the list.                              *)
CatchesUp ==
    \A p \in Peers :
        <>[](~solo /\ outOpen /\ p \in Listed) => <>[](p \in known)

(* Every change of the members leads to a re-read after it, however far the *)
(* pump fell behind and however long it had to wait.                        *)
NewsIsHeard ==
    \A k \in 1..MaxNews :
        (~solo /\ k <= Len(bus) /\ MemberNews(bus[k]))
            ~> (seen >= k \/ ~outOpen)
=============================================================================
