----------------------------- MODULE MemberList -----------------------------
(***************************************************************************)
(* One `peers` call (src/src/engine.rs: peers, measured_rtt_ms, as_ms,     *)
(* bare_addr) against a network that keeps moving.  The call awaits four   *)
(* reads in a row, the node, the routes, the connections and the peer      *)
(* center's map, and builds the answer out of what each returned.          *)
(*                                                                         *)
(* The tables are EasyTier's (external): a route, a connection and an edge *)
(* of the center's map each come, go and change on their own.  They are    *)
(* partial functions: what is not in the domain is not in the table.       *)
(***************************************************************************)
EXTENDS Integers

CONSTANTS
    Peers,          \* the other nodes of the network
    Seeds,          \* those that never carry an address inside the room
    Me,             \* this node
    OwnLatencies,   \* microseconds a connection of ours may measure
    FarLatencies,   \* milliseconds the center may have heard of
    MaxInt,         \* i32::MAX
    NoRtt,          \* Option::None of a round trip
    NoList,         \* an answer without a list
    NoAddress,      \* a node that has no address
    MaxChanges      \* bound: changes of the tables in a behaviour

ASSUME PeersAssumption == Seeds \subseteq Peers /\ Me \notin Peers
ASSUME NumbersAssumption ==
    /\ MaxInt \in Nat \ {0}
    /\ OwnLatencies \subseteq Nat
    /\ FarLatencies \subseteq 0..MaxInt

Address == [of : Peers \cup {Me}, prefix : BOOLEAN]
ASSUME NoneAssumption == NoRtt \notin Int /\ NoAddress \notin Address
ASSUME ChangesAssumption == MaxChanges \in Nat

Tables(S, T) == UNION {[D -> T] : D \in SUBSET S}
IsTable(f, S, T) == DOMAIN f \subseteq S /\ f \in [DOMAIN f -> T]
Without(f, x) == [y \in DOMAIN f \ {x} |-> f[y]]
With(f, x, v) == [y \in DOMAIN f \cup {x} |-> IF y = x THEN v ELSE f[y]]

Route == [addr : BOOLEAN, cost : 1..3, hop : Peers]
Entry == [virtual_ip : Address, path : {"direct", "relay"},
          rtt_ms : {NoRtt} \cup (-MaxInt - 1)..MaxInt]
Edges == {e \in Peers \X Peers : e[1] # e[2]}

(* One hop is a tunnel to the node itself; a seed is given no address. *)
RoutesTo(p) ==
    {r \in Route : (r.addr => p \notin Seeds) /\ (r.cost = 1 <=> r.hop = p)}

ASSUME NoListAssumption == NoList \notin Tables(Peers, Entry)

VARIABLES
    node,       \* our node: "unready", "bare" (no address yet) or "addressed"
    routes,     \* the route table
    conns,      \* our own connections that carry a measurement
    center,     \* the center's map: who measured whom
    changes,    \* how many times the tables moved
    pc,         \* the next read of the call, "reply", or "idle"
    mine,       \* the answer's entry for this node, from the first read
    gotRoutes,  \* what the second read returned
    gotConns,   \* what the third returned
    reply,      \* the answer: an entry per member, or NoList
    past        \* history: the tables at every instant of the call

network == <<routes, conns, center>>
callVars == <<pc, mine, gotRoutes, gotConns, reply>>
vars == <<node, network, changes, callVars, past>>

(***************************************************************************)
(* The numbers.                                                            *)
(***************************************************************************)
(* Variant to be caught: wider than the field. *)
Add32Wide(a, b) == a + b

(* An i32 addition of two latencies wraps. *)
Add32(a, b) == IF a + b > MaxInt THEN a + b - 2 * (MaxInt + 1) ELSE a + b

(* as_ms: rounded, saturated by the cast, floored at one. *)
AsMs(us) ==
    LET ms == (us + 500) \div 1000
    IN  IF ms = 0 THEN 1 ELSE IF ms > MaxInt THEN MaxInt ELSE ms

(* mine: the hop has to be on the route table and to carry a measurement. *)
Near(hop, rs, cs) ==
    IF hop \in DOMAIN rs /\ hop \in DOMAIN cs THEN AsMs(cs[hop]) ELSE NoRtt

Floored(ms) == IF ms = 0 THEN 1 ELSE ms

(* Variant to be caught: one direction only. *)
FarOneWay(hop, p, cen) ==
    IF <<hop, p>> \in DOMAIN cen THEN Floored(cen[<<hop, p>>]) ELSE NoRtt

(* theirs: the center's edge, or the same edge the other way round. *)
Far(hop, p, cen) ==
    IF <<hop, p>> \in DOMAIN cen THEN Floored(cen[<<hop, p>>])
    ELSE IF <<p, hop>> \in DOMAIN cen THEN Floored(cen[<<p, hop>>])
    ELSE NoRtt

IsDirect(r) == r.cost <= 1

(* Variant to be caught: the unknown half counts as nothing. *)
MeasuredHalf(p, rs, cs, cen) ==
    LET near == Near(rs[p].hop, rs, cs)
        far == Far(rs[p].hop, p, cen)
    IN  CASE IsDirect(rs[p]) -> Near(p, rs, cs)
          [] rs[p].cost = 2 /\ near # NoRtt -> IF far = NoRtt THEN near ELSE Add32(near, far)
          [] OTHER -> NoRtt

MeasuredRtt(p, rs, cs, cen) ==
    LET near == Near(rs[p].hop, rs, cs)
        far == Far(rs[p].hop, p, cen)
    IN  CASE IsDirect(rs[p]) -> Near(p, rs, cs)
          [] rs[p].cost = 2 /\ near # NoRtt /\ far # NoRtt -> Add32(near, far)
          [] OTHER -> NoRtt

(***************************************************************************)
(* The entries.  An address comes off EasyTier with its prefix.            *)
(***************************************************************************)
BareAddr(a) == IF a = NoAddress THEN a ELSE [a EXCEPT !.prefix = FALSE]
AddressOf(n) == [of |-> n, prefix |-> TRUE]

PathOf(r) == IF IsDirect(r) THEN "direct" ELSE "relay"
Members(rs) == {p \in DOMAIN rs : rs[p].addr}

Entries(rs, cs, cen) ==
    [p \in Members(rs) |-> [virtual_ip |-> BareAddr(AddressOf(p)),
                            path |-> PathOf(rs[p]),
                            rtt_ms |-> MeasuredRtt(p, rs, cs, cen)]]

Init ==
    /\ node \in {"unready", "bare", "addressed"}
    /\ routes \in {rs \in Tables(Peers, Route) : \A p \in DOMAIN rs : rs[p] \in RoutesTo(p)}
    /\ conns \in Tables(Peers, OwnLatencies)
    /\ center \in Tables(Edges, FarLatencies)
    /\ changes = 0
    /\ pc = "idle" /\ mine = NoAddress
    /\ gotRoutes = <<>> /\ gotConns = <<>> /\ reply = NoList
    /\ past = {}

TypeOK ==
    /\ node \in {"unready", "bare", "addressed"}
    /\ IsTable(routes, Peers, Route)
    /\ IsTable(conns, Peers, OwnLatencies)
    /\ IsTable(center, Edges, FarLatencies)
    /\ changes \in 0..MaxChanges
    /\ pc \in {"idle", "node", "routes", "conns", "map", "reply"}
    /\ IsTable(gotRoutes, Peers, Route)
    /\ IsTable(gotConns, Peers, OwnLatencies)
    /\ mine \in Address \cup {NoAddress}
    /\ reply = NoList \/ IsTable(reply, Peers, Entry)

(***************************************************************************)
(* The network (external).                                                 *)
(***************************************************************************)
Now(rs, cs, cen) == [routes |-> rs, conns |-> cs, center |-> cen]
Remembers == past' = IF pc = "idle" THEN past
                                    ELSE past \cup {Now(routes', conns', center')}

Moves ==
    /\ changes < MaxChanges /\ changes' = changes + 1
    /\ Remembers
    /\ UNCHANGED <<node, callVars>>

RouteMoves(p) ==
    /\ \/ p \in DOMAIN routes /\ routes' = Without(routes, p)
       \/ \E r \in RoutesTo(p) : routes' = With(routes, p, r)
    /\ UNCHANGED <<conns, center>> /\ Moves

ConnMoves(p) ==
    /\ \/ p \in DOMAIN conns /\ conns' = Without(conns, p)
       \/ \E us \in OwnLatencies : conns' = With(conns, p, us)
    /\ UNCHANGED <<routes, center>> /\ Moves

CenterMoves(e) ==
    /\ \/ e \in DOMAIN center /\ center' = Without(center, e)
       \/ \E ms \in FarLatencies : center' = With(center, e, ms)
    /\ UNCHANGED <<routes, conns>> /\ Moves

(***************************************************************************)
(* The call.  Each await is one read of one table.                         *)
(***************************************************************************)
Asks ==
    /\ pc = "idle"
    /\ pc' = "node"
    /\ mine' = NoAddress /\ gotRoutes' = <<>> /\ gotConns' = <<>> /\ reply' = NoList
    /\ past' = {Now(routes, conns, center)}
    /\ UNCHANGED <<node, network, changes>>

(* Variant to be caught: the node's address as it comes. *)
ReadsNodeVerbatim ==
    /\ pc = "node" /\ node # "unready"
    /\ mine' = IF node = "bare" THEN NoAddress ELSE AddressOf(Me)
    /\ pc' = "routes"
    /\ UNCHANGED <<node, network, changes, gotRoutes, gotConns, reply, past>>

(* "the engine does not know its own node yet" is GivesUp's. *)
ReadsNode ==
    /\ pc = "node" /\ node # "unready"
    /\ mine' = IF node = "bare" THEN NoAddress ELSE BareAddr(AddressOf(Me))
    /\ pc' = "routes"
    /\ UNCHANGED <<node, network, changes, gotRoutes, gotConns, reply, past>>

ReadsRoutes ==
    /\ pc = "routes"
    /\ gotRoutes' = routes /\ pc' = "conns"
    /\ UNCHANGED <<node, network, changes, mine, gotConns, reply, past>>

ReadsConns ==
    /\ pc = "conns"
    /\ gotConns' = conns /\ pc' = "map"
    /\ UNCHANGED <<node, network, changes, mine, gotRoutes, reply, past>>

(* Variant to be caught: the entries come from a second look at the routes. *)
ReadsMapAndRoutes ==
    /\ pc = "map"
    /\ reply' = Entries(routes, gotConns, center) /\ pc' = "reply"
    /\ UNCHANGED <<node, network, changes, mine, gotRoutes, gotConns, past>>

(* The fourth read, and the loop that builds the answer after it. *)
ReadsMap ==
    /\ pc = "map"
    /\ reply' = Entries(gotRoutes, gotConns, center) /\ pc' = "reply"
    /\ UNCHANGED <<node, network, changes, mine, gotRoutes, gotConns, past>>

(* Any of the reads may fail, and `?` then drops what was gathered. *)
GivesUp ==
    /\ pc \in {"node", "routes", "conns", "map"}
    /\ pc' = "idle"
    /\ UNCHANGED <<node, network, changes, mine, gotRoutes, gotConns, reply, past>>

Answers ==
    /\ pc = "reply"
    /\ pc' = "idle"
    /\ UNCHANGED <<node, network, changes, mine, gotRoutes, gotConns, reply, past>>

Network ==
    \/ \E p \in Peers : RouteMoves(p) \/ ConnMoves(p)
    \/ \E e \in Edges : CenterMoves(e)
Call ==
    \/ Asks \/ ReadsNode \/ ReadsRoutes \/ ReadsConns \/ ReadsMap
    \/ GivesUp \/ Answers

Next == Network \/ Call

Spec == Init /\ [][Next]_vars

-----------------------------------------------------------------------------
(***************************************************************************)
(* Refinement.  The list is in hand from the second read on, and nothing   *)
(* read after it changes who is on it.                                     *)
(***************************************************************************)
PathsOf(rs) == [p \in Members(rs) |-> PathOf(rs[p])]
ListInHand ==
    IF pc \in {"conns", "map"} THEN PathsOf(gotRoutes)
    ELSE IF reply = NoList THEN NoList
    ELSE [p \in DOMAIN reply |-> reply[p].path]

Snapshot == INSTANCE MemberSnapshot WITH
                Paths <- {"direct", "relay"},
                members <- PathsOf(routes),
                call <- CASE pc = "idle" -> "idle"
                          [] pc \in {"node", "routes"} -> "asked"
                          [] OTHER -> "read",
                list <- ListInHand

(* The answer is the membership of ONE instant of the call, whatever moved  *)
(* between its four reads, and a call one of whose reads failed answers     *)
(* nothing (engine.rs: peers).                                              *)
SnapshotSpec == Snapshot!Spec

(***************************************************************************)
(* The numbers, told against what the network measured during the call.    *)
(***************************************************************************)
Rounded(ms, us) ==
    \/ 1000 * ms - us \in -499..500
    \/ us < 500 /\ ms = 1
    \/ us > 1000 * MaxInt /\ ms = MaxInt
Heard(a, b, s) == IF <<a, b>> \in DOMAIN s.center THEN {s.center[<<a, b>>]} ELSE {}

DirectRtt(p, rtt) ==
    \E s \in past : p \in DOMAIN s.conns /\ Rounded(rtt, s.conns[p])
RelayedRtt(p, rtt) ==
    \E r, s, t \in past :
        /\ p \in DOMAIN r.routes /\ r.routes[p].cost = 2
        /\ LET hop == r.routes[p].hop IN
            /\ hop \in DOMAIN s.conns
            /\ \E far \in Heard(hop, p, t) \cup Heard(p, hop, t) :
                  \E near \in 1..MaxInt :
                     /\ Rounded(near, s.conns[hop])
                     /\ LET sum == near + (IF far = 0 THEN 1 ELSE far)
                        IN  rtt = sum \/ sum > MaxInt

(* A round trip on the wire is one that was measured along the member's own *)
(* path while the call ran, and never a sentinel: its connection's for a    *)
(* direct member, the two halves' sum for a relayed one, at least one       *)
(* millisecond each (proto.rs: PeerOut::rtt_ms, engine.rs: measured_rtt_ms). *)
(* Two halves that overflow an i32 together are the exception; one that     *)
(* overflows it alone is told as the most an i32 holds.                     *)
RttIsMeasured ==
    pc = "reply" => \A p \in DOMAIN reply :
        reply[p].rtt_ms # NoRtt =>
            IF reply[p].path = "direct" THEN DirectRtt(p, reply[p].rtt_ms)
                                        ELSE RelayedRtt(p, reply[p].rtt_ms)

(* No round trip is EVIDENCE: at some instant of the call a direct member   *)
(* had no live connection, or a half of a relayed one's path was unknown.   *)
SilenceIsEvidence ==
    pc = "reply" => \A p \in DOMAIN reply :
        reply[p].rtt_ms = NoRtt =>
            IF reply[p].path = "direct"
              THEN \E s \in past : p \notin DOMAIN s.conns
              ELSE \E r, s \in past : p \in DOMAIN r.routes /\
                     LET hop == r.routes[p].hop IN
                     \/ r.routes[p].cost = 3
                     \/ hop \notin DOMAIN s.conns \/ hop \notin DOMAIN s.routes
                     \/ Heard(hop, p, s) \cup Heard(p, hop, s) = {}

(* Every address on the wire is one the daemon's strict parse takes: a      *)
(* prefix on any of them fails the WHOLE list (engine.rs: bare_addr).       *)
DaemonParses ==
    pc = "reply" =>
        /\ mine = NoAddress \/ ~mine.prefix
        /\ \A p \in DOMAIN reply : ~reply[p].virtual_ip.prefix
=============================================================================
