-------------------------- MODULE MemberListProofs --------------------------
(***************************************************************************)
(* What holds of one `peers` call for any number of nodes, any tables, any *)
(* latencies and however often the network moves under it.  MemberList     *)
(* says what the run checks.                                               *)
(***************************************************************************)
EXTENDS MemberList, TLAPS

USE DEF vars, network, callVars

(***************************************************************************)
(* The numbers: what a latency becomes.                                    *)
(***************************************************************************)
Ms == 1..MaxInt

LEMMA Rounding ==
  ASSUME NEW us \in Nat
  PROVE  AsMs(us) \in Ms /\ Rounded(AsMs(us), us)
  <1> DEFINE ms == (us + 500) \div 1000
  <1>1. /\ ms \in Nat /\ 1000 * ms <= us + 500 /\ us + 500 < 1000 * ms + 1000
    OBVIOUS
  <1>n. MaxInt \in Nat /\ MaxInt >= 1
    BY NumbersAssumption
  <1> HIDE DEF ms
  <1>2. CASE ms = 0
    <2>1. AsMs(us) = 1
      BY <1>2 DEF AsMs, ms
    <2> QED  BY <1>1, <1>2, <1>n, <2>1 DEF Rounded, Ms
  <1>3. CASE ms > MaxInt
    <2>1. AsMs(us) = MaxInt
      BY <1>1, <1>n, <1>3 DEF AsMs, ms
    <2>2. us > 1000 * MaxInt \/ 1000 * MaxInt - us \in -499..500
      BY <1>1, <1>n, <1>3
    <2> QED  BY <1>n, <2>1, <2>2 DEF Rounded, Ms
  <1>4. CASE ms # 0 /\ ms <= MaxInt
    <2>1. AsMs(us) = ms
      BY <1>1, <1>n, <1>4 DEF AsMs, ms
    <2>2. 1000 * ms - us \in -499..500
      BY <1>1
    <2> QED  BY <1>1, <1>n, <1>4, <2>1, <2>2 DEF Rounded, Ms
  <1> QED  BY <1>1, <1>n, <1>2, <1>3, <1>4

(* The half of the path this node measures, and the half it has heard of. *)
LEMMA NearIs ==
  ASSUME NEW rs, NEW cs, NEW hop, IsTable(cs, Peers, OwnLatencies)
  PROVE  /\ Near(hop, rs, cs) = NoRtt <=> hop \notin DOMAIN rs \/ hop \notin DOMAIN cs
         /\ Near(hop, rs, cs) # NoRtt =>
              /\ Near(hop, rs, cs) \in Ms
              /\ hop \in DOMAIN cs /\ Rounded(Near(hop, rs, cs), cs[hop])
  <1>1. \A h \in DOMAIN cs : cs[h] \in Nat
    BY NumbersAssumption DEF IsTable
  <1>2. \A h \in DOMAIN cs : AsMs(cs[h]) \in Ms /\ Rounded(AsMs(cs[h]), cs[h])
    BY <1>1, Rounding
  <1>3. \A ms \in Ms : ms # NoRtt
    BY NoneAssumption, NumbersAssumption DEF Ms
  <1>4. CASE hop \in DOMAIN rs /\ hop \in DOMAIN cs
    <2>1. Near(hop, rs, cs) = AsMs(cs[hop])
      BY <1>4 DEF Near
    <2> QED  BY <1>2, <1>3, <1>4, <2>1
  <1>5. CASE hop \notin DOMAIN rs \/ hop \notin DOMAIN cs
    BY <1>5 DEF Near
  <1> QED  BY <1>4, <1>5

LEMMA FarIs ==
  ASSUME NEW hop, NEW p, NEW s, IsTable(s.center, Edges, FarLatencies)
  PROVE  LET heard == Heard(hop, p, s) \cup Heard(p, hop, s)
         IN  /\ Far(hop, p, s.center) = NoRtt <=> heard = {}
             /\ Far(hop, p, s.center) # NoRtt =>
                  /\ Far(hop, p, s.center) \in Ms
                  /\ \E ms \in heard : Far(hop, p, s.center) = Floored(ms)
  <1> DEFINE cen == s.center
  <1>1. \A e \in DOMAIN cen : Floored(cen[e]) \in Ms
    <2>1. \A e \in DOMAIN cen : cen[e] \in FarLatencies
      BY DEF IsTable
    <2>2. \A ms \in FarLatencies : ms \in Int /\ 0 <= ms /\ ms <= MaxInt
      BY NumbersAssumption
    <2>3. \A ms \in FarLatencies : Floored(ms) \in Ms
      BY <2>2, NumbersAssumption DEF Floored, Ms
    <2> QED  BY <2>1, <2>3
  <1>2. \A ms \in Ms : ms # NoRtt
    BY NoneAssumption, NumbersAssumption DEF Ms
  <1>3. CASE <<hop, p>> \in DOMAIN cen
    <2>1. Far(hop, p, cen) = Floored(cen[<<hop, p>>])
      BY <1>3 DEF Far
    <2> QED  BY <1>1, <1>2, <1>3, <2>1 DEF Heard
  <1>4. CASE <<hop, p>> \notin DOMAIN cen /\ <<p, hop>> \in DOMAIN cen
    <2>1. Far(hop, p, cen) = Floored(cen[<<p, hop>>])
      BY <1>4 DEF Far
    <2> QED  BY <1>1, <1>2, <1>4, <2>1 DEF Heard
  <1>5. CASE <<hop, p>> \notin DOMAIN cen /\ <<p, hop>> \notin DOMAIN cen
    <2>1. Far(hop, p, cen) = NoRtt
      BY <1>5 DEF Far
    <2> QED  BY <1>5, <2>1 DEF Heard
  <1> QED  BY <1>3, <1>4, <1>5

(* An i32 addition of two halves: their sum, or one that wrapped. *)
LEMMA Adding ==
  ASSUME NEW a \in Ms, NEW b \in Ms
  PROVE  /\ Add32(a, b) \in (-MaxInt - 1)..MaxInt
         /\ Add32(a, b) = a + b \/ a + b > MaxInt
  BY NumbersAssumption DEF Add32, Ms

(* A round trip by the kind of path; "too far" is told as nothing. *)
LEMMA DirectIs ==
  ASSUME NEW p, NEW rs, NEW cs, NEW cen, IsDirect(rs[p])
  PROVE  MeasuredRtt(p, rs, cs, cen) = Near(p, rs, cs)
  BY DEF MeasuredRtt, IsDirect

LEMMA RelayedIs ==
  ASSUME NEW p, NEW rs, NEW cs, NEW cen, rs[p].cost = 2
  PROVE  LET near == Near(rs[p].hop, rs, cs)
             far == Far(rs[p].hop, p, cen)
         IN  /\ near # NoRtt /\ far # NoRtt =>
                   MeasuredRtt(p, rs, cs, cen) = Add32(near, far)
             /\ near = NoRtt \/ far = NoRtt => MeasuredRtt(p, rs, cs, cen) = NoRtt
  BY DEF MeasuredRtt, IsDirect

LEMMA FartherIs ==
  ASSUME NEW p, NEW rs, NEW cs, NEW cen, ~IsDirect(rs[p]), rs[p].cost # 2
  PROVE  MeasuredRtt(p, rs, cs, cen) = NoRtt
  BY DEF MeasuredRtt

LEMMA RttTypes ==
  ASSUME NEW p, NEW rs, NEW cs, NEW s,
         IsTable(cs, Peers, OwnLatencies), IsTable(s.center, Edges, FarLatencies)
  PROVE  MeasuredRtt(p, rs, cs, s.center) \in {NoRtt} \cup (-MaxInt - 1)..MaxInt
  <1> DEFINE near == Near(rs[p].hop, rs, cs)
             far == Far(rs[p].hop, p, s.center)
  <1>1. Ms \subseteq (-MaxInt - 1)..MaxInt
    BY NumbersAssumption DEF Ms
  <1>2. CASE IsDirect(rs[p])
    <2>1. MeasuredRtt(p, rs, cs, s.center) = Near(p, rs, cs)
      BY <1>2, DirectIs
    <2>2. Near(p, rs, cs) # NoRtt => Near(p, rs, cs) \in Ms
      BY NearIs
    <2> QED  BY <1>1, <2>1, <2>2
  <1>3. CASE rs[p].cost = 2
    <2>1. CASE near # NoRtt /\ far # NoRtt
      <3>1. near \in Ms /\ far \in Ms
        BY <2>1, NearIs, FarIs
      <3> QED  BY <1>3, <2>1, <3>1, Adding, RelayedIs
    <2>2. CASE near = NoRtt \/ far = NoRtt
      BY <1>3, <2>2, RelayedIs
    <2> QED  BY <2>1, <2>2
  <1>4. CASE ~IsDirect(rs[p]) /\ rs[p].cost # 2
    BY <1>4, FartherIs
  <1> QED  BY <1>2, <1>3, <1>4

-----------------------------------------------------------------------------
(***************************************************************************)
(* Types.  Beyond TypeOK: a call has no answer before it has read all, and *)
(* what it remembers is tables too.                                        *)
(***************************************************************************)
IsPast(s) ==
    /\ IsTable(s.routes, Peers, Route)
    /\ IsTable(s.conns, Peers, OwnLatencies)
    /\ IsTable(s.center, Edges, FarLatencies)

TypeInv ==
    /\ TypeOK
    /\ pc \in {"node", "routes", "conns", "map"} => reply = NoList
    /\ \A s \in past : IsPast(s)

LEMMA EmptyTable == ASSUME NEW S, NEW T PROVE IsTable(<<>>, S, T)
  BY DEF IsTable

(* A table with a row more, or less, or another in its place. *)
LEMMA TableMoves ==
  ASSUME NEW f, NEW S, NEW T, IsTable(f, S, T), NEW x \in S
  PROVE  /\ IsTable(Without(f, x), S, T)
         /\ \A v \in T : IsTable(With(f, x, v), S, T)
  BY DEF IsTable, Without, With

(* An address off EasyTier is an address with a prefix, and loses it. *)
LEMMA Bare ==
  ASSUME NEW n \in Peers \cup {Me}
  PROVE  /\ BareAddr(AddressOf(n)) \in Address
         /\ ~BareAddr(AddressOf(n)).prefix
  <1>1. AddressOf(n) \in Address
    BY DEF AddressOf, Address
  <1>2. AddressOf(n) # NoAddress
    BY <1>1, NoneAssumption
  <1>3. BareAddr(AddressOf(n)) = [of |-> n, prefix |-> FALSE]
    BY <1>2 DEF BareAddr, AddressOf
  <1> QED  BY <1>3 DEF Address

LEMMA EntryTypes ==
  ASSUME NEW rs, NEW cs, NEW s, IsTable(rs, Peers, Route),
         IsTable(cs, Peers, OwnLatencies), IsTable(s.center, Edges, FarLatencies)
  PROVE  IsTable(Entries(rs, cs, s.center), Peers, Entry)
  <1> DEFINE es == Entries(rs, cs, s.center)
  <1>1. DOMAIN es = Members(rs) /\ Members(rs) \subseteq Peers
    BY DEF Entries, Members, IsTable
  <1>2. ASSUME NEW p \in Members(rs) PROVE es[p] \in Entry
    <2>1. es[p] = [virtual_ip |-> BareAddr(AddressOf(p)), path |-> PathOf(rs[p]),
                   rtt_ms |-> MeasuredRtt(p, rs, cs, s.center)]
      BY <1>2 DEF Entries
    <2>3. BareAddr(AddressOf(p)) \in Address
      BY <1>1, Bare
    <2>4. PathOf(rs[p]) \in {"direct", "relay"}
      BY DEF PathOf
    <2>5. MeasuredRtt(p, rs, cs, s.center) \in {NoRtt} \cup (-MaxInt - 1)..MaxInt
      BY RttTypes
    <2> QED  BY <2>1, <2>3, <2>4, <2>5 DEF Entry
  <1> QED  BY <1>1, <1>2 DEF IsTable, Entries

LEMMA RoutesAreRoutes == \A p \in Peers : RoutesTo(p) \subseteq Route
  BY DEF RoutesTo

LEMMA InitTables ==
  ASSUME NEW S, NEW T, NEW f \in Tables(S, T)
  PROVE  IsTable(f, S, T)
  BY DEF Tables, IsTable

LEMMA InitTypes == Init => TypeInv
  <1> SUFFICES ASSUME Init PROVE TypeInv
    OBVIOUS
  <1>1. /\ IsTable(routes, Peers, Route)
        /\ IsTable(conns, Peers, OwnLatencies)
        /\ IsTable(center, Edges, FarLatencies)
    BY InitTables DEF Init
  <1>2. IsTable(gotRoutes, Peers, Route) /\ IsTable(gotConns, Peers, OwnLatencies)
    BY EmptyTable DEF Init
  <1> QED  BY <1>1, <1>2, ChangesAssumption DEF Init, TypeInv, TypeOK

LEMMA StepTypes == TypeInv /\ [Next]_vars => TypeInv'
  <1> SUFFICES ASSUME TypeInv, [Next]_vars PROVE TypeInv'
    OBVIOUS
  <1> USE DEF TypeInv
  <1>t. TypeOK /\ MaxChanges \in Nat
    BY ChangesAssumption
  <1>1. CASE UNCHANGED vars
    BY <1>1, <1>t DEF TypeOK
  <1>2. CASE Network
    <2>1. /\ IsTable(routes', Peers, Route)
          /\ IsTable(conns', Peers, OwnLatencies)
          /\ IsTable(center', Edges, FarLatencies)
      <3>1. ASSUME NEW p \in Peers, RouteMoves(p)
            PROVE  IsTable(routes', Peers, Route) /\ UNCHANGED <<conns, center>>
        BY <1>t, <3>1, TableMoves, RoutesAreRoutes DEF RouteMoves, TypeOK
      <3>2. ASSUME NEW p \in Peers, ConnMoves(p)
            PROVE  IsTable(conns', Peers, OwnLatencies) /\ UNCHANGED <<routes, center>>
        BY <1>t, <3>2, TableMoves DEF ConnMoves, TypeOK
      <3>3. ASSUME NEW e \in Edges, CenterMoves(e)
            PROVE  IsTable(center', Edges, FarLatencies) /\ UNCHANGED <<routes, conns>>
        BY <1>t, <3>3, TableMoves DEF CenterMoves, TypeOK
      <3> QED  BY <1>2, <1>t, <3>1, <3>2, <3>3 DEF Network, TypeOK
    <2>2. Moves
      BY <1>2 DEF Network, RouteMoves, ConnMoves, CenterMoves
    <2>3. changes' \in 0..MaxChanges
      BY <1>t, <2>2 DEF Moves, TypeOK
    <2>4. \A s \in past' : IsPast(s)
      BY <2>1, <2>2 DEF Moves, Remembers, Now, IsPast
    <2> QED  BY <1>t, <2>1, <2>2, <2>3, <2>4 DEF Moves, TypeOK
  <1>3. CASE Asks
    <2>1. IsTable(<<>>, Peers, Route) /\ IsTable(<<>>, Peers, OwnLatencies)
      BY EmptyTable
    <2>2. \A s \in past' : IsPast(s)
      BY <1>t, <1>3 DEF Asks, Now, IsPast, TypeOK
    <2> QED  BY <1>t, <1>3, <2>1, <2>2 DEF Asks, TypeOK
  <1>4. CASE ReadsNode
    <2>1. mine' \in Address \cup {NoAddress}
      BY <1>4, Bare DEF ReadsNode
    <2> QED  BY <1>t, <1>4, <2>1 DEF ReadsNode, TypeOK
  <1>5. CASE ReadsRoutes
    BY <1>t, <1>5 DEF ReadsRoutes, TypeOK
  <1>6. CASE ReadsConns
    BY <1>t, <1>6 DEF ReadsConns, TypeOK
  <1>7. CASE ReadsMap
    <2> DEFINE s == Now(routes, conns, center)
    <2>1. s.center = center
      BY DEF Now
    <2>2. IsTable(Entries(gotRoutes, gotConns, s.center), Peers, Entry)
      BY <1>t, <2>1, EntryTypes DEF TypeOK
    <2> QED  BY <1>t, <1>7, <2>1, <2>2 DEF ReadsMap, TypeOK
  <1>8. CASE GivesUp \/ Answers
    BY <1>t, <1>8 DEF GivesUp, Answers, TypeOK
  <1> QED
    BY <1>1, <1>2, <1>3, <1>4, <1>5, <1>6, <1>7, <1>8 DEF Next, Call

LEMMA TypesHold == Spec => []TypeInv
  BY InitTypes, StepTypes, PTL DEF Spec

(* Every variable keeps its type; a round trip fits an i32 whatever its     *)
(* halves add up to (engine.rs: peers, measured_rtt_ms, as_ms).             *)
THEOREM MemberListTypes == Spec => []TypeOK
  <1>1. TypeInv => TypeOK
    BY DEF TypeInv
  <1> QED  BY <1>1, TypesHold, PTL

-----------------------------------------------------------------------------
(***************************************************************************)
(* What was read was so at some instant of the call, the address included. *)
(***************************************************************************)
PastInv ==
    /\ pc # "idle" => Now(routes, conns, center) \in past
    /\ pc \in {"conns", "map", "reply"} => \E s \in past : gotRoutes = s.routes
    /\ pc \in {"map", "reply"} => \E s \in past : gotConns = s.conns
    /\ pc = "reply" => \E s \in past : reply = Entries(gotRoutes, gotConns, s.center)
    /\ mine = NoAddress \/ ~mine.prefix

LEMMA StepPast == PastInv /\ [Next]_vars => PastInv'
  <1> SUFFICES ASSUME PastInv, [Next]_vars PROVE PastInv'
    OBVIOUS
  <1>1. CASE UNCHANGED vars
    BY <1>1 DEF PastInv
  <1>2. CASE Network
    <2>1. Moves
      BY <1>2 DEF Network, RouteMoves, ConnMoves, CenterMoves
    <2>2. past \subseteq past' /\ UNCHANGED callVars
      BY <2>1 DEF Moves, Remembers
    <2>3. pc # "idle" => Now(routes', conns', center') \in past'
      BY <2>1 DEF Moves, Remembers
    <2> QED  BY <2>2, <2>3 DEF PastInv
  <1>3. CASE Asks
    BY <1>3 DEF Asks, PastInv
  <1>4. CASE ReadsNode
    <2>1. mine' = NoAddress \/ ~mine'.prefix
      BY <1>4, Bare DEF ReadsNode
    <2> QED  BY <1>4, <2>1 DEF ReadsNode, PastInv
  <1>5. CASE ReadsRoutes
    <2>1. Now(routes, conns, center).routes = routes
      BY DEF Now
    <2> QED  BY <1>5, <2>1 DEF ReadsRoutes, PastInv
  <1>6. CASE ReadsConns
    <2>1. Now(routes, conns, center).conns = conns
      BY DEF Now
    <2> QED  BY <1>6, <2>1 DEF ReadsConns, PastInv
  <1>7. CASE ReadsMap
    <2>1. Now(routes, conns, center).center = center
      BY DEF Now
    <2>2. \E s \in past : reply' = Entries(gotRoutes, gotConns, s.center)
      BY <1>7, <2>1 DEF ReadsMap, PastInv
    <2> QED  BY <1>7, <2>2 DEF ReadsMap, PastInv
  <1>8. CASE GivesUp \/ Answers
    BY <1>8 DEF GivesUp, Answers, PastInv
  <1> QED
    BY <1>1, <1>2, <1>3, <1>4, <1>5, <1>6, <1>7, <1>8 DEF Next, Call

LEMMA PastHolds == Spec => []PastInv
  <1>1. Init => PastInv
    BY DEF Init, PastInv
  <1> QED  BY <1>1, StepPast, PTL DEF Spec

(* The entry of a member, when there is an answer. *)
LEMMA EntryIs ==
  ASSUME NEW rs, NEW cs, NEW cen, NEW p \in DOMAIN Entries(rs, cs, cen)
  PROVE  LET e == Entries(rs, cs, cen)[p]
         IN  /\ p \in DOMAIN rs
             /\ e.virtual_ip = BareAddr(AddressOf(p))
             /\ e.path = IF IsDirect(rs[p]) THEN "direct" ELSE "relay"
             /\ e.rtt_ms = MeasuredRtt(p, rs, cs, cen)
  BY DEF Entries, Members, PathOf

(* Every address on the wire is bare, so the daemon's strict parse takes    *)
(* the list (engine.rs: bare_addr).                                         *)
THEOREM AddressesAreBare == Spec => []DaemonParses
  <1>1. TypeInv /\ PastInv => DaemonParses
    <2> SUFFICES ASSUME TypeInv, PastInv, pc = "reply"
                 PROVE  /\ mine = NoAddress \/ ~mine.prefix
                        /\ \A p \in DOMAIN reply : ~reply[p].virtual_ip.prefix
      BY DEF DaemonParses
    <2>1. PICK t \in past : reply = Entries(gotRoutes, gotConns, t.center)
      BY DEF PastInv
    <2>2. ASSUME NEW p \in DOMAIN reply PROVE ~reply[p].virtual_ip.prefix
      <3>1. p \in DOMAIN gotRoutes /\ reply[p].virtual_ip = BareAddr(AddressOf(p))
        BY <2>1, EntryIs
      <3>2. p \in Peers
        BY <3>1 DEF TypeInv, TypeOK, IsTable
      <3> QED  BY <3>1, <3>2, Bare
    <2> QED  BY <2>2 DEF PastInv
  <1> QED  BY <1>1, TypesHold, PastHolds, PTL

(* A round trip that is missing was missing at some instant of the call:    *)
(* the direct member's connection, or a half of the relayed one's path      *)
(* (engine.rs: measured_rtt_ms).                                            *)
THEOREM SilenceTellsTheTruth == Spec => []SilenceIsEvidence
  <1>1. TypeInv /\ PastInv => SilenceIsEvidence
    <2> SUFFICES ASSUME TypeInv, PastInv, pc = "reply",
                        NEW p \in DOMAIN reply, reply[p].rtt_ms = NoRtt
                 PROVE  IF reply[p].path = "direct"
                          THEN \E s \in past : p \notin DOMAIN s.conns
                          ELSE \E r, s \in past : p \in DOMAIN r.routes /\
                                 LET hop == r.routes[p].hop IN
                                 \/ r.routes[p].cost = 3
                                 \/ hop \notin DOMAIN s.conns \/ hop \notin DOMAIN s.routes
                                 \/ Heard(hop, p, s) \cup Heard(p, hop, s) = {}
      BY DEF SilenceIsEvidence
    <2>1. PICK r \in past : gotRoutes = r.routes
      BY DEF PastInv
    <2>2. PICK s \in past : gotConns = s.conns
      BY DEF PastInv
    <2>3. PICK t \in past : reply = Entries(gotRoutes, gotConns, t.center)
      BY DEF PastInv
    <2>4. IsPast(r) /\ IsPast(s) /\ IsPast(t)
      BY DEF TypeInv
    <2> DEFINE hop == r.routes[p].hop
    <2>5. /\ p \in DOMAIN r.routes
          /\ reply[p].path = "direct" <=> IsDirect(r.routes[p])
          /\ MeasuredRtt(p, r.routes, s.conns, t.center) = NoRtt
      BY <2>1, <2>2, <2>3, EntryIs
    <2>6. CASE IsDirect(r.routes[p])
      <3>1. Near(p, r.routes, s.conns) = NoRtt
        BY <2>5, <2>6, DirectIs
      <3>2. p \notin DOMAIN s.conns
        BY <2>4, <2>5, <3>1, NearIs DEF IsPast
      <3> QED  BY <2>5, <2>6, <3>2
    <2>7. CASE r.routes[p].cost = 2
      <3>0. reply[p].path # "direct"
        BY <2>5, <2>7 DEF IsDirect
      <3>1. Near(hop, r.routes, s.conns) = NoRtt \/ Far(hop, p, t.center) = NoRtt
        <4> SUFFICES ASSUME Near(hop, r.routes, s.conns) # NoRtt, Far(hop, p, t.center) # NoRtt
                     PROVE  FALSE
          OBVIOUS
        <4>1. Near(hop, r.routes, s.conns) \in Ms /\ Far(hop, p, t.center) \in Ms
          BY <2>4, NearIs, FarIs DEF IsPast
        <4>2. Add32(Near(hop, r.routes, s.conns), Far(hop, p, t.center)) = NoRtt
          BY <2>5, <2>7, RelayedIs
        <4> QED  BY <4>1, <4>2, Adding, NoneAssumption, NumbersAssumption
      <3>2. CASE Near(hop, r.routes, s.conns) = NoRtt
        <4>1. hop \notin DOMAIN r.routes \/ hop \notin DOMAIN s.conns
          BY <2>4, <3>2, NearIs DEF IsPast
        <4> QED  BY <2>5, <3>0, <4>1
      <3>3. CASE Far(hop, p, t.center) = NoRtt
        <4>1. Heard(hop, p, t) \cup Heard(p, hop, t) = {}
          BY <2>4, <3>3, FarIs DEF IsPast
        <4> QED  BY <2>5, <3>0, <4>1
      <3> QED  BY <3>1, <3>2, <3>3
    <2>8. CASE ~IsDirect(r.routes[p]) /\ r.routes[p].cost # 2
      <3>1. r.routes[p].cost = 3
        BY <2>4, <2>5, <2>8 DEF IsPast, IsTable, Route, IsDirect
      <3> QED  BY <2>5, <2>8, <3>1
    <2> QED  BY <2>6, <2>7, <2>8
  <1> QED  BY <1>1, TypesHold, PastHolds, PTL

(* A round trip on the wire was measured along the member's own path while  *)
(* the call ran (proto.rs: PeerOut::rtt_ms; engine.rs: measured_rtt_ms).    *)
THEOREM RoundTripsAreMeasured == Spec => []RttIsMeasured
  <1>1. TypeInv /\ PastInv => RttIsMeasured
    <2> SUFFICES ASSUME TypeInv, PastInv, pc = "reply",
                        NEW p \in DOMAIN reply, reply[p].rtt_ms # NoRtt
                 PROVE  IF reply[p].path = "direct" THEN DirectRtt(p, reply[p].rtt_ms)
                                                    ELSE RelayedRtt(p, reply[p].rtt_ms)
      BY DEF RttIsMeasured
    <2>1. PICK r \in past : gotRoutes = r.routes
      BY DEF PastInv
    <2>2. PICK s \in past : gotConns = s.conns
      BY DEF PastInv
    <2>3. PICK t \in past : reply = Entries(gotRoutes, gotConns, t.center)
      BY DEF PastInv
    <2>4. IsPast(r) /\ IsPast(s) /\ IsPast(t)
      BY DEF TypeInv
    <2> DEFINE hop == r.routes[p].hop
               rtt == MeasuredRtt(p, r.routes, s.conns, t.center)
    <2>5. /\ p \in DOMAIN r.routes
          /\ reply[p].path = "direct" <=> IsDirect(r.routes[p])
          /\ reply[p].rtt_ms = rtt /\ rtt # NoRtt
      BY <2>1, <2>2, <2>3, EntryIs
    <2>6. CASE IsDirect(r.routes[p])
      <3>1. rtt = Near(p, r.routes, s.conns)
        BY <2>6, DirectIs
      <3>2. p \in DOMAIN s.conns /\ Rounded(rtt, s.conns[p])
        BY <2>4, <2>5, <3>1, NearIs DEF IsPast
      <3> QED  BY <2>5, <2>6, <3>2 DEF DirectRtt
    <2>7. CASE r.routes[p].cost = 2
      <3>0. reply[p].path # "direct"
        BY <2>5, <2>7 DEF IsDirect
      <3> DEFINE near == Near(hop, r.routes, s.conns)
                 far == Far(hop, p, t.center)
      <3>1. near # NoRtt /\ far # NoRtt /\ rtt = Add32(near, far)
        BY <2>5, <2>7, RelayedIs
      <3>2. near \in Ms /\ hop \in DOMAIN s.conns /\ Rounded(near, s.conns[hop])
        BY <2>4, <3>1, NearIs DEF IsPast
      <3>3. far \in Ms /\ \E ms \in Heard(hop, p, t) \cup Heard(p, hop, t) : far = Floored(ms)
        BY <2>4, <3>1, FarIs DEF IsPast
      <3>4. rtt = near + far \/ near + far > MaxInt
        BY <3>1, <3>2, <3>3, Adding
      <3>5. PICK ms \in Heard(hop, p, t) \cup Heard(p, hop, t) :
               far = IF ms = 0 THEN 1 ELSE ms
        BY <3>3 DEF Floored
      <3> HIDE DEF near, far, rtt, hop
      <3>6. \E n \in 1..MaxInt :
               /\ Rounded(n, s.conns[hop])
               /\ LET sum == n + (IF ms = 0 THEN 1 ELSE ms)
                  IN  rtt = sum \/ sum > MaxInt
        BY <3>2, <3>4, <3>5 DEF Ms
      <3>7. RelayedRtt(p, rtt)
        BY <2>5, <2>7, <3>2, <3>5, <3>6 DEF RelayedRtt, hop
      <3> QED  BY <2>5, <3>0, <3>7
    <2>8. CASE ~IsDirect(r.routes[p]) /\ r.routes[p].cost # 2
      BY <2>5, <2>8, FartherIs
    <2> QED  BY <2>6, <2>7, <2>8
  <1> QED  BY <1>1, TypesHold, PastHolds, PTL

-----------------------------------------------------------------------------
(***************************************************************************)
(* Refinement.                                                             *)
(***************************************************************************)
CallIs == CASE pc = "idle" -> "idle"
            [] pc \in {"node", "routes"} -> "asked"
            [] OTHER -> "read"

LEMMA PathsAreLists ==
  ASSUME NEW rs, IsTable(rs, Peers, Route)
  PROVE  PathsOf(rs) \in UNION {[S -> {"direct", "relay"}] : S \in SUBSET Peers}
  <1>1. Members(rs) \subseteq Peers
    BY DEF Members, IsTable
  <1>2. PathsOf(rs) \in [Members(rs) -> {"direct", "relay"}]
    BY DEF PathsOf, PathOf
  <1> QED  BY <1>1, <1>2

(* The entries say of the paths what the routes did. *)
LEMMA EntriesKeepPaths ==
  ASSUME NEW rs, NEW cs, NEW cen
  PROVE  [p \in DOMAIN Entries(rs, cs, cen) |-> Entries(rs, cs, cen)[p].path] = PathsOf(rs)
  BY DEF Entries, PathsOf

LEMMA AnswersAreLists == \A f : IsTable(f, Peers, Entry) => f # NoList
  BY NoListAssumption DEF IsTable, Tables

LEMMA InitSnapshot == Init => Snapshot!Init
  <1> SUFFICES ASSUME Init PROVE Snapshot!Init
    OBVIOUS
  <1>1. IsTable(routes, Peers, Route)
    BY InitTables DEF Init
  <1>2. ListInHand = NoList
    BY DEF Init, ListInHand
  <1> QED  BY <1>1, <1>2, PathsAreLists DEF Init, Snapshot!Init, Snapshot!Lists

LEMMA StepSnapshot ==
  TypeInv /\ TypeInv' /\ [Next]_vars =>
     [Snapshot!Changes \/ Snapshot!Ask \/ Snapshot!Read \/ Snapshot!Answer \/ Snapshot!Fail]_
        <<PathsOf(routes), CallIs, ListInHand>>
  <1> SUFFICES ASSUME TypeInv, TypeInv', [Next]_vars
               PROVE  [Snapshot!Changes \/ Snapshot!Ask \/ Snapshot!Read \/ Snapshot!Answer
                          \/ Snapshot!Fail]_<<PathsOf(routes), CallIs, ListInHand>>
    OBVIOUS
  <1>1. CASE UNCHANGED vars
    BY <1>1 DEF CallIs, ListInHand
  <1>2. CASE Network
    <2>1. UNCHANGED callVars
      BY <1>2 DEF Network, RouteMoves, ConnMoves, CenterMoves, Moves
    <2>2. CallIs' = CallIs /\ ListInHand' = ListInHand
      BY <2>1 DEF CallIs, ListInHand
    <2>3. PathsOf(routes)' \in UNION {[S -> {"direct", "relay"}] : S \in SUBSET Peers}
      BY PathsAreLists DEF TypeInv, TypeOK
    <2>4. Snapshot!Changes
      BY <2>2, <2>3 DEF Snapshot!Changes, Snapshot!Lists, CallIs
    <2> QED  BY <2>4
  <1>3. CASE Asks
    <2>1. ListInHand' = NoList /\ PathsOf(routes)' = PathsOf(routes)
      BY <1>3 DEF Asks, ListInHand
    <2>2. Snapshot!Ask
      BY <1>3, <2>1 DEF Asks, Snapshot!Ask
    <2> QED  BY <2>2
  <1>4. CASE ReadsNode
    BY <1>4 DEF ReadsNode, CallIs, ListInHand
  <1>5. CASE ReadsRoutes
    <2>1. /\ PathsOf(routes)' = PathsOf(routes)
          /\ ListInHand' = PathsOf(routes)
      BY <1>5 DEF ReadsRoutes, ListInHand
    <2>2. Snapshot!Read
      BY <1>5, <2>1 DEF ReadsRoutes, Snapshot!Read
    <2> QED  BY <2>2
  <1>6. CASE ReadsConns
    BY <1>6 DEF ReadsConns, CallIs, ListInHand
  <1>7. CASE ReadsMap
    <2>1. reply' # NoList
      <3> DEFINE s == Now(routes, conns, center)
      <3>1. s.center = center
        BY DEF Now
      <3>2. IsTable(Entries(gotRoutes, gotConns, s.center), Peers, Entry)
        BY <3>1, EntryTypes DEF TypeInv, TypeOK
      <3> QED  BY <1>7, <3>1, <3>2, AnswersAreLists DEF ReadsMap
    <2>2. ListInHand' = [p \in DOMAIN reply' |-> reply'[p].path]
      BY <1>7, <2>1 DEF ReadsMap, ListInHand
    <2>3. ListInHand' = PathsOf(gotRoutes)
      BY <1>7, <2>2, EntriesKeepPaths DEF ReadsMap
    <2>4. ListInHand = PathsOf(gotRoutes)
      BY <1>7 DEF ReadsMap, ListInHand
    <2>5. CallIs' = CallIs /\ PathsOf(routes)' = PathsOf(routes)
      BY <1>7 DEF ReadsMap, CallIs
    <2> QED  BY <2>3, <2>4, <2>5
  <1>8. CASE GivesUp
    <2>1. ListInHand' = NoList /\ PathsOf(routes)' = PathsOf(routes)
      BY <1>8 DEF GivesUp, TypeInv, ListInHand
    <2>2. Snapshot!Fail
      BY <1>8, <2>1 DEF GivesUp, Snapshot!Fail
    <2> QED  BY <2>2
  <1>9. CASE Answers
    <2>1. ListInHand' = ListInHand /\ PathsOf(routes)' = PathsOf(routes)
      BY <1>9 DEF Answers, ListInHand
    <2>2. Snapshot!Answer
      BY <1>9, <2>1 DEF Answers, Snapshot!Answer
    <2> QED  BY <2>2
  <1> QED
    BY <1>1, <1>2, <1>3, <1>4, <1>5, <1>6, <1>7, <1>8, <1>9 DEF Next, Call

(* The answer is the membership of one instant of the call, and a call one  *)
(* of whose reads failed answers nothing: four awaited reads implement one  *)
(* (engine.rs: peers).                                                      *)
THEOREM ListIsASnapshot == Spec => SnapshotSpec
  <1>1. TypeInv /\ TypeInv' /\ [Next]_vars =>
           [Snapshot!Changes \/ Snapshot!Ask \/ Snapshot!Read \/ Snapshot!Answer
              \/ Snapshot!Fail]_<<PathsOf(routes), CallIs, ListInHand>>
    BY StepSnapshot
  <1> QED  BY <1>1, InitSnapshot, TypesHold, PTL
              DEF Spec, SnapshotSpec, Snapshot!Spec, CallIs
=============================================================================
