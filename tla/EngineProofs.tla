---------------------------- MODULE EngineProofs ----------------------------
(***************************************************************************)
(* Theorems about Engine, for any number of lines and events, any MTUs and *)
(* any daemon.                                                             *)
(***************************************************************************)
EXTENDS Engine, TLAPS

Busy == pc \in {"grace", "call", "reply"}

(* What type correctness needs to be inductive: a command in hand has been  *)
(* read, and a write in progress has a message.                             *)
TypeInv ==
    /\ TypeOK
    /\ Busy => nread \in Ids
    /\ writer = "writing" => written < Len(sent)

USE DEF Ids, outside, daemonVars, writerVars, mainVars, slotVars, kept

LEMMA LineTypes ==
    ASSUME TypeOK, NEW n \in 1..Len(lines)
    PROVE  /\ lines[n] \in Line
           /\ lines[n].cmd \in Starts =>
                 lines[n].mtu \in Mtus \cup {NoMtu} /\ lines[n].log_dir \in BOOLEAN
<1>1. lines[n] \in DaemonLines
  BY DEF TypeOK
<1>2. lines[n] \in Line
  BY <1>1, LinesAssumption
<1>3. QED
  BY <1>2 DEF Line, Starts, RoomStarts, Leaves, Calls, CredentialCalls,
              NotCommands, Skipped, Fatal

LEMMA EmptyTypes ==
    ASSUME TypeOK, NEW slots \in SUBSET Slots, Empty(slots)
    PROVE  /\ net' \in [Slots -> Ids \cup {None}]
           /\ phase' \in [Ids -> Phases]
BY DEF TypeOK, Empty, Phases

LEMMA SendTypes ==
    ASSUME TypeOK, NEW m \in Message, Send(m)
    PROVE  sent' \in Seq(Message) /\ Len(sent') \in Nat /\ Len(sent) <= Len(sent')
BY DEF TypeOK, Send

LEMMA BuildTypes ==
    ASSUME TypeOK, NEW n \in Ids, BuildInstance(n)
    PROVE  /\ net' \in [Slots -> Ids \cup {None}]
           /\ phase' \in [Ids -> Phases]
           /\ pump' \in SUBSET Ids
           /\ ok' \in BOOLEAN
           /\ pc' = "reply"
<1> DEFINE slot == SlotOf(lines[n].cmd)
<1>1. slot \in Slots
  BY DEF SlotOf, Slots
<1>2. CASE /\ ok' = TRUE
           /\ net' = [net EXCEPT ![slot] = n]
           /\ phase' = [phase EXCEPT ![n] = "starting"]
           /\ pump' = pump \cup {n}
  <2>1. net' \in [Slots -> Ids \cup {None}]
    BY <1>1, <1>2 DEF TypeOK
  <2>2. phase' \in [Ids -> Phases] /\ pump' \in SUBSET Ids
    BY <1>2 DEF TypeOK, Phases
  <2>3. QED
    BY <2>1, <2>2, <1>2 DEF BuildInstance
<1>3. CASE ok' = FALSE /\ UNCHANGED slotVars
  BY <1>3 DEF TypeOK, BuildInstance, slotVars
<1>4. QED
  BY <1>2, <1>3 DEF BuildInstance

LEMMA TakeStartTypes ==
    ASSUME TypeOK, TakeStart
    PROVE  /\ nread' = nread + 1 /\ nread' \in 1..Len(lines) /\ nread' \in Ids
           /\ room_mtu' \in Mtus
           /\ log' \in {"off", "on", "failed"}
<1>1. nread' = nread + 1 /\ nread' \in 1..Len(lines) /\ nread' \in Ids
      /\ lines[nread + 1].cmd \in Starts
  BY BoundsAssumption DEF TakeStart, Take, TypeOK
<1>2. lines[nread + 1].mtu \in Mtus \cup {NoMtu}
  BY <1>1, LineTypes
<1>3. room_mtu' \in Mtus
  BY <1>2, MtuAssumption DEF TakeStart, RememberMtu, Asked, TypeOK
<1>4. log' \in {"off", "on", "failed"}
  BY DEF TakeStart, InitLog, TypeOK
<1>5. QED
  BY <1>1, <1>3, <1>4

LEMMA TypeDaemon == TypeInv /\ Daemon => TypeInv'
<1> SUFFICES ASSUME TypeInv, Daemon PROVE TypeInv'
  OBVIOUS
<1>1. CASE DaemonCloses \/ DaemonDies
  BY <1>1 DEF TypeInv, TypeOK, Busy, DaemonCloses, DaemonDies
<1>2. ASSUME NEW line \in DaemonLines, DaemonSends(line) PROVE TypeInv'
  <2>1. lines' \in Seq(DaemonLines) /\ Len(lines') = Len(lines) + 1
        /\ Len(lines') <= MaxLines /\ nread \in 0..Len(lines')
    BY <1>2, BoundsAssumption DEF TypeInv, TypeOK, DaemonSends
  <2>2. QED
    BY <1>2, <2>1 DEF TypeInv, TypeOK, Busy, DaemonSends
<1>3. QED
  BY <1>1, <1>2 DEF Daemon

LEMMA TypeReading ==
    ASSUME TypeInv, SkipLine \/ RefuseLine \/ FatalLine \/ EndOfInput
    PROVE  TypeInv'
<1>1. CASE SkipLine
  BY <1>1 DEF TypeInv, TypeOK, Busy, SkipLine, Take
<1>2. CASE RefuseLine
  <2> DEFINE m == [type |-> "response", id |-> nread + 1, ok |-> FALSE]
  <2>1. nread + 1 \in Ids /\ nread' = nread + 1 /\ nread' \in 0..Len(lines)
    BY <1>2, BoundsAssumption DEF TypeInv, TypeOK, RefuseLine, Take
  <2>2. m \in Message
    BY <2>1 DEF Message
  <2>3. sent' \in Seq(Message) /\ Len(sent') \in Nat /\ Len(sent) <= Len(sent')
    BY <1>2, <2>2, SendTypes DEF RefuseLine, TypeInv
  <2>4. QED
    BY <1>2, <2>1, <2>3 DEF TypeInv, TypeOK, Busy, RefuseLine, Take
<1>3. CASE FatalLine \/ EndOfInput
  <2>1. net' \in [Slots -> Ids \cup {None}] /\ phase' \in [Ids -> Phases]
    BY <1>3, EmptyTypes DEF TypeInv, FatalLine, EndOfInput, BreakLoop
  <2>2. pc' = "drain" /\ nread' \in 0..Len(lines)
    BY <1>3 DEF TypeInv, TypeOK, FatalLine, EndOfInput, BreakLoop, Take
  <2>3. QED
    BY <1>3, <2>1, <2>2 DEF TypeInv, TypeOK, Busy, MainSteps, FatalLine,
                            EndOfInput
<1>4. QED
  BY <1>1, <1>2, <1>3

LEMMA TypeStarting ==
    ASSUME TypeInv, StartRefused \/ StartFresh \/ StartReplaces \/ GraceEnds
    PROVE  TypeInv'
<1>1. CASE StartRefused
  <2>1. nread' = nread + 1 /\ nread' \in 1..Len(lines) /\ nread' \in Ids
        /\ room_mtu' \in Mtus /\ log' \in {"off", "on", "failed"}
    BY <1>1, TakeStartTypes DEF TypeInv, StartRefused
  <2>2. ok' \in BOOLEAN
    BY <1>1 DEF StartRefused
  <2>3. QED
    BY <1>1, <2>1, <2>2 DEF TypeInv, TypeOK, Busy, MainSteps, StartRefused
<1>2. CASE StartFresh
  <2>1. nread' = nread + 1 /\ nread' \in 1..Len(lines) /\ nread' \in Ids
        /\ room_mtu' \in Mtus /\ log' \in {"off", "on", "failed"}
    BY <1>2, TakeStartTypes DEF TypeInv, StartFresh
  <2>2. /\ net' \in [Slots -> Ids \cup {None}]
        /\ phase' \in [Ids -> Phases]
        /\ pump' \in SUBSET Ids
        /\ ok' \in BOOLEAN
        /\ pc' = "reply"
    BY <1>2, <2>1, BuildTypes DEF TypeInv, StartFresh
  <2>3. QED
    BY <1>2, <2>1, <2>2 DEF TypeInv, TypeOK, Busy, MainSteps, StartFresh
<1>3. CASE StartReplaces
  <2>1. nread' = nread + 1 /\ nread' \in 1..Len(lines) /\ nread' \in Ids
        /\ room_mtu' \in Mtus /\ log' \in {"off", "on", "failed"}
    BY <1>3, TakeStartTypes DEF TypeInv, StartReplaces
  <2>2. net' \in [Slots -> Ids \cup {None}] /\ phase' \in [Ids -> Phases]
    BY <1>3, EmptyTypes DEF TypeInv, StartReplaces, SlotOf, Slots
  <2>3. QED
    BY <1>3, <2>1, <2>2 DEF TypeInv, TypeOK, Busy, MainSteps, StartReplaces
<1>4. CASE GraceEnds
  <2>1. nread \in Ids
    BY <1>4 DEF GraceEnds, TypeInv, Busy
  <2>2. /\ net' \in [Slots -> Ids \cup {None}]
        /\ phase' \in [Ids -> Phases]
        /\ pump' \in SUBSET Ids
        /\ ok' \in BOOLEAN
        /\ pc' = "reply"
    BY <1>4, <2>1, BuildTypes DEF TypeInv, GraceEnds
  <2>3. QED
    BY <1>4, <2>1, <2>2 DEF TypeInv, TypeOK, Busy, MainSteps, GraceEnds
<1>5. QED
  BY <1>1, <1>2, <1>3, <1>4

LEMMA TypeCommands ==
    ASSUME TypeInv,
           LeaveCommand \/ CallRefused \/ CallBegins \/ CallReturns \/ Reply
    PROVE  TypeInv'
<1>1. CASE LeaveCommand
  <2>1. net' \in [Slots -> Ids \cup {None}] /\ phase' \in [Ids -> Phases]
    BY <1>1, EmptyTypes DEF TypeInv, LeaveCommand, Released, Slots, Take
  <2>2. nread' \in 1..Len(lines) /\ nread' \in Ids
    BY <1>1, BoundsAssumption DEF TypeInv, TypeOK, LeaveCommand, Take
  <2>3. QED
    BY <1>1, <2>1, <2>2 DEF TypeInv, TypeOK, Busy, MainSteps, LeaveCommand
<1>2. CASE CallRefused \/ CallBegins
  <2>1. nread' \in 1..Len(lines) /\ nread' \in Ids
    BY <1>2, BoundsAssumption DEF TypeInv, TypeOK, CallRefused, CallBegins, Take
  <2>2. CASE CallRefused
    <3>1. ok' \in BOOLEAN
      BY <2>2 DEF CallRefused
    <3>2. QED
      BY <2>1, <2>2, <3>1 DEF TypeInv, TypeOK, Busy, MainSteps, CallRefused
  <2>3. CASE CallBegins
    BY <2>1, <2>3 DEF TypeInv, TypeOK, Busy, MainSteps, CallBegins
  <2>4. QED
    BY <1>2, <2>2, <2>3
<1>3. CASE CallReturns
  BY <1>3 DEF TypeInv, TypeOK, Busy, MainSteps, CallReturns
<1>4. CASE Reply
  <2> DEFINE m == [type |-> "response", id |-> nread, ok |-> ok]
  <2>1. m \in Message
    BY <1>4 DEF Message, Reply, TypeInv, TypeOK, Busy
  <2>2. sent' \in Seq(Message) /\ Len(sent') \in Nat /\ Len(sent) <= Len(sent')
    BY <1>4, <2>1, SendTypes DEF Reply, TypeInv
  <2>3. net' \in [Slots -> Ids \cup {None}] /\ phase' \in [Ids -> Phases]
        /\ pc' \in {"read", "drain"}
    BY <1>4, EmptyTypes DEF TypeInv, TypeOK, Reply, BreakLoop
  <2>4. QED
    BY <1>4, <2>2, <2>3 DEF TypeInv, TypeOK, Busy, MainSteps, Reply
<1>5. QED
  BY <1>1, <1>2, <1>3, <1>4

LEMMA TypeWayOut ==
    ASSUME TypeInv, DropSender \/ JoinEnds \/ Exit \/ Writer
    PROVE  TypeInv'
<1>1. CASE DropSender \/ JoinEnds \/ Exit
  BY <1>1 DEF TypeInv, TypeOK, Busy, MainSteps, DropSender, JoinEnds, Exit
<1>2. CASE WriterTakes
  BY <1>2 DEF TypeInv, TypeOK, Busy, WriterTakes
<1>3. CASE WriterWrites
  BY <1>3 DEF TypeInv, TypeOK, Busy, WriterWrites
<1>4. CASE WriterFails \/ WriterEnds
  BY <1>4 DEF TypeInv, TypeOK, Busy, WriterFails, WriterEnds
<1>5. QED
  BY <1>1, <1>2, <1>3, <1>4 DEF Writer

LEMMA TypeInstances == ASSUME TypeInv, Instances PROVE TypeInv'
<1>1. ASSUME NEW i \in Ids, PumpSends(i) PROVE TypeInv'
  <2> DEFINE m == [type |-> "event", from |-> i]
  <2>1. m \in Message
    BY DEF Message
  <2>2. sent' \in Seq(Message) /\ Len(sent') \in Nat /\ Len(sent) <= Len(sent')
    BY <1>1, <2>1, SendTypes DEF PumpSends, TypeInv
  <2>3. QED
    BY <1>1, <2>2 DEF TypeInv, TypeOK, Busy, PumpSends
<1>2. ASSUME NEW i \in Ids, PumpEnds(i) \/ Publishes(i) \/ TearsDown(i)
      PROVE  TypeInv'
  BY <1>2 DEF TypeInv, TypeOK, Busy, Phases, PumpEnds, Publishes, TearsDown
<1>3. QED
  BY <1>1, <1>2 DEF Instances

LEMMA TypeInit == Init => TypeInv
<1> SUFFICES ASSUME Init PROVE TypeInv
  OBVIOUS
<1>1. net \in [Slots -> Ids \cup {None}] /\ phase \in [Ids -> Phases]
  BY DEF Init, Phases
<1>2. lines \in Seq(DaemonLines) /\ sent \in Seq(Message)
      /\ Len(lines) = 0 /\ Len(sent) = 0
  BY DEF Init
<1>3. room_mtu \in Mtus
  BY MtuAssumption DEF Init
<1>4. ok \in BOOLEAN
  BY DEF Init
<1>5. QED
  BY <1>1, <1>2, <1>3, <1>4, BoundsAssumption DEF Init, TypeInv, TypeOK, Busy,
                                           MainSteps

LEMMA TypeStep == TypeInv /\ [Next]_vars => TypeInv'
<1> SUFFICES ASSUME TypeInv, [Next]_vars PROVE TypeInv'
  OBVIOUS
<1>1. CASE UNCHANGED vars
  BY <1>1 DEF TypeInv, TypeOK, Busy, vars
<1>2. CASE Main
  BY <1>2, TypeReading, TypeStarting, TypeCommands, TypeWayOut DEF Main
<1>3. QED
  BY <1>1, <1>2, TypeDaemon, TypeWayOut, TypeInstances DEF Next, Exited

LEMMA TypeAlways == Spec => []TypeInv
BY TypeInit, TypeStep, PTL DEF Spec

(* Every variable of the process stays within its type: ids belong to lines *)
(* that were read, slots to instances, writes to messages (main.rs, the     *)
(* loop and the writer; engine.rs, the slots).                              *)
THEOREM TypeCorrect == Spec => []TypeOK
<1>1. TypeInv => TypeOK
  BY DEF TypeInv
<1>2. QED
  BY <1>1, TypeAlways, PTL

-----------------------------------------------------------------------------
(***************************************************************************)
(* The slots.  NoOrphan is not inductive alone: a build must not find its  *)
(* line's instance born already, nor the slot it fills occupied; and the   *)
(* way out needs both slots empty before it waits.                         *)
(***************************************************************************)
Over == {"drain", "join", "returned", "exited"}
Waited == {"join", "returned", "exited"}

SlotInv ==
    /\ NoOrphan
    /\ \A n \in Ids : n > nread => phase[n] = "unborn"
    /\ pc = "grace" => /\ lines[nread].cmd \in Starts
                       /\ net[SlotOf(lines[nread].cmd)] = None
                       /\ phase[nread] = "unborn"
    /\ pc \in Over => \A s \in Slots : net[s] = None
    /\ TeardownInGrace /\ pc \in Waited => \A n \in Ids : phase[n] \notin Holding

(* What Empty does to the slots it is given and to those it is not. *)
LEMMA EmptyKeeps ==
    ASSUME TypeInv, SlotInv, NEW slots \in SUBSET Slots, Empty(slots)
    PROVE  /\ \A s \in slots : net'[s] = None
           /\ \A s \in Slots \ slots : net'[s] = net[s]
           /\ \A n \in Ids : phase[n] = "unborn" => phase'[n] = "unborn"
           /\ \A n \in Ids : phase'[n] \in Alive <=> \E s \in Slots : net'[s] = n
<1>1. \A s \in Slots : net'[s] = IF s \in slots THEN None ELSE net[s]
  BY DEF Empty
<1>2. \A n \in Ids : phase'[n] = IF \E s \in slots : net[s] = n THEN "stopping"
                                                               ELSE phase[n]
  BY DEF Empty
<1>3. \A s, t \in Slots : net[s] = net[t] /\ net[s] # None => s = t
  BY DEF SlotInv, NoOrphan
<1>4. \A n \in Ids : n # None
  BY BoundsAssumption DEF None
<1>5. ASSUME NEW n \in Ids
      PROVE  phase'[n] \in Alive <=> \E s \in Slots : net'[s] = n
  <2>1. CASE \E s \in slots : net[s] = n
    BY <2>1, <1>1, <1>2, <1>3, <1>4 DEF Alive
  <2>2. CASE ~ \E s \in slots : net[s] = n
    BY <2>2, <1>1, <1>2, <1>4 DEF SlotInv, NoOrphan
  <2>3. QED
    BY <2>1, <2>2
<1>6. \A n \in Ids : phase[n] = "unborn" => phase'[n] = "unborn"
  <2>1. ASSUME NEW n \in Ids, phase[n] = "unborn", NEW s \in slots, net[s] = n
        PROVE  FALSE
    BY <2>1 DEF SlotInv, NoOrphan, Alive
  <2>2. QED
    BY <2>1, <1>2
<1>7. QED
  BY <1>1, <1>5, <1>6

(* Steps that move no instance. *)
LEMMA SlotsUntouched ==
    ASSUME TypeInv, SlotInv, UNCHANGED <<net, phase>>,
           nread' \in Nat, nread <= nread',
           \A k \in 1..nread : lines'[k] = lines[k],
           pc' = "grace" => pc = "grace" /\ nread' = nread,
           pc' \in Over => pc \in Over,
           pc' \in Waited => pc \in Waited \/ (pc \in Over /\ Grace)
    PROVE  SlotInv'
<1>1. nread \in Nat
  BY DEF TypeInv, TypeOK
<1>2. NoOrphan'
  <2>1. \A s \in Slots : net[s] # None => net[s] \in 1..nread
    BY DEF SlotInv, NoOrphan, TypeInv, TypeOK
  <2>2. QED
    BY <1>1, <2>1 DEF SlotInv, NoOrphan
<1>3. \A n \in Ids : n > nread' => phase'[n] = "unborn"
  BY <1>1 DEF SlotInv
<1>4. pc' = "grace" => /\ lines'[nread'].cmd \in Starts
                       /\ net'[SlotOf(lines'[nread'].cmd)] = None
                       /\ phase'[nread'] = "unborn"
  <2>1. pc = "grace" => nread \in 1..nread
    BY DEF TypeInv, Busy
  <2>2. QED
    BY <2>1 DEF SlotInv
<1>5. pc' \in Over => \A s \in Slots : net'[s] = None
  BY DEF SlotInv
<1>6. TeardownInGrace /\ pc' \in Waited => \A n \in Ids : phase'[n] \notin Holding
  <2>1. pc \in Over => \A n \in Ids : phase[n] \notin Alive
    BY BoundsAssumption DEF SlotInv, NoOrphan, None
  <2>2. QED
    BY <2>1 DEF SlotInv, Grace, Holding
<1>7. QED
  BY <1>2, <1>3, <1>4, <1>5, <1>6 DEF SlotInv

(* Steps that empty slots: a leave, a replacement, the way out. *)
LEMMA SlotsEmptied ==
    ASSUME TypeInv, SlotInv, NEW slots \in SUBSET Slots, Empty(slots),
           lines' = lines, nread' \in {nread, nread + 1}, nread' <= Len(lines),
           pc' \notin Waited,
           pc' \in Over => slots = Slots,
           pc' = "grace" => /\ nread' = nread + 1
                            /\ lines[nread'].cmd \in Starts
                            /\ SlotOf(lines[nread'].cmd) \in slots
    PROVE  SlotInv'
<1>1. nread \in Nat /\ nread' \in Nat /\ nread <= nread'
      /\ (nread' = nread + 1 => nread' \in Ids)
  BY BoundsAssumption DEF TypeInv, TypeOK
<1>2. /\ \A s \in slots : net'[s] = None
      /\ \A s \in Slots \ slots : net'[s] = net[s]
      /\ \A n \in Ids : phase[n] = "unborn" => phase'[n] = "unborn"
      /\ \A n \in Ids : phase'[n] \in Alive <=> \E s \in Slots : net'[s] = n
  BY EmptyKeeps
<1>3. \A s \in Slots : net'[s] # None => net'[s] = net[s]
  BY <1>2
<1>4. NoOrphan'
  BY <1>1, <1>2, <1>3 DEF SlotInv, NoOrphan, TypeInv, TypeOK
<1>5. \A n \in Ids : n > nread' => phase'[n] = "unborn"
  BY <1>1, <1>2 DEF SlotInv
<1>6. pc' = "grace" => /\ lines'[nread'].cmd \in Starts
                       /\ net'[SlotOf(lines'[nread'].cmd)] = None
                       /\ phase'[nread'] = "unborn"
  BY <1>1, <1>2 DEF SlotInv
<1>7. pc' \in Over => \A s \in Slots : net'[s] = None
  BY <1>2
<1>8. QED
  BY <1>4, <1>5, <1>6, <1>7 DEF SlotInv

(* Steps that build the instance of the line in hand, or fail to. *)
LEMMA SlotsBuilt ==
    ASSUME TypeInv, TypeInv', SlotInv, NEW n \in Ids, BuildInstance(n),
           lines' = lines, nread <= n, nread' = n,
           lines[n].cmd \in Starts,
           net[SlotOf(lines[n].cmd)] = None,
           phase[n] = "unborn"
    PROVE  SlotInv'
<1> DEFINE slot == SlotOf(lines[n].cmd)
<1>1. slot \in Slots /\ nread \in Nat /\ n \in Nat /\ n # None
  BY BoundsAssumption DEF SlotOf, Slots, TypeInv, TypeOK, None
<1>2. pc' = "reply" /\ pc' \notin Over /\ pc' \notin Waited /\ pc' # "grace"
  BY DEF BuildInstance, Over, Waited
<1>3. CASE net' = [net EXCEPT ![slot] = n]
           /\ phase' = [phase EXCEPT ![n] = "starting"]
  <2>1. /\ net'[slot] = n
        /\ \A s \in Slots \ {slot} : net'[s] = net[s]
    BY <1>1, <1>3 DEF TypeInv, TypeOK
  <2>2. /\ phase'[n] = "starting"
        /\ \A k \in Ids \ {n} : phase'[k] = phase[k]
    BY <1>3 DEF TypeInv, TypeOK
  <2>3. \A k \in Ids : phase'[k] \in Alive <=> \E s \in Slots : net'[s] = k
    <3>1. \A k \in Ids : phase[k] \in Alive <=> \E s \in Slots : net[s] = k
      BY DEF SlotInv, NoOrphan
    <3>2. \A k \in Ids : k # None
      BY BoundsAssumption DEF None
    <3>3. phase'[n] \in Alive /\ net'[slot] = n
      BY <2>1, <2>2 DEF Alive
    <3>4. ASSUME NEW k \in Ids \ {n}
          PROVE  phase'[k] \in Alive <=> \E s \in Slots : net'[s] = k
      <4>1. phase'[k] = phase[k] /\ net'[slot] # k /\ net[slot] # k
        BY <2>1, <2>2, <3>2
      <4>2. (\E s \in Slots : net'[s] = k) <=> (\E s \in Slots : net[s] = k)
        BY <2>1, <4>1
      <4>3. QED
        BY <3>1, <4>1, <4>2
    <3> HIDE DEF slot
    <3>5. QED
      BY <1>1, <3>3, <3>4
  <2>4. \A s \in Slots : net'[s] # None =>
          /\ net'[s] <= nread'
          /\ lines'[net'[s]].cmd \in Starts
          /\ SlotOf(lines'[net'[s]].cmd) = s
    BY <1>1, <2>1 DEF SlotInv, NoOrphan, TypeInv, TypeOK
  <2>5. \A k \in Ids : k > nread' => phase'[k] = "unborn"
    BY <1>1, <2>2 DEF SlotInv
  <2>6. QED
    BY <1>2, <2>3, <2>4, <2>5 DEF SlotInv, NoOrphan
<1>4. CASE UNCHANGED slotVars
  <2>1. NoOrphan'
    BY <1>1, <1>4 DEF SlotInv, NoOrphan, TypeInv, TypeOK
  <2>2. \A k \in Ids : k > nread' => phase'[k] = "unborn"
    BY <1>1, <1>4 DEF SlotInv
  <2>3. QED
    BY <1>2, <2>1, <2>2 DEF SlotInv
<1>5. QED
  BY <1>3, <1>4 DEF BuildInstance

LEMMA SlotsDaemon ==
    ASSUME TypeInv, TypeInv', SlotInv, Daemon
    PROVE  SlotInv'
<1>1. CASE DaemonCloses \/ DaemonDies
  BY <1>1, SlotsUntouched DEF DaemonCloses, DaemonDies, TypeInv, TypeOK
<1>2. ASSUME NEW line \in DaemonLines, DaemonSends(line) PROVE SlotInv'
  <2>1. \A k \in 1..nread : lines'[k] = lines[k]
    BY <1>2 DEF DaemonSends, TypeInv, TypeOK
  <2>2. QED
    BY <1>2, <2>1, SlotsUntouched DEF DaemonSends, TypeInv, TypeOK
<1>3. QED
  BY <1>1, <1>2 DEF Daemon

LEMMA SlotsReading ==
    ASSUME TypeInv, TypeInv', SlotInv,
           SkipLine \/ RefuseLine \/ FatalLine \/ EndOfInput
    PROVE  SlotInv'
<1>1. CASE SkipLine \/ RefuseLine
  BY <1>1, SlotsUntouched
     DEF SkipLine, RefuseLine, Take, Over, Waited, TypeInv, TypeOK
<1>2. CASE FatalLine \/ EndOfInput
  BY <1>2, SlotsEmptied
     DEF FatalLine, EndOfInput, BreakLoop, Take, Over, Waited, TypeInv, TypeOK
<1>3. QED
  BY <1>1, <1>2

LEMMA SlotsStarting ==
    ASSUME TypeInv, TypeInv', SlotInv,
           StartRefused \/ StartFresh \/ StartReplaces \/ GraceEnds
    PROVE  SlotInv'
<1>1. ASSUME TakeStart
      PROVE  /\ pc = "read" /\ nread' = nread + 1 /\ nread' \in Ids
             /\ nread \in Nat /\ nread' \in 1..Len(lines)
             /\ lines[nread'].cmd \in Starts
             /\ phase[nread'] = "unborn"
  <2>1. nread' = nread + 1 /\ nread' \in 1..Len(lines) /\ nread' \in Ids
    BY <1>1, TakeStartTypes DEF TypeInv
  <2>2. QED
    BY <1>1, <2>1 DEF TakeStart, Take, SlotInv, TypeInv, TypeOK
<1>2. CASE StartRefused
  BY <1>1, <1>2, SlotsUntouched DEF StartRefused, Over, Waited
<1>3. CASE StartFresh
  BY <1>1, <1>3, SlotsBuilt DEF StartFresh
<1>4. CASE StartReplaces
  <2> DEFINE slots == {SlotOf(lines[nread + 1].cmd)}
  <2>1. slots \in SUBSET Slots
    BY DEF SlotOf, Slots
  <2>2. Empty(slots) /\ pc' = "grace" /\ lines' = lines
    BY <1>4 DEF StartReplaces
  <2>3. /\ nread' = nread + 1 /\ nread' <= Len(lines)
        /\ lines[nread'].cmd \in Starts
        /\ SlotOf(lines[nread'].cmd) \in slots
    <3>1. TakeStart
      BY <1>4 DEF StartReplaces
    <3>2. nread' = nread + 1
      BY <1>1, <3>1
    <3>3. SlotOf(lines[nread'].cmd) \in slots
      BY <3>2
    <3>4. QED
      BY <1>1, <3>1, <3>2, <3>3 DEF TypeInv, TypeOK
  <2> HIDE DEF slots
  <2>4. QED
    BY <2>1, <2>2, <2>3, SlotsEmptied DEF Over, Waited
<1>5. CASE GraceEnds
  BY <1>5, SlotsBuilt DEF GraceEnds, SlotInv, TypeInv, TypeOK, Busy
<1>6. QED
  BY <1>2, <1>3, <1>4, <1>5

LEMMA SlotsCommands ==
    ASSUME TypeInv, TypeInv', SlotInv,
           LeaveCommand \/ CallRefused \/ CallBegins \/ CallReturns \/ Reply
    PROVE  SlotInv'
<1>1. CASE LeaveCommand
  <2>1. Released(lines[nread + 1].cmd) \in SUBSET Slots
    BY <1>1 DEF LeaveCommand, Released, Slots, Leaves, Take
  <2>2. QED
    BY <1>1, <2>1, SlotsEmptied
       DEF LeaveCommand, Take, Over, Waited, TypeInv, TypeOK
<1>2. CASE CallRefused \/ CallBegins \/ CallReturns
  BY <1>2, SlotsUntouched
     DEF CallRefused, CallBegins, CallReturns, Take, Over, Waited, TypeInv, TypeOK
<1>3. CASE Reply /\ writer = "done"
  BY <1>3, SlotsEmptied DEF Reply, BreakLoop, Over, Waited, TypeInv, TypeOK
<1>4. CASE Reply /\ writer # "done"
  BY <1>4, SlotsUntouched DEF Reply, Over, Waited, TypeInv, TypeOK
<1>5. QED
  BY <1>1, <1>2, <1>3, <1>4

LEMMA SlotsWayOut ==
    ASSUME TypeInv, TypeInv', SlotInv,
           DropSender \/ JoinEnds \/ Exit \/ Writer
    PROVE  SlotInv'
<1>1. CASE DropSender \/ JoinEnds \/ Exit
  BY <1>1, SlotsUntouched
     DEF DropSender, JoinEnds, Exit, Over, Waited, TypeInv, TypeOK
<1>2. CASE Writer
  BY <1>2, SlotsUntouched
     DEF Writer, WriterTakes, WriterWrites, WriterFails, WriterEnds, TypeInv,
         TypeOK
<1>3. QED
  BY <1>1, <1>2

LEMMA SlotsInstances ==
    ASSUME TypeInv, TypeInv', SlotInv, Instances
    PROVE  SlotInv'
<1>1. ASSUME NEW i \in Ids, PumpSends(i) \/ PumpEnds(i) PROVE SlotInv'
  BY <1>1, SlotsUntouched DEF PumpSends, PumpEnds, TypeInv, TypeOK
<1>2. ASSUME NEW i \in Ids, Publishes(i) PROVE SlotInv'
  BY <1>2 DEF Publishes, SlotInv, NoOrphan, Alive, Holding, TypeInv, TypeOK,
              Busy
<1>3. ASSUME NEW i \in Ids, TearsDown(i) PROVE SlotInv'
  BY <1>3 DEF TearsDown, SlotInv, NoOrphan, Alive, Holding, TypeInv, TypeOK,
              Busy
<1>4. QED
  BY <1>1, <1>2, <1>3 DEF Instances

LEMMA SlotsInit == Init => SlotInv
<1> SUFFICES ASSUME Init PROVE SlotInv
  OBVIOUS
<1>1. /\ \A s \in Slots : net[s] = None
      /\ \A n \in Ids : phase[n] = "unborn" /\ n # None
      /\ pc = "read"
  BY BoundsAssumption DEF Init, None
<1>2. QED
  BY <1>1 DEF SlotInv, NoOrphan, Alive, Over, Waited

LEMMA SlotsStep == TypeInv /\ TypeInv' /\ SlotInv /\ [Next]_vars => SlotInv'
<1> SUFFICES ASSUME TypeInv, TypeInv', SlotInv, [Next]_vars PROVE SlotInv'
  OBVIOUS
<1>1. CASE UNCHANGED vars
  BY <1>1, SlotsUntouched DEF vars, TypeInv, TypeOK
<1>2. CASE Main
  BY <1>2, SlotsReading, SlotsStarting, SlotsCommands, SlotsWayOut DEF Main
<1>3. QED
  BY <1>1, <1>2, SlotsDaemon, SlotsWayOut, SlotsInstances DEF Next, Exited

LEMMA SlotsAlways == Spec => []SlotInv
BY TypeAlways, SlotsInit, SlotsStep, PTL DEF Spec

(* No instance is ever leaked or stopped behind its slot's back, whatever   *)
(* the daemon asks for and whichever starts fail (engine.rs: start, leave,  *)
(* leave_rendezvous; main.rs, the way out).                                 *)
THEOREM Orphans == Spec => []NoOrphan
<1>1. SlotInv => NoOrphan
  BY DEF SlotInv
<1>2. QED
  BY <1>1, SlotsAlways, PTL

(* However the loop ends, both networks are down from that step on, and     *)
(* every adapter too by the time main waits for the writer, if a dropped    *)
(* instance lets go within SHUTDOWN_GRACE (main.rs, the way out).           *)
THEOREM ExitIsClean == Spec => []CleanExit
<1>1. SlotInv => CleanExit
  <2> SUFFICES ASSUME SlotInv PROVE CleanExit
    OBVIOUS
  <2>1. pc \in Over => \A n \in Ids : phase[n] \notin Alive
    BY BoundsAssumption DEF SlotInv, NoOrphan, None
  <2>2. QED
    BY <2>1 DEF CleanExit, SlotInv, Over, Waited
<1>2. QED
  BY <1>1, SlotsAlways, PTL

-----------------------------------------------------------------------------
(***************************************************************************)
(* The answers.  A reply may be appended because every response so far is  *)
(* of an earlier line: the one in hand has none yet.                       *)
(***************************************************************************)
AnswersRead ==
    \A i \in Responses : /\ sent[i].id \in 1..nread
                         /\ Answerable(sent[i].id)
                         /\ Busy => sent[i].id # nread

Complete ==
    writer # "done" =>
        \A n \in 1..nread : Answerable(n) /\ ~(Busy /\ n = nread) =>
            \E i \in Responses : sent[i].id = n

AnswerInv ==
    /\ Busy => Answerable(nread)
    /\ AnswersRead
    /\ AnswersInOrder
    /\ Complete

(* Steps that neither read nor say anything. *)
LEMMA AnswersUntouched ==
    ASSUME TypeInv, AnswerInv, UNCHANGED <<sent, nread>>, Busy' <=> Busy,
           \A k \in 1..nread : lines'[k] = lines[k],
           writer' # "done" => writer # "done"
    PROVE  AnswerInv'
<1>1. Responses' = Responses /\ nread \in Nat /\ (Busy => nread \in 1..nread)
  BY DEF Responses, TypeInv, TypeOK, Busy
<1>2. \A k \in 1..nread : Answerable(k)' <=> Answerable(k)
  BY DEF Answerable
<1>3. (Busy => Answerable(nread))'
  BY <1>1, <1>2 DEF AnswerInv
<1>4. AnswersRead' /\ AnswersInOrder'
  BY <1>1, <1>2 DEF AnswerInv, AnswersRead, AnswersInOrder
<1>5. Complete'
  BY <1>1, <1>2 DEF AnswerInv, Complete
<1>6. QED
  BY <1>3, <1>4, <1>5 DEF AnswerInv

(* Steps that take a line and say nothing yet: it is in hand if it can be   *)
(* answered, and done with if it cannot.                                    *)
LEMMA AnswersTaken ==
    ASSUME TypeInv, AnswerInv, UNCHANGED <<lines, sent, writer>>,
           nread' = nread + 1, ~Busy, Busy' <=> Answerable(nread')
    PROVE  AnswerInv'
<1>1. Responses' = Responses /\ nread \in Nat
  BY DEF Responses, TypeInv, TypeOK
<1>2. \A k \in 1..nread' : Answerable(k)' <=> Answerable(k)
  BY DEF Answerable
<1>3. (Busy => Answerable(nread))'
  BY <1>1, <1>2
<1>4. AnswersRead' /\ AnswersInOrder'
  BY <1>1, <1>2 DEF AnswerInv, AnswersRead, AnswersInOrder
<1>5. Complete'
  BY <1>1, <1>2 DEF AnswerInv, Complete
<1>6. QED
  BY <1>3, <1>4, <1>5 DEF AnswerInv

(* An event between the responses. *)
LEMMA AnswersEvent ==
    ASSUME TypeInv, AnswerInv, NEW m \in Message, m.type = "event", Send(m),
           UNCHANGED <<lines, nread, pc, writer>>
    PROVE  AnswerInv'
<1>1. /\ Responses' = Responses
      /\ \A i \in Responses : sent'[i] = sent[i]
  BY DEF Responses, Send, TypeInv, TypeOK
<1>2. Busy' <=> Busy
  BY DEF Busy
<1>3. \A k \in 1..nread : Answerable(k)' <=> Answerable(k)
  BY DEF Answerable
<1>4. (Busy => Answerable(nread))'
  BY <1>2 DEF AnswerInv, Answerable
<1>5. AnswersRead' /\ AnswersInOrder'
  BY <1>1, <1>2, <1>3 DEF AnswerInv, AnswersRead, AnswersInOrder
<1>6. Complete'
  BY <1>1, <1>2, <1>3 DEF AnswerInv, Complete
<1>7. QED
  BY <1>4, <1>5, <1>6 DEF AnswerInv

(* The answer to the line in hand, or to the line just refused. *)
LEMMA AnswersSaid ==
    ASSUME TypeInv, AnswerInv, NEW n \in Ids, NEW b \in BOOLEAN,
           Send([type |-> "response", id |-> n, ok |-> b]),
           UNCHANGED <<lines, writer>>, ~Busy', Answerable(n), nread' = n,
           (Busy /\ n = nread) \/ (~Busy /\ n = nread + 1)
    PROVE  AnswerInv'
<1> DEFINE m == [type |-> "response", id |-> n, ok |-> b]
<1>1. nread \in Nat /\ n \in Nat /\ n \in 1..n
  BY BoundsAssumption DEF TypeInv, TypeOK
<1>2. \A k \in 1..n : Answerable(k)' <=> Answerable(k)
  BY DEF Answerable
<1>3. \A i \in Responses : sent[i].id \in 1..n /\ sent[i].id < n
                           /\ Answerable(sent[i].id)
  BY <1>1 DEF AnswerInv, AnswersRead
<1>4. CASE writer = "done"
  <2>1. sent' = sent /\ Responses' = Responses
    BY <1>4 DEF Send, Responses
  <2>2. QED
    BY <1>1, <1>2, <1>3, <1>4, <2>1
       DEF AnswerInv, AnswersRead, AnswersInOrder, Complete
<1>5. CASE writer # "done"
  <2>1. sent' = Append(sent, m)
    BY <1>5 DEF Send
  <2>2. m.type = "response" /\ m.id = n /\ m \in Message
    BY DEF Message
  <2> DEFINE last == Len(sent) + 1
  <2>3. /\ Len(sent) \in Nat /\ Len(sent') = last /\ sent'[last] = m
        /\ \A i \in 1..Len(sent) : sent'[i] = sent[i]
    BY <2>1, <2>2 DEF TypeInv, TypeOK
  <2>4. Responses' = Responses \cup {last}
    BY <2>2, <2>3 DEF Responses
  <2>5. \A i \in Responses : i \in 1..Len(sent) /\ i < last /\ sent'[i] = sent[i]
    BY <2>3 DEF Responses
  <2> HIDE DEF m, last
  <2>6. AnswersRead'
    BY <1>1, <1>2, <1>3, <2>2, <2>3, <2>4, <2>5 DEF AnswersRead
  <2>7. AnswersInOrder'
    BY <1>1, <1>3, <2>2, <2>3, <2>4, <2>5 DEF AnswerInv, AnswersInOrder
  <2>8. Complete'
    <3>1. \A k \in 1..n : k # n => k \in 1..nread /\ ~(Busy /\ k = nread)
      BY <1>1
    <3>2. \A k \in 1..n : Answerable(k) /\ k # n =>
             \E i \in Responses : sent[i].id = k
      BY <1>5, <3>1 DEF AnswerInv, Complete
    <3>3. \A k \in 1..n : Answerable(k) => \E i \in Responses' : sent'[i].id = k
      BY <2>2, <2>3, <2>4, <2>5, <3>2
    <3>4. QED
      BY <1>2, <3>3 DEF Complete
  <2>9. QED
    BY <2>6, <2>7, <2>8 DEF AnswerInv
<1>6. QED
  BY <1>4, <1>5

LEMMA AnswersDaemon == ASSUME TypeInv, AnswerInv, Daemon PROVE AnswerInv'
<1>1. CASE DaemonCloses \/ DaemonDies
  BY <1>1, AnswersUntouched DEF DaemonCloses, DaemonDies, Busy
<1>2. ASSUME NEW line \in DaemonLines, DaemonSends(line) PROVE AnswerInv'
  <2>1. \A k \in 1..nread : lines'[k] = lines[k]
    BY <1>2 DEF DaemonSends, TypeInv, TypeOK
  <2>2. QED
    BY <1>2, <2>1, AnswersUntouched DEF DaemonSends, Busy
<1>3. QED
  BY <1>1, <1>2 DEF Daemon

LEMMA AnswersReading ==
    ASSUME TypeInv, TypeInv', AnswerInv,
           SkipLine \/ RefuseLine \/ FatalLine \/ EndOfInput
    PROVE  AnswerInv'
<1>1. CASE SkipLine \/ FatalLine
  <2>1. nread' = nread + 1 /\ ~Busy /\ ~Busy' /\ UNCHANGED <<lines, sent, writer>>
    BY <1>1 DEF SkipLine, FatalLine, BreakLoop, Take, Busy
  <2>2. ~Answerable(nread')
    BY <1>1, <2>1
       DEF SkipLine, FatalLine, Take, Answerable, Commands, Starts, RoomStarts,
           Leaves, Calls, CredentialCalls, Skipped, Fatal
  <2>3. QED
    BY <2>1, <2>2, AnswersTaken
<1>2. CASE RefuseLine
  <2>1. /\ nread' = nread + 1 /\ nread' \in Ids /\ ~Busy /\ ~Busy'
        /\ UNCHANGED <<lines, writer>> /\ FALSE \in BOOLEAN
        /\ Send([type |-> "response", id |-> nread + 1, ok |-> FALSE])
    BY <1>2, BoundsAssumption DEF RefuseLine, Take, Busy, TypeInv, TypeOK
  <2>2. Answerable(nread + 1)
    BY <1>2 DEF RefuseLine, Take, Answerable
  <2>3. QED
    BY <2>1, <2>2, AnswersSaid
<1>3. CASE EndOfInput
  BY <1>3, AnswersUntouched DEF EndOfInput, BreakLoop, Busy
<1>4. QED
  BY <1>1, <1>2, <1>3

LEMMA AnswersStarting ==
    ASSUME TypeInv, AnswerInv,
           StartRefused \/ StartFresh \/ StartReplaces \/ GraceEnds
    PROVE  AnswerInv'
<1>1. CASE StartRefused \/ StartFresh \/ StartReplaces
  <2>1. TakeStart /\ Busy' /\ UNCHANGED <<lines, sent, writer>>
    BY <1>1 DEF StartRefused, StartFresh, StartReplaces, BuildInstance, Busy
  <2>2. nread' = nread + 1 /\ ~Busy /\ Answerable(nread')
    BY <2>1 DEF TakeStart, Take, Busy, Answerable, Commands
  <2>3. QED
    BY <2>1, <2>2, AnswersTaken
<1>2. CASE GraceEnds
  BY <1>2, AnswersUntouched DEF GraceEnds, BuildInstance, Busy
<1>3. QED
  BY <1>1, <1>2

LEMMA AnswersCommands ==
    ASSUME TypeInv, AnswerInv,
           LeaveCommand \/ CallRefused \/ CallBegins \/ CallReturns \/ Reply
    PROVE  AnswerInv'
<1>1. CASE LeaveCommand \/ CallRefused \/ CallBegins
  <2>1. nread' = nread + 1 /\ ~Busy /\ Busy' /\ UNCHANGED <<lines, sent, writer>>
    BY <1>1 DEF LeaveCommand, CallRefused, CallBegins, Take, Busy
  <2>2. Answerable(nread')
    BY <1>1, <2>1
       DEF LeaveCommand, CallRefused, CallBegins, Take, Answerable, Commands
  <2>3. QED
    BY <2>1, <2>2, AnswersTaken
<1>2. CASE CallReturns
  BY <1>2, AnswersUntouched DEF CallReturns, Busy
<1>3. CASE Reply
  <2>1. /\ Busy /\ ~Busy' /\ nread \in Ids /\ ok \in BOOLEAN
        /\ UNCHANGED <<lines, nread, writer>>
        /\ Send([type |-> "response", id |-> nread, ok |-> ok])
    BY <1>3 DEF Reply, BreakLoop, Busy, TypeInv, TypeOK
  <2>2. Answerable(nread)
    BY <2>1 DEF AnswerInv
  <2>3. QED
    BY <2>1, <2>2, AnswersSaid
<1>4. QED
  BY <1>1, <1>2, <1>3

LEMMA AnswersWayOut ==
    ASSUME TypeInv, AnswerInv, DropSender \/ JoinEnds \/ Exit \/ Writer
    PROVE  AnswerInv'
<1>1. CASE DropSender \/ JoinEnds \/ Exit
  BY <1>1, AnswersUntouched DEF DropSender, JoinEnds, Exit, Busy
<1>2. CASE Writer
  BY <1>2, AnswersUntouched
     DEF Writer, WriterTakes, WriterWrites, WriterFails, WriterEnds, Busy
<1>3. QED
  BY <1>1, <1>2

LEMMA AnswersInstances == ASSUME TypeInv, AnswerInv, Instances PROVE AnswerInv'
<1>1. ASSUME NEW i \in Ids, PumpSends(i) PROVE AnswerInv'
  <2> DEFINE m == [type |-> "event", from |-> i]
  <2>1. m \in Message /\ m.type = "event"
    BY DEF Message
  <2>2. Send(m) /\ UNCHANGED <<lines, nread, pc, writer>>
    BY <1>1 DEF PumpSends
  <2>3. QED
    BY <2>1, <2>2, AnswersEvent
<1>2. ASSUME NEW i \in Ids, PumpEnds(i) \/ Publishes(i) \/ TearsDown(i)
      PROVE  AnswerInv'
  BY <1>2, AnswersUntouched DEF PumpEnds, Publishes, TearsDown, Busy
<1>3. QED
  BY <1>1, <1>2 DEF Instances

LEMMA AnswersInit == Init => AnswerInv
<1> SUFFICES ASSUME Init PROVE AnswerInv
  OBVIOUS
<1>1. Responses = {} /\ nread = 0 /\ ~Busy
  BY DEF Init, Responses, Busy
<1>2. QED
  BY <1>1 DEF AnswerInv, AnswersRead, AnswersInOrder, Complete

LEMMA AnswersStep == TypeInv /\ TypeInv' /\ AnswerInv /\ [Next]_vars => AnswerInv'
<1> SUFFICES ASSUME TypeInv, TypeInv', AnswerInv, [Next]_vars PROVE AnswerInv'
  OBVIOUS
<1>1. CASE UNCHANGED vars
  BY <1>1, AnswersUntouched DEF vars, Busy
<1>2. CASE Main
  BY <1>2, AnswersReading, AnswersStarting, AnswersCommands, AnswersWayOut
     DEF Main
<1>3. QED
  BY <1>1, <1>2, AnswersDaemon, AnswersWayOut, AnswersInstances
     DEF Next, Exited

LEMMA AnswersAlways == Spec => []AnswerInv
BY TypeAlways, AnswersInit, AnswersStep, PTL DEF Spec

(* Responses leave in the order their requests were read, and no request is *)
(* answered twice, however many are pipelined, refused or interleaved with  *)
(* events (main.rs, the two sends of the loop).                             *)
THEOREM AnswersStayInOrder == Spec => []AnswersInOrder
<1>1. AnswerInv => AnswersInOrder
  BY DEF AnswerInv
<1>2. QED
  BY <1>1, AnswersAlways, PTL

(* While the writer listens, the lines answered are exactly those that can  *)
(* be, less the one in hand: no command with an id is ever met with silence *)
(* and nothing else is ever answered (main.rs, the loop).                   *)
THEOREM EveryLineIsAnswered == Spec => []EveryLineAnswered
<1>1. TypeInv /\ AnswerInv => EveryLineAnswered
  <2> SUFFICES ASSUME TypeInv, AnswerInv, writer # "done"
               PROVE  {sent[i].id : i \in Responses}
                         = {n \in 1..nread : Answerable(n)} \ Pending
    BY DEF EveryLineAnswered
  <2>1. Pending = IF Busy THEN {nread} ELSE {}
    BY DEF Pending, Busy
  <2>2. ASSUME NEW i \in Responses
        PROVE  sent[i].id \in {n \in 1..nread : Answerable(n)} \ Pending
    BY <2>1 DEF AnswerInv, AnswersRead
  <2>3. ASSUME NEW n \in {k \in 1..nread : Answerable(k)} \ Pending
        PROVE  \E i \in Responses : sent[i].id = n
    BY <2>1 DEF AnswerInv, Complete
  <2>4. QED
    BY <2>2, <2>3
<1>2. QED
  BY <1>1, TypeAlways, AnswersAlways, PTL

-----------------------------------------------------------------------------
(***************************************************************************)
(* The room's own commands.                                                *)
(***************************************************************************)
LEMMA RoomSteps ==
    ASSUME TypeInv, SlotInv, [Next]_vars
    PROVE  RoomStep
<1> SUFFICES ASSUME net["room"] # None, net'["room"] # net["room"]
             PROVE  \/ /\ nread' > nread
                       /\ lines[nread'].cmd \in RoomStarts \cup {"leave"}
                    \/ pc' = "drain"
  BY DEF RoomStep
<1> "room" \in Slots
  BY DEF Slots
<1>1. CASE FatalLine \/ EndOfInput \/ Reply
  BY <1>1 DEF FatalLine, EndOfInput, Reply, BreakLoop
<1>2. CASE LeaveCommand
  <2>1. "room" \in Released(lines[nread + 1].cmd)
    BY <1>2 DEF LeaveCommand, Empty
  <2>2. QED
    BY <1>2, <2>1 DEF LeaveCommand, Take, Released, TypeInv, TypeOK
<1>3. CASE StartReplaces
  <2>1. SlotOf(lines[nread + 1].cmd) = "room"
    BY <1>3 DEF StartReplaces, Empty
  <2>2. lines[nread + 1].cmd \in RoomStarts /\ nread' = nread + 1
    BY <1>3, <2>1 DEF StartReplaces, TakeStart, Take, SlotOf, Starts
  <2>3. QED
    BY <2>2 DEF TypeInv, TypeOK
<1>4. ASSUME NEW n \in Ids, BuildInstance(n), net[SlotOf(lines[n].cmd)] = None
      PROVE  FALSE
  <2>1. SlotOf(lines[n].cmd) # "room"
    BY <1>4
  <2>2. QED
    BY <1>4, <2>1 DEF BuildInstance, TypeInv, TypeOK
<1>5. CASE StartFresh
  <2>1. nread' = nread + 1 /\ nread' \in Ids
    BY <1>5, TakeStartTypes DEF StartFresh, TypeInv
  <2>2. QED
    BY <1>4, <1>5, <2>1 DEF StartFresh
<1>6. CASE GraceEnds
  BY <1>4, <1>6 DEF GraceEnds, SlotInv, TypeInv, Busy
<1>7. net' = net \/ FatalLine \/ EndOfInput \/ Reply \/ LeaveCommand
      \/ StartReplaces \/ StartFresh \/ GraceEnds
  BY DEF Next, vars, Daemon, Main, Writer, Instances, Exited,
         DaemonCloses, DaemonDies, DaemonSends, SkipLine, RefuseLine,
         StartRefused, CallRefused, CallBegins, CallReturns, DropSender,
         JoinEnds, Exit, WriterTakes, WriterWrites, WriterFails, WriterEnds,
         PumpSends, PumpEnds, Publishes, TearsDown
<1>8. QED
  BY <1>1, <1>2, <1>3, <1>5, <1>6, <1>7

(* A room that is up is stopped or replaced by its own commands, by leave,  *)
(* or by the way out: never by what is done to the lobby (engine.rs:        *)
(* leave_rendezvous, join_rendezvous, start).                               *)
THEOREM LobbyNeverTakesRoom == Spec => RoomSurvivesLobby
<1>1. TypeInv /\ SlotInv /\ [Next]_vars => [RoomStep]_vars
  BY RoomSteps
<1>2. QED
  BY <1>1, TypeAlways, SlotsAlways, PTL DEF Spec, RoomSurvivesLobby
=============================================================================
