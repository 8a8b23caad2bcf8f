------------------------ MODULE EngineHistoryProofs ------------------------
(***************************************************************************)
(* Theorems about what one command leaves for the later ones: the log, the *)
(* remembered MTU, the room behind a call, the wait a replacement owes;    *)
(* and about the two pipes as the daemon meets them.                       *)
(***************************************************************************)
EXTENDS EngineProofs, OrderedProofs

USE DEF Ids, outside, daemonVars, writerVars, mainVars, slotVars, kept

-----------------------------------------------------------------------------
(***************************************************************************)
(* What a step does to the lines read and to who was ever born.            *)
(***************************************************************************)
LEMMA LinesKept ==
    ASSUME TypeInv, [Next]_vars
    PROVE  /\ nread \in Nat /\ nread' \in {nread, nread + 1}
           /\ \A k \in 1..nread : lines'[k] = lines[k]
           /\ nread' # nread => lines' = lines /\ pc = "read"
<1>1. nread \in Nat /\ nread <= Len(lines) /\ Len(lines) \in Nat
  BY DEF TypeInv, TypeOK
<1>2. ASSUME NEW line \in DaemonLines, DaemonSends(line)
      PROVE  nread' = nread /\ \A k \in 1..nread : lines'[k] = lines[k]
  BY <1>1, <1>2 DEF DaemonSends, TypeInv, TypeOK
<1>3. CASE lines' = lines
  BY <1>1, <1>3
     DEF Next, vars, Daemon, Main, Writer, Instances, Exited, DaemonCloses,
         DaemonDies, DaemonSends, SkipLine, RefuseLine, FatalLine, EndOfInput,
         StartRefused, StartFresh, StartReplaces, GraceEnds, TakeStart, Take,
         LeaveCommand, CallRefused, CallBegins, CallReturns, Reply, DropSender,
         JoinEnds, Exit, WriterTakes, WriterWrites, WriterFails, WriterEnds,
         PumpSends, PumpEnds, Publishes, TearsDown
<1>4. lines' = lines \/ \E line \in DaemonLines : DaemonSends(line)
  BY DEF Next, vars, Daemon, Main, Writer, Instances, Exited, DaemonCloses,
         DaemonDies, SkipLine, RefuseLine, FatalLine, EndOfInput,
         StartRefused, StartFresh, StartReplaces, GraceEnds,
         LeaveCommand, CallRefused, CallBegins, CallReturns, Reply, DropSender,
         JoinEnds, Exit, WriterTakes, WriterWrites, WriterFails, WriterEnds,
         PumpSends, PumpEnds, Publishes, TearsDown
<1>5. QED
  BY <1>1, <1>2, <1>3, <1>4

(* A line is taken by a start, or it is not a start's and changes neither   *)
(* the log nor the MTU; without a line taken nothing changes them.          *)
LEMMA TakenBy ==
    ASSUME TypeInv, [Next]_vars
    PROVE  \/ TakeStart
           \/ /\ UNCHANGED <<log, room_mtu>>
              /\ nread' # nread => lines[nread'].cmd \notin Starts
<1>1. CASE StartRefused \/ StartFresh \/ StartReplaces
  BY <1>1 DEF StartRefused, StartFresh, StartReplaces
<1>2. CASE SkipLine \/ RefuseLine \/ FatalLine \/ LeaveCommand \/ CallRefused
           \/ CallBegins
  <2>1. PICK cmds \in {Skipped, {"unreadable"}, Fatal, Leaves, Calls} : Take(cmds)
    BY <1>2 DEF SkipLine, RefuseLine, FatalLine, LeaveCommand, CallRefused,
                CallBegins
  <2>2. cmds \cap Starts = {}
    BY <2>1 DEF Skipped, Fatal, Leaves, Calls, CredentialCalls, Starts, RoomStarts
  <2>3. nread' = nread + 1 /\ lines[nread'].cmd \in cmds
    BY <2>1 DEF Take
  <2>4. UNCHANGED <<log, room_mtu>>
    BY <1>2 DEF SkipLine, RefuseLine, FatalLine, LeaveCommand, CallRefused,
                CallBegins
  <2>5. QED
    BY <2>2, <2>3, <2>4
<1>3. CASE UNCHANGED <<nread, log, room_mtu>>
  BY <1>3
<1>4. QED
  BY <1>1, <1>2, <1>3
     DEF Next, vars, Daemon, Main, Writer, Instances, Exited, DaemonCloses,
         DaemonDies, DaemonSends, EndOfInput, GraceEnds, CallReturns, Reply,
         DropSender, JoinEnds, Exit, WriterTakes, WriterWrites, WriterFails,
         WriterEnds, PumpSends, PumpEnds, Publishes, TearsDown

(* The only step that brings an instance to life is the build of the line   *)
(* in hand; every other leaves the born born and the unborn unborn.         *)
LEMMA BornKept ==
    ASSUME TypeInv, TypeInv', SlotInv, [Next]_vars,
           NEW k \in 1..nread, pc # "grace" \/ k # nread
    PROVE  phase'[k] = "unborn" <=> phase[k] = "unborn"
<1>1. k \in Ids /\ nread \in Nat /\ k # nread + 1
  BY BoundsAssumption DEF TypeInv, TypeOK
<1>2. ASSUME NEW slots \in SUBSET Slots, Empty(slots)
      PROVE  phase'[k] = "unborn" <=> phase[k] = "unborn"
  BY <1>1, <1>2, EmptyKeeps DEF Empty
<1>3. ASSUME NEW n \in Ids, BuildInstance(n), n # k
      PROVE  phase'[k] = phase[k]
  BY <1>1, <1>3 DEF BuildInstance, TypeInv, TypeOK
<1>4. CASE FatalLine \/ EndOfInput \/ Reply
  BY <1>2, <1>4 DEF FatalLine, EndOfInput, Reply, BreakLoop
<1>5. CASE LeaveCommand
  <2>1. Released(lines[nread + 1].cmd) \in SUBSET Slots
    BY <1>5 DEF LeaveCommand, Released, Slots, Leaves, Take
  <2>2. QED
    BY <1>2, <1>5, <2>1 DEF LeaveCommand
<1>6. CASE StartReplaces
  <2>1. {SlotOf(lines[nread + 1].cmd)} \in SUBSET Slots
    BY DEF SlotOf, Slots
  <2>2. QED
    BY <1>2, <1>6, <2>1 DEF StartReplaces
<1>7. CASE StartFresh
  <2>1. nread + 1 \in Ids /\ BuildInstance(nread + 1)
    BY <1>7, TakeStartTypes DEF StartFresh, TypeInv
  <2>2. QED
    BY <1>1, <1>3, <2>1
<1>8. CASE GraceEnds
  <2>1. nread \in Ids /\ BuildInstance(nread) /\ k # nread
    BY <1>8 DEF GraceEnds, TypeInv, Busy
  <2>2. QED
    BY <1>3, <2>1
<1>9. ASSUME NEW i \in Ids, Publishes(i) \/ TearsDown(i)
      PROVE  phase'[k] = "unborn" <=> phase[k] = "unborn"
  BY <1>1, <1>9 DEF Publishes, TearsDown, TypeInv, TypeOK
<1>10. CASE phase' = phase
  BY <1>10
<1>11. QED
  BY <1>4, <1>5, <1>6, <1>7, <1>8, <1>9, <1>10
     DEF Next, vars, Daemon, Main, Writer, Instances, Exited, DaemonCloses,
         DaemonDies, DaemonSends, SkipLine, RefuseLine, StartRefused,
         CallRefused, CallBegins, CallReturns, DropSender, JoinEnds, Exit,
         WriterTakes, WriterWrites, WriterFails, WriterEnds, PumpSends, PumpEnds

-----------------------------------------------------------------------------
(* Once a start command that names a directory has been read, refused or    *)
(* not, the log is settled for the life of the process (log.rs: init_once;  *)
(* engine.rs: host, join, join_rendezvous).                                 *)
THEOREM LogIsStarted == Spec => []LogStarted
<1>1. Init => LogStarted
  BY DEF Init, LogStarted
<1>2. TypeInv /\ LogStarted /\ [Next]_vars => LogStarted'
  <2> SUFFICES ASSUME TypeInv, LogStarted, [Next]_vars, NEW n \in 1..nread',
                      lines'[n].cmd \in Starts, lines'[n].log_dir
               PROVE  log' # "off"
    BY DEF LogStarted
  <2>1. CASE n \in 1..nread
    <3>1. log # "off"
      BY <2>1, LinesKept DEF LogStarted
    <3>2. QED
      BY <3>1, TakenBy DEF TakeStart, InitLog
  <2>2. CASE n \notin 1..nread
    <3>1. n = nread + 1 /\ n = nread' /\ lines' = lines /\ nread' # nread
      BY <2>2, LinesKept
    <3>2. QED
      BY <3>1, TakenBy DEF TakeStart, InitLog
  <2>3. QED
    BY <2>1, <2>2
<1>3. QED
  BY <1>1, <1>2, TypeAlways, PTL DEF Spec

-----------------------------------------------------------------------------
(***************************************************************************)
(* The MTU.  While a replacement sleeps, the MTU already belongs to the    *)
(* room that is about to be built.                                         *)
(***************************************************************************)
MtuInv ==
    /\ MtuUnlessRefused
    /\ pc = "grace" /\ lines[nread].cmd \in RoomStarts =>
          room_mtu = Asked(lines[nread])

LEMMA MtuBuilt ==
    ASSUME TypeInv, SlotInv, MtuInv, NEW n \in Ids, BuildInstance(n),
           lines' = lines, nread' = n, nread <= n,
           lines[n].cmd \in Starts, net[SlotOf(lines[n].cmd)] = None,
           lines[n].cmd \in RoomStarts => room_mtu' = Asked(lines[n]),
           lines[n].cmd \notin RoomStarts => room_mtu' = room_mtu
    PROVE  MtuInv'
<1>1. pc' # "grace"
  BY DEF BuildInstance
<1>2. net["room"] \in Ids \cup {None} /\ nread \in Nat /\ n \in Nat
  BY DEF TypeInv, TypeOK, Slots
<1>3. CASE lines[n].cmd \in RoomStarts
  <2>1. SlotOf(lines[n].cmd) = "room"
    BY <1>3 DEF SlotOf, RoomStarts
  <2>2. net'["room"] \in {n, None}
    BY <2>1 DEF BuildInstance, TypeInv, TypeOK, Slots
  <2>3. QED
    BY <1>1, <1>3, <2>2 DEF MtuInv, MtuUnlessRefused
<1>4. CASE lines[n].cmd \notin RoomStarts
  <2>1. SlotOf(lines[n].cmd) = "lobby"
    BY <1>4 DEF SlotOf, Starts
  <2>2. net'["room"] = net["room"]
    BY <2>1 DEF BuildInstance, TypeInv, TypeOK, Slots
  <2>3. \A k \in (net["room"] + 1)..nread : k \in (net["room"] + 1)..n
    BY <1>2, BoundsAssumption DEF None
  <2>4. QED
    BY <1>1, <1>4, <2>2, <2>3 DEF MtuInv, MtuUnlessRefused
<1>5. QED
  BY <1>3, <1>4

LEMMA MtuStep ==
    ASSUME TypeInv, TypeInv', SlotInv, SlotInv', MtuInv, [Next]_vars
    PROVE  MtuInv'
<1>1. /\ nread \in Nat /\ nread' \in {nread, nread + 1}
      /\ \A k \in 1..nread : lines'[k] = lines[k]
      /\ nread' # nread => lines' = lines /\ pc = "read"
  BY LinesKept
<1>2. /\ net["room"] \in Ids \cup {None} /\ net'["room"] \in Ids \cup {None}
      /\ net["room"] # None => net["room"] \in 1..nread
  BY BoundsAssumption DEF TypeInv, TypeOK, Slots, SlotInv, NoOrphan, None
<1>3. CASE StartFresh
  <2>1. TakeStart /\ nread + 1 \in Ids /\ BuildInstance(nread + 1)
    BY <1>3, TakeStartTypes DEF StartFresh, TypeInv
  <2>2. lines' = lines /\ nread' = nread + 1
        /\ lines[nread + 1].cmd \in Starts
        /\ net[SlotOf(lines[nread + 1].cmd)] = None
    BY <1>3 DEF StartFresh, TakeStart, Take
  <2>3. room_mtu' = IF lines[nread + 1].cmd \in RoomStarts
                      THEN Asked(lines[nread + 1]) ELSE room_mtu
    BY <2>1 DEF TakeStart, RememberMtu
  <2>4. QED
    BY <1>1, <2>1, <2>2, <2>3, MtuBuilt
<1>4. CASE GraceEnds
  <2>1. nread \in Ids /\ BuildInstance(nread) /\ lines' = lines
        /\ nread' = nread /\ room_mtu' = room_mtu
    BY <1>4 DEF GraceEnds, TypeInv, Busy
  <2>2. lines[nread].cmd \in Starts /\ net[SlotOf(lines[nread].cmd)] = None
    BY <1>4 DEF GraceEnds, SlotInv
  <2>3. lines[nread].cmd \in RoomStarts => room_mtu' = Asked(lines[nread])
    BY <1>4, <2>1 DEF GraceEnds, MtuInv
  <2>4. QED
    BY <1>1, <2>1, <2>2, <2>3, MtuBuilt
<1>5. CASE ~StartFresh /\ ~GraceEnds
  <2>1. net'["room"] \in {None, net["room"]}
    BY <1>5 DEF Next, vars, Daemon, Main, Writer, Instances, Exited,
       DaemonCloses, DaemonDies, DaemonSends, SkipLine, RefuseLine, FatalLine,
       EndOfInput, StartRefused, StartReplaces, LeaveCommand, CallRefused,
       CallBegins, CallReturns, Reply, BreakLoop, Empty, Slots, DropSender,
       JoinEnds, Exit, WriterTakes, WriterWrites, WriterFails, WriterEnds,
       PumpSends, PumpEnds, Publishes, TearsDown
  <2>2. pc' = "grace" => \/ pc = "grace" /\ UNCHANGED <<nread, room_mtu>>
                         \/ TakeStart
    BY <1>5 DEF Next, vars, Daemon, Main, Writer, Instances, Exited,
       DaemonCloses, DaemonDies, DaemonSends, SkipLine, RefuseLine, FatalLine,
       EndOfInput, StartRefused, StartReplaces, LeaveCommand, CallRefused,
       CallBegins, CallReturns, Reply, BreakLoop, Take, TakeStart, DropSender,
       JoinEnds, Exit, WriterTakes, WriterWrites, WriterFails, WriterEnds,
       PumpSends, PumpEnds, Publishes, TearsDown
  <2>3. ASSUME TakeStart
        PROVE  /\ nread' = nread + 1
               /\ room_mtu' = IF lines[nread'].cmd \in RoomStarts
                                THEN Asked(lines[nread']) ELSE room_mtu
    BY <2>3 DEF TakeStart, Take, RememberMtu
  <2>4. MtuUnlessRefused'
    <3> SUFFICES ASSUME net'["room"] # None
                 PROVE  \/ room_mtu' = Asked(lines'[net'["room"]])
                        \/ \E k \in (net'["room"] + 1)..nread' :
                              lines'[k].cmd \in RoomStarts
      BY DEF MtuUnlessRefused
    <3>1. net'["room"] = net["room"] /\ net["room"] \in 1..nread
      BY <1>2, <2>1
    <3>2. CASE \E k \in (net["room"] + 1)..nread : lines[k].cmd \in RoomStarts
      <4>1. PICK k \in (net["room"] + 1)..nread : lines[k].cmd \in RoomStarts
        BY <3>2
      <4>2. k \in 1..nread /\ k \in (net["room"] + 1)..nread'
        BY <1>1, <3>1, <4>1
      <4>3. QED
        BY <1>1, <3>1, <4>1, <4>2
    <3>3. CASE room_mtu = Asked(lines[net["room"]]) /\ room_mtu' = room_mtu
      BY <1>1, <3>1, <3>3
    <3>4. CASE TakeStart /\ lines[nread'].cmd \in RoomStarts
      <4>1. nread' \in (net["room"] + 1)..nread' /\ lines' = lines
        BY <1>1, <2>3, <3>1, <3>4
      <4>2. QED
        BY <3>1, <3>4, <4>1
    <3>5. QED
      BY <2>3, <3>1, <3>2, <3>3, <3>4, TakenBy DEF MtuInv, MtuUnlessRefused
  <2>5. pc' = "grace" /\ lines'[nread'].cmd \in RoomStarts =>
            room_mtu' = Asked(lines'[nread'])
    <3>1. CASE TakeStart
      BY <1>1, <2>3, <3>1
    <3>2. CASE pc = "grace" /\ UNCHANGED <<nread, room_mtu>>
      <4>1. nread \in 1..nread
        BY <1>1, <3>2 DEF TypeInv, Busy
      <4>2. QED
        BY <1>1, <3>2, <4>1 DEF MtuInv
    <3>3. QED
      BY <2>2, <3>1, <3>2
  <2>6. QED
    BY <2>4, <2>5 DEF MtuInv
<1>6. QED
  BY <1>3, <1>4, <1>5

(* The MTU the engine remembers is the one the running room was started     *)
(* with, unless a later room command was read and refused (engine.rs: host, *)
(* join, room_mtu).                                                         *)
THEOREM MtuIsTheRooms == Spec => []MtuUnlessRefused
<1>1. Init => MtuInv
  BY DEF Init, MtuInv, MtuUnlessRefused, Slots
<1>2. TypeInv /\ TypeInv' /\ SlotInv /\ SlotInv' /\ MtuInv /\ [Next]_vars => MtuInv'
  BY MtuStep
<1>3. MtuInv => MtuUnlessRefused
  BY DEF MtuInv
<1>4. QED
  BY <1>1, <1>2, <1>3, TypeAlways, SlotsAlways, PTL DEF Spec

-----------------------------------------------------------------------------
(***************************************************************************)
(* What an answer says of the start it answers.  The response being built  *)
(* must already be right, and the command in a call is no start.           *)
(***************************************************************************)
OkInv ==
    /\ OkMeansStarted
    /\ pc = "reply" /\ lines[nread].cmd \in Starts =>
          (ok <=> phase[nread] # "unborn")
    /\ pc = "call" => lines[nread].cmd \in Calls

(* The responses there are, after a step that adds at most one. *)
LEMMA ResponsesKept ==
    ASSUME TypeInv, AnswerInv, [Next]_vars
    PROVE  /\ \A i \in Responses : i \in Responses' /\ sent'[i] = sent[i]
           /\ \A i \in Responses' \ Responses :
                 \/ Reply /\ sent'[i] = [type |-> "response", id |-> nread, ok |-> ok]
                 \/ RefuseLine /\ sent'[i] = [type |-> "response", id |-> nread + 1,
                                               ok |-> FALSE]
<1>1. ASSUME NEW m, Send(m)
      PROVE  /\ \A i \in Responses : i \in Responses' /\ sent'[i] = sent[i]
             /\ \A i \in Responses' \ Responses :
                   sent'[i] = m /\ m.type = "response"
  <2>1. CASE writer = "done"
    BY <1>1, <2>1 DEF Send, Responses
  <2>2. CASE writer # "done"
    <3>1. sent' = Append(sent, m) /\ sent \in Seq(Message)
      BY <1>1, <2>2 DEF Send, TypeInv, TypeOK
    <3>2. /\ Len(sent) \in Nat /\ Len(sent') = Len(sent) + 1
          /\ \A i \in 1..Len(sent) : sent'[i] = sent[i]
          /\ sent'[Len(sent) + 1] = m
      BY <3>1
    <3>3. QED
      BY <3>2 DEF Responses
  <2>3. QED
    BY <2>1, <2>2
<1>2. CASE Reply
  BY <1>1, <1>2 DEF Reply
<1>3. CASE RefuseLine
  BY <1>1, <1>3 DEF RefuseLine
<1>4. ASSUME NEW i \in Ids, PumpSends(i)
      PROVE  /\ \A k \in Responses : k \in Responses' /\ sent'[k] = sent[k]
             /\ Responses' \subseteq Responses
  <2> DEFINE m == [type |-> "event", from |-> i]
  <2>1. Send(m) /\ m.type # "response"
    BY <1>4 DEF PumpSends
  <2> HIDE DEF m
  <2>2. QED
    BY <1>1, <2>1
<1>5. CASE sent' = sent
  BY <1>5 DEF Responses
<1>6. QED
  BY <1>2, <1>3, <1>4, <1>5
     DEF Next, vars, Daemon, Main, Writer, Instances, Exited, DaemonCloses,
         DaemonDies, DaemonSends, SkipLine, FatalLine, EndOfInput,
         StartRefused, StartFresh, StartReplaces, GraceEnds, LeaveCommand,
         CallRefused, CallBegins, CallReturns, DropSender, JoinEnds, Exit,
         WriterTakes, WriterWrites, WriterFails, WriterEnds, PumpEnds,
         Publishes, TearsDown

LEMMA OkBuilt ==
    ASSUME TypeInv, NEW n \in Ids, BuildInstance(n), phase[n] = "unborn"
    PROVE  pc' = "reply" /\ (ok' <=> phase'[n] # "unborn")
<1>1. CASE ok' = TRUE /\ phase' = [phase EXCEPT ![n] = "starting"]
  BY <1>1 DEF BuildInstance, TypeInv, TypeOK
<1>2. CASE ok' = FALSE /\ phase' = phase
  <2>1. ~ok'
    BY <1>2
  <2>2. phase'[n] = "unborn"
    BY <1>2
  <2>3. QED
    BY <2>1, <2>2 DEF BuildInstance
<1>3. QED
  BY <1>1, <1>2 DEF BuildInstance

(* The response in preparation, whichever step prepares it. *)
LEMMA OkInHand ==
    ASSUME TypeInv, TypeInv', SlotInv, SlotInv', OkInv, [Next]_vars
    PROVE  /\ pc' = "reply" /\ lines'[nread'].cmd \in Starts =>
                 (ok' <=> phase'[nread'] # "unborn")
           /\ pc' = "call" => lines'[nread'].cmd \in Calls
<1>1. /\ nread \in Nat /\ nread' \in {nread, nread + 1}
      /\ \A k \in 1..nread : lines'[k] = lines[k]
      /\ nread' # nread => lines' = lines /\ pc = "read"
  BY LinesKept
<1>2. CASE StartFresh
  <2>1. TakeStart /\ nread + 1 \in Ids /\ BuildInstance(nread + 1)
        /\ nread' = nread + 1
    BY <1>2, TakeStartTypes DEF StartFresh, TypeInv
  <2>2. phase[nread + 1] = "unborn"
    BY <1>1, <2>1 DEF SlotInv
  <2>3. QED
    BY <2>1, <2>2, OkBuilt
<1>3. CASE GraceEnds
  <2>1. nread \in Ids /\ BuildInstance(nread) /\ nread' = nread
        /\ phase[nread] = "unborn"
    BY <1>3 DEF GraceEnds, SlotInv, TypeInv, Busy
  <2>2. QED
    BY <2>1, OkBuilt
<1>4. CASE StartRefused
  <2>1. TakeStart /\ nread' = nread + 1 /\ nread' \in Ids
    BY <1>4, TakeStartTypes DEF StartRefused, TypeInv
  <2>2. phase[nread'] = "unborn" /\ phase' = phase
    BY <1>1, <1>4, <2>1 DEF SlotInv, StartRefused
  <2>3. ~ok' /\ pc' = "reply"
    BY <1>4 DEF StartRefused
  <2>4. QED
    BY <2>2, <2>3
<1>5. CASE LeaveCommand \/ CallRefused \/ CallBegins
  <2>1. PICK cmds \in {Leaves, Calls} :
             Take(cmds) /\ (pc' = "call" => cmds = Calls)
    BY <1>5 DEF LeaveCommand, CallRefused, CallBegins
  <2>2. lines'[nread'].cmd \in cmds
    BY <1>1, <1>5, <2>1 DEF Take
  <2>3. cmds \cap Starts = {}
    BY <2>1 DEF Leaves, Calls, CredentialCalls, Starts, RoomStarts
  <2>4. QED
    BY <2>1, <2>2, <2>3
<1>6. CASE CallReturns
  <2>1. lines[nread].cmd \in Calls /\ lines' = lines /\ nread' = nread
        /\ pc' = "reply"
    BY <1>6 DEF CallReturns, OkInv
  <2>2. Calls \cap Starts = {}
    BY DEF Calls, CredentialCalls, Starts, RoomStarts
  <2>3. QED
    BY <2>1, <2>2
<1>7. CASE pc' \notin {"reply", "call"}
  BY <1>7
<1>8. CASE pc' = pc /\ UNCHANGED <<nread, ok>> /\ Busy
  <2>1. nread \in 1..nread
    BY <1>1, <1>8 DEF TypeInv
  <2>2. pc # "grace" => (phase'[nread] = "unborn" <=> phase[nread] = "unborn")
    BY <2>1, BornKept
  <2>3. QED
    BY <1>1, <1>8, <2>1, <2>2 DEF OkInv
<1>9. QED
  BY <1>2, <1>3, <1>4, <1>5, <1>6, <1>7, <1>8
     DEF Next, vars, Daemon, Main, Writer, Instances, Exited, DaemonCloses,
         DaemonDies, DaemonSends, SkipLine, RefuseLine, FatalLine, EndOfInput,
         StartReplaces, TakeStart, Take, Reply, BreakLoop, DropSender, JoinEnds,
         Exit, WriterTakes, WriterWrites, WriterFails, WriterEnds, PumpSends,
         PumpEnds, Publishes, TearsDown, Busy

LEMMA OkStep ==
    ASSUME TypeInv, TypeInv', SlotInv, SlotInv', AnswerInv, OkInv, [Next]_vars
    PROVE  OkInv'
<1> SUFFICES ASSUME NEW i \in Responses', lines'[sent'[i].id].cmd \in Starts
             PROVE  sent'[i].ok <=> phase'[sent'[i].id] # "unborn"
  BY OkInHand DEF OkInv, OkMeansStarted
<1>1. \A k \in 1..nread : lines'[k] = lines[k]
  BY LinesKept
<1>2. CASE i \in Responses
  <2>1. sent'[i] = sent[i]
    BY <1>2, ResponsesKept
  <2>2. sent[i].id \in 1..nread /\ (Busy => sent[i].id # nread)
    BY <1>2 DEF AnswerInv, AnswersRead
  <2>3. phase'[sent[i].id] = "unborn" <=> phase[sent[i].id] = "unborn"
    BY <2>2, BornKept DEF Busy
  <2>4. sent[i].ok <=> phase[sent[i].id] # "unborn"
    BY <1>1, <1>2, <2>1, <2>2 DEF OkInv, OkMeansStarted
  <2>5. QED
    BY <2>1, <2>3, <2>4
<1>3. CASE i \notin Responses /\ Reply
  <2>1. sent'[i].id = nread /\ sent'[i].ok = ok
    <3>1. ~RefuseLine
      BY <1>3 DEF Reply, RefuseLine, Take
    <3>2. sent'[i] = [type |-> "response", id |-> nread, ok |-> ok]
      BY <1>3, <3>1, ResponsesKept
    <3>3. QED
      BY <3>2
  <2>2. nread \in 1..nread /\ pc = "reply"
    BY <1>3 DEF Reply, TypeInv, TypeOK, Busy
  <2>3. phase'[nread] = "unborn" <=> phase[nread] = "unborn"
    BY <2>2, BornKept
  <2>4. QED
    BY <1>1, <2>1, <2>2, <2>3 DEF OkInv
<1>4. CASE i \notin Responses /\ RefuseLine
  <2>1. sent'[i].id = nread + 1
    <3>1. ~Reply
      BY <1>4 DEF Reply, RefuseLine, Take
    <3>2. sent'[i] = [type |-> "response", id |-> nread + 1, ok |-> FALSE]
      BY <1>4, <3>1, ResponsesKept
    <3>3. QED
      BY <3>2
  <2>2. lines'[nread + 1].cmd = "unreadable"
    BY <1>4 DEF RefuseLine, Take
  <2>3. QED
    BY <2>1, <2>2 DEF Starts, RoomStarts
<1>5. QED
  BY <1>2, <1>3, <1>4, ResponsesKept

LEMMA OkAlways == Spec => []OkInv
<1>1. Init => OkInv
  BY DEF Init, OkInv, OkMeansStarted, Responses
<1>2. TypeInv /\ TypeInv' /\ SlotInv /\ SlotInv' /\ AnswerInv /\ OkInv
         /\ [Next]_vars => OkInv'
  BY OkStep
<1>3. QED
  BY <1>1, <1>2, TypeAlways, SlotsAlways, AnswersAlways, PTL DEF Spec

(* A start is answered ok exactly when it built an instance: what was       *)
(* refused, or failed after its slot was emptied, left nothing behind       *)
(* (engine.rs: start; main.rs: dispatch).                                   *)
THEOREM OkMeansAnInstance == Spec => []OkMeansStarted
<1>1. OkInv => OkMeansStarted
  BY DEF OkInv
<1>2. QED
  BY <1>1, OkAlways, PTL

-----------------------------------------------------------------------------
(***************************************************************************)
(* The room behind a call.  As long as a room is up, no later line was a   *)
(* leave or a room command that built anything.                            *)
(***************************************************************************)
Behind(ls, ph, n) ==                    \* RoomBehind, of given lines and phases
    \E k \in 1..(n - 1) :
        /\ ls[k].cmd \in RoomStarts /\ ph[k] # "unborn"
        /\ \A j \in (k + 1)..(n - 1) :
              /\ ls[j].cmd # "leave"
              /\ ls[j].cmd \in RoomStarts => ph[j] = "unborn"

RoomSince ==
    net["room"] # None =>
        \A j \in (net["room"] + 1)..nread :
            /\ lines[j].cmd # "leave"
            /\ lines[j].cmd \in RoomStarts => phase[j] = "unborn"

CallInv ==
    /\ OkCallHadRoom
    /\ RoomSince
    /\ pc = "call" => net["room"] # None /\ Behind(lines, phase, nread)
    /\ pc = "reply" /\ ok /\ lines[nread].cmd \in Calls => Behind(lines, phase, nread)

LEMMA RoomOfSlot ==
    ASSUME TypeInv, SlotInv, net["room"] # None
    PROVE  /\ net["room"] \in 1..nread
           /\ lines[net["room"]].cmd \in RoomStarts
           /\ phase[net["room"]] # "unborn"
<1>1. "room" \in Slots
  BY DEF Slots
<1>2. net["room"] \in Ids /\ net["room"] <= nread /\ nread \in Nat
  BY <1>1 DEF SlotInv, NoOrphan, TypeInv, TypeOK
<1>3. phase[net["room"]] \in Alive
  BY <1>1, <1>2 DEF SlotInv, NoOrphan
<1>4. lines[net["room"]].cmd \in Starts /\ SlotOf(lines[net["room"]].cmd) = "room"
  BY <1>1 DEF SlotInv, NoOrphan
<1>5. lines[net["room"]].cmd \in RoomStarts
  BY <1>4 DEF SlotOf, Starts
<1>6. QED
  BY <1>2, <1>3, <1>5 DEF Alive

(* A room that is not of the line just read was there before it, and that   *)
(* line was no leave and built no room.                                     *)
LEMMA RoomStays ==
    ASSUME TypeInv, TypeInv', SlotInv, SlotInv', [Next]_vars,
           net'["room"] # None, net'["room"] # nread'
    PROVE  /\ net'["room"] = net["room"]
           /\ nread' # nread =>
                 /\ lines[nread'].cmd # "leave"
                 /\ lines[nread'].cmd \in RoomStarts => phase'[nread'] = "unborn"
<1>1. "room" \in Slots /\ nread \in Nat
  BY DEF Slots, TypeInv, TypeOK
<1>2. CASE StartRefused
  <2>1. TakeStart /\ nread' = nread + 1 /\ nread' \in Ids
    BY <1>2, TakeStartTypes DEF StartRefused, TypeInv
  <2>2. phase'[nread'] = "unborn" /\ net' = net
    BY <1>1, <1>2, <2>1 DEF SlotInv, StartRefused
  <2>3. lines[nread'].cmd # "leave"
    BY <2>1 DEF TakeStart, Take, Starts, RoomStarts
  <2>4. QED
    BY <2>2, <2>3
<1>3. CASE StartFresh
  <2>1. TakeStart /\ nread' = nread + 1 /\ nread' \in Ids
        /\ BuildInstance(nread')
        /\ lines[nread'].cmd \in Starts
        /\ net[SlotOf(lines[nread'].cmd)] = None
    BY <1>3, TakeStartTypes DEF StartFresh, TakeStart, Take, TypeInv
  <2>2. CASE lines[nread'].cmd \in RoomStarts
    <3>1. SlotOf(lines[nread'].cmd) = "room"
      BY <2>2 DEF SlotOf, RoomStarts
    <3>2. net'["room"] \in {nread', None}
      BY <1>1, <2>1, <3>1 DEF BuildInstance, TypeInv, TypeOK
    <3>3. QED
      BY <3>2
  <2>3. CASE lines[nread'].cmd \notin RoomStarts
    <3>1. SlotOf(lines[nread'].cmd) = "lobby" /\ lines[nread'].cmd # "leave"
      BY <2>1, <2>3 DEF SlotOf, Starts
    <3>2. net'["room"] = net["room"]
      BY <1>1, <2>1, <3>1 DEF BuildInstance, TypeInv, TypeOK
    <3>3. QED
      BY <2>3, <3>1, <3>2
  <2>4. QED
    BY <2>2, <2>3
<1>4. CASE GraceEnds
  <2>1. nread' = nread /\ BuildInstance(nread)
    BY <1>4 DEF GraceEnds
  <2>2. net'["room"] \in {nread, net["room"]}
    BY <1>1, <2>1 DEF BuildInstance, TypeInv, TypeOK, SlotOf
  <2>3. QED
    BY <2>1, <2>2
<1>5. CASE StartReplaces
  <2>1. /\ nread' = nread + 1 /\ lines[nread'].cmd \in Starts
        /\ Empty({SlotOf(lines[nread'].cmd)})
    BY <1>5 DEF StartReplaces, TakeStart, Take
  <2>2. SlotOf(lines[nread'].cmd) # "room"
    BY <1>1, <2>1 DEF Empty
  <2>3. lines[nread'].cmd \notin RoomStarts /\ lines[nread'].cmd # "leave"
    BY <2>1, <2>2 DEF SlotOf, RoomStarts, Starts
  <2>4. net'["room"] = net["room"]
    BY <1>1, <2>1 DEF Empty
  <2>5. QED
    BY <2>3, <2>4
<1>6. CASE LeaveCommand
  <2>1. /\ nread' = nread + 1 /\ lines[nread'].cmd \in Leaves
        /\ Empty(Released(lines[nread'].cmd))
    BY <1>6 DEF LeaveCommand, Take
  <2>2. "room" \notin Released(lines[nread'].cmd)
    BY <1>1, <2>1 DEF Empty
  <2>3. lines[nread'].cmd # "leave"
    BY <1>1, <2>2 DEF Released
  <2>4. net'["room"] = net["room"] /\ lines[nread'].cmd \notin RoomStarts
    BY <1>1, <2>1 DEF Empty, Leaves, RoomStarts
  <2>5. QED
    BY <2>3, <2>4
<1>7. CASE SkipLine \/ RefuseLine \/ CallRefused \/ CallBegins
  <2>1. PICK cmds \in {Skipped, {"unreadable"}, Calls} : Take(cmds)
    BY <1>7 DEF SkipLine, RefuseLine, CallRefused, CallBegins
  <2>2. lines[nread'].cmd \in cmds
    BY <2>1 DEF Take
  <2>3. lines[nread'].cmd \notin RoomStarts /\ lines[nread'].cmd # "leave"
    BY <2>1, <2>2 DEF Skipped, Calls, CredentialCalls, RoomStarts
  <2>4. net' = net
    BY <1>7 DEF SkipLine, RefuseLine, CallRefused, CallBegins
  <2>5. QED
    BY <2>3, <2>4
<1>8. CASE FatalLine \/ EndOfInput
  BY <1>1, <1>8 DEF FatalLine, EndOfInput, BreakLoop, Empty
<1>9. CASE Reply
  BY <1>1, <1>9 DEF Reply, BreakLoop, Empty
<1>10. CASE UNCHANGED <<net, nread>>
  BY <1>10
<1>11. QED
  BY <1>2, <1>3, <1>4, <1>5, <1>6, <1>7, <1>8, <1>9, <1>10
     DEF Next, vars, Daemon, Main, Writer, Instances, Exited, DaemonCloses,
         DaemonDies, DaemonSends, CallReturns, DropSender, JoinEnds, Exit,
         WriterTakes, WriterWrites, WriterFails, WriterEnds, PumpSends,
         PumpEnds, Publishes, TearsDown

LEMMA RoomSinceStep ==
    ASSUME TypeInv, TypeInv', SlotInv, SlotInv', RoomSince, [Next]_vars
    PROVE  RoomSince'
<1> SUFFICES ASSUME net'["room"] # None, NEW j \in (net'["room"] + 1)..nread'
             PROVE  /\ lines'[j].cmd # "leave"
                    /\ lines'[j].cmd \in RoomStarts => phase'[j] = "unborn"
  BY DEF RoomSince
<1>1. /\ nread \in Nat /\ nread' \in {nread, nread + 1}
      /\ \A k \in 1..nread : lines'[k] = lines[k]
      /\ nread' # nread => lines' = lines
  BY LinesKept
<1>2. net'["room"] \in 1..nread'
  BY DEF SlotInv, NoOrphan, TypeInv, TypeOK, Slots
<1>3. net'["room"] # nread'
  BY <1>1, <1>2
<1>4. CASE j = nread' /\ nread' # nread
  BY <1>1, <1>3, <1>4, RoomStays
<1>5. CASE j \in 1..nread
  <2>1. net'["room"] = net["room"] /\ j \in (net["room"] + 1)..nread
    BY <1>3, <1>5, RoomStays
  <2>2. /\ lines[j].cmd # "leave"
        /\ lines[j].cmd \in RoomStarts => phase[j] = "unborn"
    BY <2>1 DEF RoomSince
  <2>3. CASE pc = "grace" /\ j = nread
    <3>1. net[SlotOf(lines[nread].cmd)] = None
      BY <2>3 DEF SlotInv
    <3>2. lines[nread].cmd \notin RoomStarts
      BY <2>1, <3>1 DEF SlotOf, RoomStarts
    <3>3. QED
      BY <1>1, <1>5, <2>2, <2>3, <3>2
  <2>4. CASE pc # "grace" \/ j # nread
    BY <1>1, <1>5, <2>2, <2>4, BornKept
  <2>5. QED
    BY <2>3, <2>4
<1>6. QED
  BY <1>1, <1>2, <1>4, <1>5

(* Once a room is behind a line, it stays behind it. *)
LEMMA RoomBehindKept ==
    ASSUME TypeInv, TypeInv', SlotInv, [Next]_vars,
           NEW n \in 1..nread, Behind(lines, phase, n)
    PROVE  Behind(lines', phase', n)
<1>1. /\ nread \in Nat
      /\ \A k \in 1..nread : lines'[k] = lines[k]
  BY LinesKept
<1>2. ASSUME NEW k \in 1..(n - 1)
      PROVE  /\ lines'[k] = lines[k]
             /\ phase'[k] = "unborn" <=> phase[k] = "unborn"
  <2>1. k \in 1..nread /\ k # nread
    BY <1>1
  <2>2. QED
    BY <1>1, <2>1, BornKept
<1>3. PICK k \in 1..(n - 1) :
        /\ lines[k].cmd \in RoomStarts /\ phase[k] # "unborn"
        /\ \A j \in (k + 1)..(n - 1) :
              /\ lines[j].cmd # "leave"
              /\ lines[j].cmd \in RoomStarts => phase[j] = "unborn"
  BY DEF Behind
<1>4. \A j \in (k + 1)..(n - 1) : j \in 1..(n - 1)
  BY <1>1
<1>5. QED
  BY <1>2, <1>3, <1>4 DEF Behind

LEMMA CallStarts ==
    ASSUME TypeInv, TypeInv', SlotInv, RoomSince, [Next]_vars, CallBegins
    PROVE  Behind(lines', phase', nread')
<1>1. /\ nread \in Nat /\ nread' = nread + 1 /\ lines' = lines
      /\ phase' = phase /\ net["room"] # None
  BY LinesKept DEF CallBegins, Take, ApiIsUp
<1>2. /\ net["room"] \in 1..nread
      /\ lines[net["room"]].cmd \in RoomStarts
      /\ phase[net["room"]] # "unborn"
  BY <1>1, RoomOfSlot
<1>3. nread' - 1 = nread
  BY <1>1
<1>4. QED
  BY <1>1, <1>2, <1>3 DEF Behind, RoomSince

LEMMA CallStep ==
    ASSUME TypeInv, TypeInv', SlotInv, SlotInv', AnswerInv, OkInv, CallInv,
           [Next]_vars
    PROVE  CallInv'
<1>1. /\ nread \in Nat /\ nread' \in {nread, nread + 1}
      /\ \A k \in 1..nread : lines'[k] = lines[k]
  BY LinesKept
<1>2. RoomSince'
  BY RoomSinceStep DEF CallInv
<1>3. ASSUME pc' = "call" PROVE Behind(lines', phase', nread')
  <2>1. CASE CallBegins
    BY <2>1, CallStarts DEF CallInv
  <2>2. CASE pc = "call" /\ nread' = nread
    <3>1. nread \in 1..nread /\ Behind(lines, phase, nread)
      BY <2>2 DEF CallInv, TypeInv, Busy
    <3>2. Behind(lines', phase', nread)
      BY <3>1, RoomBehindKept
    <3>3. QED
      BY <2>2, <3>2
  <2>3. QED
    BY <1>3, <2>1, <2>2
       DEF Next, vars, Daemon, Main, Writer, Instances, Exited, DaemonCloses,
           DaemonDies, DaemonSends, SkipLine, RefuseLine, FatalLine, EndOfInput,
           StartRefused, StartFresh, StartReplaces, GraceEnds, BuildInstance,
           LeaveCommand, CallRefused, CallReturns, Take, TakeStart, Reply,
           BreakLoop, DropSender, JoinEnds, Exit, WriterTakes, WriterWrites,
           WriterFails, WriterEnds, PumpSends, PumpEnds, Publishes, TearsDown
<1>4. ASSUME pc' = "reply", ok', lines'[nread'].cmd \in Calls
      PROVE  Behind(lines', phase', nread')
  <2>1. CASE CallReturns \/ (pc = "reply" /\ UNCHANGED <<nread, ok>>)
    <3>1. nread \in 1..nread /\ nread' = nread
      BY <2>1 DEF CallReturns, TypeInv, Busy
    <3>2. lines[nread].cmd \in Calls
      BY <1>1, <1>4, <3>1
    <3>3. Behind(lines, phase, nread)
      BY <1>4, <2>1, <3>2 DEF CallReturns, CallInv
    <3>4. Behind(lines', phase', nread)
      BY <3>1, <3>3, RoomBehindKept
    <3>5. QED
      BY <3>1, <3>4
  <2>2. CASE TakeStart \/ LeaveCommand
    <3>1. PICK cmds \in {Starts, Leaves} : Take(cmds)
      BY <2>2 DEF TakeStart, LeaveCommand
    <3>2. lines[nread'].cmd \in cmds /\ lines' = lines
      BY <3>1, LinesKept DEF Take
    <3>3. QED
      BY <1>4, <3>1, <3>2 DEF Starts, RoomStarts, Leaves, Calls, CredentialCalls
  <2>3. CASE CallRefused
    BY <1>4, <2>3 DEF CallRefused
  <2>4. CASE GraceEnds
    <3>1. lines'[nread'].cmd \in Starts
      BY <2>4 DEF GraceEnds, SlotInv
    <3>2. QED
      BY <1>4, <3>1 DEF Starts, RoomStarts, Calls, CredentialCalls
  <2>5. QED
    BY <1>4, <2>1, <2>2, <2>3, <2>4
       DEF Next, vars, Daemon, Main, Writer, Instances, Exited, DaemonCloses,
           DaemonDies, DaemonSends, SkipLine, RefuseLine, FatalLine, EndOfInput,
           StartRefused, StartFresh, StartReplaces, CallBegins, Take, Reply,
           BreakLoop, DropSender, JoinEnds, Exit, WriterTakes, WriterWrites,
           WriterFails, WriterEnds, PumpSends, PumpEnds, Publishes, TearsDown
<1>5. \A i \in Responses' :
         lines'[sent'[i].id].cmd \in Calls /\ sent'[i].ok =>
             Behind(lines', phase', sent'[i].id)
  <2> SUFFICES ASSUME NEW i \in Responses', lines'[sent'[i].id].cmd \in Calls,
                      sent'[i].ok
               PROVE  Behind(lines', phase', sent'[i].id)
    OBVIOUS
  <2>1. CASE i \in Responses
    <3>1. sent'[i] = sent[i] /\ sent[i].id \in 1..nread
      BY <2>1, ResponsesKept DEF AnswerInv, AnswersRead
    <3>2. Behind(lines, phase, sent[i].id)
      BY <1>1, <2>1, <3>1 DEF CallInv, OkCallHadRoom, RoomBehind, Behind
    <3>3. Behind(lines', phase', sent[i].id)
      BY <3>1, <3>2, RoomBehindKept
    <3>4. QED
      BY <3>1, <3>3
  <2>2. CASE i \notin Responses /\ Reply
    <3>1. ~RefuseLine
      BY <2>2 DEF Reply, RefuseLine, Take
    <3>2. sent'[i] = [type |-> "response", id |-> nread, ok |-> ok]
      BY <2>2, <3>1, ResponsesKept
    <3>3. sent'[i].id = nread /\ ok /\ pc = "reply" /\ nread \in 1..nread
      BY <2>2, <3>2 DEF Reply, TypeInv, Busy
    <3>4. Behind(lines, phase, nread)
      BY <1>1, <3>3 DEF CallInv
    <3>5. Behind(lines', phase', nread)
      BY <3>3, <3>4, RoomBehindKept
    <3>6. QED
      BY <3>2, <3>5
  <2>3. CASE i \notin Responses /\ RefuseLine
    <3>1. ~Reply
      BY <2>3 DEF Reply, RefuseLine, Take
    <3>2. sent'[i] = [type |-> "response", id |-> nread + 1, ok |-> FALSE]
      BY <2>3, <3>1, ResponsesKept
    <3>3. ~sent'[i].ok
      BY <3>2
    <3>4. QED
      BY <3>3
  <2>4. QED
    BY <2>1, <2>2, <2>3, ResponsesKept
<1>6. pc' = "call" => net'["room"] # None
  <2>1. CASE CallBegins
    BY <2>1 DEF CallBegins, ApiIsUp
  <2>2. CASE pc = "call" /\ net' = net
    BY <2>2 DEF CallInv
  <2>3. QED
    BY <2>1, <2>2
       DEF Next, vars, Daemon, Main, Writer, Instances, Exited, DaemonCloses,
           DaemonDies, DaemonSends, SkipLine, RefuseLine, FatalLine, EndOfInput,
           StartRefused, StartFresh, StartReplaces, GraceEnds, BuildInstance,
           LeaveCommand, CallRefused, CallReturns, Take, TakeStart, Reply,
           BreakLoop, DropSender, JoinEnds, Exit, WriterTakes, WriterWrites,
           WriterFails, WriterEnds, PumpSends, PumpEnds, Publishes, TearsDown
<1>7. ASSUME pc' = "reply", ok', lines'[nread'].cmd \in Calls
      PROVE  net'["room"] # None
  <2>1. CASE CallReturns
    BY <2>1 DEF CallReturns, CallInv
  <2>2. CASE pc = "reply" /\ UNCHANGED <<nread, ok, net>>
    <3>1. lines[nread].cmd \in Calls
      BY <1>1, <1>7, <2>2 DEF TypeInv, Busy
    <3>2. QED
      BY <1>7, <2>2, <3>1 DEF CallInv, OkCallHadRoom
  <2>3. CASE TakeStart \/ LeaveCommand
    <3>1. PICK cmds \in {Starts, Leaves} : Take(cmds)
      BY <2>3 DEF TakeStart, LeaveCommand
    <3>2. lines[nread'].cmd \in cmds /\ lines' = lines
      BY <3>1, LinesKept DEF Take
    <3>3. QED
      BY <1>7, <3>1, <3>2 DEF Starts, RoomStarts, Leaves, Calls, CredentialCalls
  <2>4. CASE CallRefused
    BY <1>7, <2>4 DEF CallRefused
  <2>5. CASE GraceEnds
    <3>1. lines'[nread'].cmd \in Starts
      BY <2>5 DEF GraceEnds, SlotInv
    <3>2. QED
      BY <1>7, <3>1 DEF Starts, RoomStarts, Calls, CredentialCalls
  <2>6. QED
    BY <1>7, <2>1, <2>2, <2>3, <2>4, <2>5
       DEF Next, vars, Daemon, Main, Writer, Instances, Exited, DaemonCloses,
           DaemonDies, DaemonSends, SkipLine, RefuseLine, FatalLine, EndOfInput,
           StartRefused, StartFresh, StartReplaces, CallBegins, Take, Reply,
           BreakLoop, DropSender, JoinEnds, Exit, WriterTakes, WriterWrites,
           WriterFails, WriterEnds, PumpSends, PumpEnds, Publishes, TearsDown
<1>8. OkCallHadRoom'
  BY <1>5, <1>7 DEF OkCallHadRoom, RoomBehind, Behind
<1>9. QED
  BY <1>2, <1>3, <1>4, <1>6, <1>8 DEF CallInv

(* A call answered ok was served by the room of the last start that built   *)
(* one, with no leave in between (engine.rs: api, room; main.rs: dispatch). *)
THEOREM CallsHaveARoom == Spec => []OkCallHadRoom
<1>1. Init => CallInv
  BY DEF Init, CallInv, OkCallHadRoom, RoomSince, Responses, Slots
<1>2. TypeInv /\ TypeInv' /\ SlotInv /\ SlotInv' /\ AnswerInv /\ OkInv /\ CallInv
         /\ [Next]_vars => CallInv'
  BY CallStep
<1>3. CallInv => OkCallHadRoom
  BY DEF CallInv
<1>4. QED
  BY <1>1, <1>2, <1>3, TypeAlways, SlotsAlways, AnswersAlways, OkAlways, PTL
     DEF Spec

-----------------------------------------------------------------------------
(***************************************************************************)
(* The wait a replacement owes.  Outside a grace, whoever is still         *)
(* stopping in an empty slot was let go by a leave read after its own      *)
(* line; inside one the slot is empty and its sleep ends with nobody       *)
(* stopping.                                                               *)
(***************************************************************************)
LeftBehind ==
    \A i \in Ids :
        phase[i] = "stopping" /\ net[SlotOf(lines[i].cmd)] = None =>
            \E k \in (i + 1)..nread :
                SlotOf(lines[i].cmd) \in Released(lines[k].cmd)

WaitInv ==
    /\ ReplacementWaits
    /\ TeardownInGrace /\ pc \notin {"grace"} \cup Over => LeftBehind

LEMMA SlotOfIsASlot == \A cmd : SlotOf(cmd) \in Slots
BY DEF SlotOf, Slots

LEMMA HoldersAreRead ==
    ASSUME TypeInv, SlotInv, NEW i \in Ids, phase[i] \in Holding
    PROVE  i \in 1..nread
BY DEF SlotInv, Holding, Alive, TypeInv, TypeOK

(* Steps that build nothing let nobody hold an adapter who did not. *)
LEMMA HoldersKept ==
    ASSUME TypeInv, SlotInv, [Next]_vars, ~StartFresh, ~GraceEnds,
           NEW i \in Ids, phase'[i] \in Holding
    PROVE  phase[i] \in Holding
<1>1. ASSUME NEW slots \in SUBSET Slots, Empty(slots)
      PROVE  phase[i] \in Holding
  <2>1. CASE \E s \in slots : net[s] = i
    <3>1. phase[i] \in Alive
      BY <2>1 DEF SlotInv, NoOrphan
    <3>2. QED
      BY <3>1 DEF Holding
  <2>2. CASE ~ \E s \in slots : net[s] = i
    BY <1>1, <2>2 DEF Empty
  <2>3. QED
    BY <2>1, <2>2
<1>2. CASE FatalLine \/ EndOfInput \/ Reply
  BY <1>1, <1>2 DEF FatalLine, EndOfInput, Reply, BreakLoop
<1>3. CASE LeaveCommand
  <2>1. Released(lines[nread + 1].cmd) \in SUBSET Slots
    BY <1>3 DEF LeaveCommand, Released, Slots, Leaves, Take
  <2>2. QED
    BY <1>1, <1>3, <2>1 DEF LeaveCommand
<1>4. CASE StartReplaces
  <2>1. {SlotOf(lines[nread + 1].cmd)} \in SUBSET Slots
    BY DEF SlotOf, Slots
  <2>2. QED
    BY <1>1, <1>4, <2>1 DEF StartReplaces
<1>5. ASSUME NEW n \in Ids, Publishes(n) \/ TearsDown(n)
      PROVE  phase[i] \in Holding
  BY <1>5 DEF Publishes, TearsDown, Holding, Alive, TypeInv, TypeOK
<1>6. CASE phase' = phase
  BY <1>6
<1>7. QED
  BY <1>2, <1>3, <1>4, <1>5, <1>6
     DEF Next, vars, Daemon, Main, Writer, Instances, Exited, DaemonCloses,
         DaemonDies, DaemonSends, SkipLine, RefuseLine, StartRefused,
         CallRefused, CallBegins, CallReturns, DropSender, JoinEnds, Exit,
         WriterTakes, WriterWrites, WriterFails, WriterEnds, PumpSends, PumpEnds

LEMMA WaitKept ==
    ASSUME TypeInv, SlotInv, ReplacementWaits, [Next]_vars,
           ~StartFresh, ~GraceEnds
    PROVE  ReplacementWaits'
<1> SUFFICES ASSUME TeardownInGrace, NEW i \in Ids, NEW j \in Ids, i < j,
                    phase'[i] \in Holding, phase'[j] \in Holding,
                    SlotOf(lines'[i].cmd) = SlotOf(lines'[j].cmd)
             PROVE  \E k \in (i + 1)..(j - 1) :
                       SlotOf(lines'[i].cmd) \in Released(lines'[k].cmd)
  BY DEF ReplacementWaits
<1>1. phase[i] \in Holding /\ phase[j] \in Holding
  BY HoldersKept
<1>2. i \in 1..nread /\ j \in 1..nread /\ nread \in Nat
  BY <1>1, HoldersAreRead DEF TypeInv, TypeOK
<1>3. \A k \in 1..nread : lines'[k] = lines[k]
  BY LinesKept
<1>4. PICK k \in (i + 1)..(j - 1) : SlotOf(lines[i].cmd) \in Released(lines[k].cmd)
  BY <1>1, <1>2, <1>3 DEF ReplacementWaits
<1>5. k \in 1..nread
  BY <1>2, <1>4
<1>6. QED
  BY <1>2, <1>3, <1>4, <1>5

LEMMA WaitBuilt ==
    ASSUME TypeInv, SlotInv, ReplacementWaits, NEW n \in Ids, BuildInstance(n),
           lines' = lines, net[SlotOf(lines[n].cmd)] = None,
           \A k \in Ids : k >= n => phase[k] = "unborn",
           TeardownInGrace =>
             \A i \in Ids :
               phase[i] = "stopping" /\ SlotOf(lines[i].cmd) = SlotOf(lines[n].cmd) =>
                  \E k \in (i + 1)..(n - 1) :
                      SlotOf(lines[i].cmd) \in Released(lines[k].cmd)
    PROVE  ReplacementWaits'
<1> SUFFICES ASSUME TeardownInGrace, NEW i \in Ids, NEW j \in Ids, i < j,
                    phase'[i] \in Holding, phase'[j] \in Holding,
                    SlotOf(lines[i].cmd) = SlotOf(lines[j].cmd)
             PROVE  \E k \in (i + 1)..(j - 1) :
                       SlotOf(lines[i].cmd) \in Released(lines[k].cmd)
  BY DEF ReplacementWaits
<1>1. \A k \in Ids \ {n} : phase'[k] = phase[k]
  BY DEF BuildInstance, TypeInv, TypeOK
<1>2. \A k \in Ids : phase[k] \in Holding => k < n
  BY DEF Holding, Alive
<1>3. i # n
  BY <1>1, <1>2
<1>4. phase[i] \in Holding /\ i < n
  BY <1>1, <1>2, <1>3
<1>5. CASE j = n
  <2>1. phase[i] \notin Alive
    <3>1. SUFFICES ASSUME phase[i] \in Alive PROVE FALSE
      OBVIOUS
    <3>2. PICK s \in Slots : net[s] = i
      BY <3>1 DEF SlotInv, NoOrphan
    <3>3. i # None
      BY BoundsAssumption DEF None
    <3>4. SlotOf(lines[i].cmd) = s
      BY <3>2, <3>3 DEF SlotInv, NoOrphan
    <3>5. QED
      BY <1>5, <3>2, <3>3, <3>4
  <2>2. phase[i] = "stopping"
    BY <1>4, <2>1 DEF Holding
  <2>3. QED
    BY <1>5, <2>2
<1>6. CASE j # n
  <2>1. phase[j] \in Holding
    BY <1>1, <1>6
  <2>2. QED
    BY <1>4, <2>1 DEF ReplacementWaits
<1>7. QED
  BY <1>5, <1>6

LEMMA WaitWhenBuilding ==
    ASSUME TypeInv, SlotInv, WaitInv, StartFresh \/ GraceEnds
    PROVE  ReplacementWaits'
<1>1. nread \in Nat
  BY DEF TypeInv, TypeOK
<1>2. CASE StartFresh
  <2>1. /\ nread + 1 \in Ids /\ BuildInstance(nread + 1) /\ lines' = lines
        /\ net[SlotOf(lines[nread + 1].cmd)] = None /\ pc = "read"
    BY <1>2, TakeStartTypes DEF StartFresh, TakeStart, Take, TypeInv
  <2>2. \A k \in Ids : k >= nread + 1 => phase[k] = "unborn"
    BY <1>1 DEF SlotInv
  <2>3. TeardownInGrace => LeftBehind
    BY <2>1 DEF WaitInv, Over
  <2>4. (nread + 1) - 1 = nread
    BY <1>1
  <2>5. TeardownInGrace =>
          \A i \in Ids :
            phase[i] = "stopping"
               /\ SlotOf(lines[i].cmd) = SlotOf(lines[nread + 1].cmd) =>
                  \E k \in (i + 1)..((nread + 1) - 1) :
                      SlotOf(lines[i].cmd) \in Released(lines[k].cmd)
    BY <2>1, <2>3, <2>4 DEF LeftBehind
  <2>6. QED
    BY <2>1, <2>2, <2>5, WaitBuilt DEF WaitInv
<1>3. CASE GraceEnds
  <2>1. /\ nread \in Ids /\ BuildInstance(nread) /\ lines' = lines
        /\ net[SlotOf(lines[nread].cmd)] = None
        /\ phase[nread] = "unborn"
    BY <1>3 DEF GraceEnds, SlotInv, TypeInv, Busy
  <2>2. \A k \in Ids : k >= nread => phase[k] = "unborn"
    BY <1>1, <2>1 DEF SlotInv
  <2>3. TeardownInGrace => \A i \in Ids : phase[i] # "stopping"
    BY <1>3 DEF GraceEnds, Grace
  <2>4. QED
    BY <2>1, <2>2, <2>3, WaitBuilt DEF WaitInv
<1>4. QED
  BY <1>2, <1>3

LEMMA LeftBehindStep ==
    ASSUME TypeInv, TypeInv', SlotInv, WaitInv, [Next]_vars, TeardownInGrace,
           pc' \notin {"grace"} \cup Over
    PROVE  LeftBehind'
<1> SUFFICES ASSUME NEW i \in Ids, phase'[i] = "stopping",
                    net'[SlotOf(lines'[i].cmd)] = None
             PROVE  \E k \in (i + 1)..nread' :
                       SlotOf(lines'[i].cmd) \in Released(lines'[k].cmd)
  BY DEF LeftBehind
<1>1. /\ nread \in Nat /\ nread' \in {nread, nread + 1}
      /\ \A k \in 1..nread : lines'[k] = lines[k]
  BY LinesKept
<1>2. ASSUME pc # "grace", pc \notin Over, i \in 1..nread,
             phase[i] = "stopping", net[SlotOf(lines[i].cmd)] = None
      PROVE  \E k \in (i + 1)..nread' :
                SlotOf(lines'[i].cmd) \in Released(lines'[k].cmd)
  <2>1. PICK k \in (i + 1)..nread : SlotOf(lines[i].cmd) \in Released(lines[k].cmd)
    BY <1>2 DEF WaitInv, LeftBehind
  <2>2. k \in 1..nread /\ k \in (i + 1)..nread'
    BY <1>1, <1>2, <2>1
  <2>3. QED
    BY <1>1, <1>2, <2>1, <2>2
<1>3. ASSUME phase[i] = "stopping" PROVE i \in 1..nread
  BY <1>3, HoldersAreRead DEF Holding
<1>4. CASE StartFresh
  <2>1. /\ nread + 1 \in Ids /\ BuildInstance(nread + 1) /\ lines' = lines
        /\ net[SlotOf(lines[nread + 1].cmd)] = None /\ pc = "read"
    BY <1>4, TakeStartTypes DEF StartFresh, TakeStart, Take, TypeInv
  <2>2. phase[i] = "stopping"
    BY <2>1 DEF BuildInstance, TypeInv, TypeOK
  <2>3. net[SlotOf(lines[i].cmd)] = None
    BY <2>1, SlotOfIsASlot DEF BuildInstance, TypeInv, TypeOK
  <2>4. QED
    BY <1>2, <1>3, <2>1, <2>2, <2>3 DEF Over
<1>5. CASE GraceEnds
  <2>1. nread \in Ids /\ BuildInstance(nread)
        /\ \A n \in Ids : phase[n] # "stopping"
    BY <1>5 DEF GraceEnds, Grace, TypeInv, Busy
  <2>2. QED
    BY <2>1 DEF BuildInstance, TypeInv, TypeOK
<1>6. CASE LeaveCommand
  <2> DEFINE slots == Released(lines[nread'].cmd)
  <2>1. /\ nread' = nread + 1 /\ Empty(slots) /\ lines' = lines /\ pc = "read"
    BY <1>6 DEF LeaveCommand, Take
  <2>2. i \in 1..nread
    <3>1. phase[i] \in Holding
      BY <1>6, HoldersKept
         DEF LeaveCommand, StartFresh, GraceEnds, TakeStart, Take, Leaves,
             Starts, RoomStarts, Holding
    <3>2. QED
      BY <3>1, HoldersAreRead
  <2>3. CASE SlotOf(lines[i].cmd) \in slots
    <3>1. nread' \in (i + 1)..nread'
      BY <1>1, <2>1, <2>2
    <3>2. QED
      BY <2>1, <2>3, <3>1
  <2>4. CASE SlotOf(lines[i].cmd) \notin slots
    <3>1. net[SlotOf(lines[i].cmd)] = None
      BY <2>1, <2>4, SlotOfIsASlot DEF Empty
    <3>2. ASSUME NEW s \in slots, net[s] = i PROVE FALSE
      <4>1. s \in Slots
        BY <3>2 DEF Released, Slots
      <4>2. i # None
        BY BoundsAssumption DEF None
      <4>3. SlotOf(lines[i].cmd) = s
        BY <3>2, <4>1, <4>2 DEF SlotInv, NoOrphan
      <4>4. QED
        BY <2>4, <4>3
    <3>3. phase[i] = "stopping"
      BY <2>1, <3>2 DEF Empty
    <3>4. QED
      BY <1>2, <2>1, <2>2, <3>1, <3>3 DEF Over
  <2>5. QED
    BY <2>3, <2>4
<1>7. ASSUME UNCHANGED net, phase[i] = "stopping", pc \notin {"grace"} \cup Over
      PROVE  \E k \in (i + 1)..nread' :
                SlotOf(lines'[i].cmd) \in Released(lines'[k].cmd)
  BY <1>1, <1>2, <1>3, <1>7
<1>8. ASSUME NEW n \in Ids, Publishes(n) \/ TearsDown(n)
      PROVE  UNCHANGED <<net, pc>> /\ phase[i] = "stopping"
  BY <1>8 DEF Publishes, TearsDown, TypeInv, TypeOK
<1>9. CASE FatalLine \/ EndOfInput \/ StartReplaces \/ (Reply /\ writer = "done")
           \/ DropSender \/ JoinEnds \/ Exit \/ Exited
  BY <1>9 DEF FatalLine, EndOfInput, StartReplaces, Reply, BreakLoop, DropSender,
              JoinEnds, Exit, Exited, vars, Over
<1>10. CASE SkipLine \/ RefuseLine \/ StartRefused \/ CallRefused \/ CallBegins
            \/ CallReturns \/ (Reply /\ writer # "done")
  <2>1. UNCHANGED <<net, phase>> /\ pc \notin {"grace"} \cup Over
    BY <1>10 DEF SkipLine, RefuseLine, StartRefused, CallRefused, CallBegins,
                 CallReturns, Reply, Take, TakeStart, Over
  <2>2. QED
    BY <1>7, <2>1
<1>11. CASE UNCHANGED <<net, phase, pc>>
  BY <1>7, <1>11
<1>12. QED
  BY <1>4, <1>5, <1>6, <1>7, <1>8, <1>9, <1>10, <1>11
     DEF Next, vars, Daemon, Main, Writer, Instances, DaemonCloses,
         DaemonDies, DaemonSends, WriterTakes, WriterWrites, WriterFails,
         WriterEnds, PumpSends, PumpEnds

(* If a dropped instance lets go within SHUTDOWN_GRACE, two instances of    *)
(* one slot hold the adapter together only with a leave between their       *)
(* commands: a replacement never builds beside what it replaces (engine.rs: *)
(* start).                                                                  *)
THEOREM ReplacementsWait == Spec => []ReplacementWaits
<1>1. Init => WaitInv
  BY DEF Init, WaitInv, ReplacementWaits, LeftBehind, Holding, Alive
<1>2. TypeInv /\ TypeInv' /\ SlotInv /\ WaitInv /\ [Next]_vars => WaitInv'
  BY WaitKept, WaitWhenBuilding, LeftBehindStep DEF WaitInv
<1>3. WaitInv => ReplacementWaits
  BY DEF WaitInv
<1>4. QED
  BY <1>1, <1>2, <1>3, TypeAlways, SlotsAlways, PTL DEF Spec

-----------------------------------------------------------------------------
(***************************************************************************)
(* The two pipes implement CommandChannel.  A line that is taken is asked; *)
(* a response that is written is the oldest unanswered line's, because     *)
(* every line below its own that can be answered has its response before   *)
(* it: as many are below it as are written.                                *)
(***************************************************************************)
AskedSet == {n \in 1..nread : Answerable(n)}
SaidSet == {i \in 1..written : sent[i].type = "response"}

LEMMA ChannelSets ==
    ASSUME TypeInv
    PROVE  /\ AskedSet \in SUBSET Nat /\ IsFiniteSet(AskedSet)
           /\ SaidSet \in SUBSET Nat /\ IsFiniteSet(SaidSet)
<1>1. nread \in Nat /\ written \in Nat
  BY DEF TypeInv, TypeOK
<1>2. AskedSet \subseteq 1..nread /\ SaidSet \subseteq 1..written
  BY DEF AskedSet, SaidSet
<1>3. IsFiniteSet(1..nread) /\ IsFiniteSet(1..written)
  BY <1>1, FS_Interval
<1>4. 1..nread \subseteq Nat /\ 1..written \subseteq Nat
  BY <1>1
<1>. QED BY <1>2, <1>3, <1>4, FS_Subset

LEMMA ListIsSeq ==
    ASSUME NEW T, NEW n \in Nat, NEW f \in [1..n -> T]
    PROVE  f \in Seq(T) /\ Len(f) = n
OBVIOUS

LEMMA ChannelLengths ==
    ASSUME TypeInv
    PROVE  /\ Len(AskedLines) = Cardinality(AskedSet)
           /\ Cardinality(AskedSet) \in Nat
           /\ \A k \in 1..Cardinality(AskedSet) : AskedLines[k] \in AskedSet
           /\ AnsweredLines \in Seq(Ids) /\ Len(AnsweredLines) = Cardinality(SaidSet)
           /\ Cardinality(SaidSet) \in Nat
<1>. DEFINE answers == Ascending(SaidSet)
<1>1. /\ AskedLines \in Seq(AskedSet) /\ Len(AskedLines) = Cardinality(AskedSet)
      /\ Cardinality(AskedSet) \in Nat
  BY ChannelSets, AscendingType DEF AskedLines, AskedSet
<1>2. /\ answers \in Seq(SaidSet) /\ Len(answers) = Cardinality(SaidSet)
      /\ Cardinality(SaidSet) \in Nat
  BY ChannelSets, AscendingType
<1>3. AnsweredLines = [k \in DOMAIN answers |-> sent[answers[k]].id]
  BY DEF AnsweredLines, SaidSet
<1>4. \A i \in SaidSet : sent[i].id \in Ids
  <2>1. SUFFICES ASSUME NEW i \in SaidSet PROVE sent[i].id \in Ids
    OBVIOUS
  <2>2. i \in 1..Len(sent) /\ sent \in Seq(Message) /\ sent[i].type = "response"
    BY DEF SaidSet, TypeInv, TypeOK
  <2>3. sent[i] \in Message
    BY <2>2
  <2>. QED BY <2>2, <2>3 DEF Message
<1>. HIDE DEF answers
<1>5. DOMAIN answers = 1..Cardinality(SaidSet)
      /\ \A k \in 1..Cardinality(SaidSet) : answers[k] \in SaidSet
  BY <1>2
<1>6. AnsweredLines \in [1..Cardinality(SaidSet) -> Ids]
  BY <1>3, <1>4, <1>5
<1>7. AnsweredLines \in Seq(Ids) /\ Len(AnsweredLines) = Cardinality(SaidSet)
  BY <1>2, <1>6, ListIsSeq
<1>8. \A k \in 1..Cardinality(AskedSet) : AskedLines[k] \in AskedSet
  BY <1>1
<1>. QED BY <1>1, <1>2, <1>7, <1>8

(* A line taken is asked last, if it can be answered; nothing else is. *)
LEMMA AskedStep ==
    ASSUME TypeInv, TypeInv', [Next]_vars
    PROVE  \/ AskedLines' = AskedLines
           \/ /\ nread' # nread /\ nread' \in Ids
              /\ \A k \in 1..Len(AskedLines) : AskedLines[k] # nread'
              /\ AskedLines' = Append(AskedLines, nread')
<1>1. /\ nread \in Nat /\ nread' \in {nread, nread + 1}
      /\ \A k \in 1..nread : lines'[k] = lines[k]
      /\ nread' # nread => lines' = lines
  BY LinesKept
<1>2. \A k \in 1..nread : Answerable(k)' <=> Answerable(k)
  BY <1>1 DEF Answerable
<1>3. CASE nread' = nread
  <2>1. AskedSet' = AskedSet
    BY <1>2, <1>3 DEF AskedSet
  <2>. QED BY <2>1 DEF AskedLines, AskedSet
<1>4. CASE nread' = nread + 1
  <2>1. \A k \in 1..(nread + 1) : k \in 1..nread \/ k = nread + 1
    BY <1>1
  <2>2. CASE ~ Answerable(nread)'
    <3>1. AskedSet' = AskedSet
      BY <1>1, <1>2, <1>4, <2>1, <2>2 DEF AskedSet
    <3>. QED BY <3>1 DEF AskedLines, AskedSet
  <2>3. CASE Answerable(nread)'
    <3>1. AskedSet' = AskedSet \cup {nread + 1}
      BY <1>1, <1>2, <1>4, <2>1, <2>3 DEF AskedSet
    <3>2. \A n \in AskedSet : n < nread + 1
      BY <1>1 DEF AskedSet
    <3>3. Ascending(AskedSet \cup {nread + 1}) = Append(Ascending(AskedSet), nread + 1)
      <4>1. nread + 1 \in Nat /\ AskedSet \in SUBSET Nat /\ IsFiniteSet(AskedSet)
        BY <1>1, ChannelSets
      <4>. QED BY <3>2, <4>1, AscendingAppend
    <3>4. AskedLines = Ascending(AskedSet) /\ AskedLines' = Ascending(AskedSet')
      BY DEF AskedLines, AskedSet
    <3>5. nread' \in Ids
      BY <1>1, <1>4, BoundsAssumption DEF TypeInv, TypeOK
    <3>6. \A k \in 1..Len(AskedLines) : AskedLines[k] # nread'
      BY <1>1, <1>4, <3>2, ChannelLengths
    <3>7. AskedLines' = Append(AskedLines, nread')
      BY <1>4, <3>1, <3>3, <3>4
    <3>8. nread' # nread
      BY <1>1, <1>4
    <3>. QED BY <3>5, <3>6, <3>7, <3>8
  <2>. QED BY <2>2, <2>3
<1>. QED BY <1>1, <1>3, <1>4

(* Only the writer moves what is written. *)
LEMMA OthersWriteNothing ==
    ASSUME TypeInv, [Next]_vars, ~ WriterWrites
    PROVE  AnsweredLines' = AnsweredLines
<1>1. written' = written
  BY DEF Next, vars, Daemon, Main, Writer, Instances, Exited,
         DaemonCloses, DaemonDies, DaemonSends, SkipLine, RefuseLine, FatalLine,
         EndOfInput, StartRefused, StartFresh, StartReplaces, GraceEnds,
         LeaveCommand, CallRefused, CallBegins, CallReturns, Reply, DropSender,
         JoinEnds, Exit, WriterTakes, WriterFails, WriterEnds,
         PumpSends, PumpEnds, Publishes, TearsDown
<1>2. sent' = sent \/ \E m : Send(m)
  BY DEF Next, vars, Daemon, Main, Writer, Instances, Exited,
         DaemonCloses, DaemonDies, DaemonSends, SkipLine, RefuseLine, FatalLine,
         EndOfInput, StartRefused, StartFresh, StartReplaces, GraceEnds,
         LeaveCommand, CallRefused, CallBegins, CallReturns, Reply, DropSender,
         JoinEnds, Exit, WriterTakes, WriterFails, WriterEnds,
         PumpSends, PumpEnds, Publishes, TearsDown
<1>3. \A i \in 1..written : sent'[i] = sent[i]
  <2>1. ASSUME NEW m, sent' = Append(sent, m)
        PROVE  \A i \in 1..Len(sent) : sent'[i] = sent[i]
    BY <2>1 DEF TypeInv, TypeOK
  <2>2. written \in 0..Len(sent) /\ Len(sent) \in Nat
    BY DEF TypeInv, TypeOK
  <2>. QED BY <1>2, <2>1, <2>2 DEF Send
<1>4. SaidSet' = SaidSet
  BY <1>1, <1>3 DEF SaidSet
<1>. DEFINE answers == Ascending(SaidSet)
<1>5. DOMAIN answers = 1..Cardinality(SaidSet)
      /\ \A k \in 1..Cardinality(SaidSet) : answers[k] \in SaidSet
  BY ChannelSets, AscendingType
<1>6. /\ AnsweredLines = [k \in DOMAIN answers |-> sent[answers[k]].id]
      /\ AnsweredLines' = [k \in DOMAIN answers |-> sent'[answers[k]].id]
  BY <1>4 DEF AnsweredLines, SaidSet
<1>. HIDE DEF answers
<1>7. \A k \in DOMAIN answers : sent'[answers[k]] = sent[answers[k]]
  BY <1>3, <1>5 DEF SaidSet
<1>. QED BY <1>6, <1>7

(* As many lines are below a response's own as responses are before it. *)
LEMMA SaidBelow ==
    ASSUME TypeInv, AnswerInv, writer # "done", NEW i \in Responses, i = written + 1
    PROVE  /\ sent[i].id \in AskedSet
           /\ Cardinality(Below(AskedSet, sent[i].id)) = Cardinality(SaidSet)
<1>. DEFINE id == sent[i].id
            T == Below(AskedSet, id)
            f == [h \in SaidSet |-> sent[h].id]
<1>1. /\ nread \in Nat /\ written \in Nat /\ written + 1 <= Len(sent)
      /\ Len(sent) \in Nat
  BY DEF TypeInv, TypeOK, Responses
<1>2. SaidSet \subseteq Responses /\ \A h \in SaidSet : h < i
  BY <1>1 DEF SaidSet, Responses
<1>3. \A h \in Responses : sent[h].id \in AskedSet
  BY DEF AnswerInv, AnswersRead, AskedSet
<1>4. AskedSet \in SUBSET Nat
  BY ChannelSets
<1>5. \A g, h \in Responses : g < h => sent[g].id < sent[h].id
  BY DEF AnswerInv, AnswersInOrder
<1>6. f \in [SaidSet -> T]
  BY <1>2, <1>3, <1>5 DEF Below
<1>7. \A g, h \in SaidSet : f[g] = f[h] => g = h
  <2>1. ASSUME NEW g \in SaidSet, NEW h \in SaidSet, f[g] = f[h] PROVE g = h
    <3>1. sent[g].id = sent[h].id
      BY <2>1
    <3>2. g \in Responses /\ h \in Responses /\ sent[g].id \in Nat
      BY <1>2, <1>3, <1>4
    <3>3. ~ (g < h) /\ ~ (h < g)
      BY <1>5, <3>1, <3>2
    <3>4. g \in Nat /\ h \in Nat
      BY <1>1 DEF SaidSet
    <3>. QED BY <3>3, <3>4
  <2>. QED BY <2>1
<1>8. ASSUME NEW n \in T PROVE \E h \in SaidSet : f[h] = n
  <2>1. n \in AskedSet /\ n < id /\ n \in Nat /\ id \in 1..nread
    BY <1>3, <1>4 DEF Below, AskedSet
  <2>2. n \in 1..nread /\ Answerable(n) /\ n # nread
    BY <1>1, <2>1 DEF AskedSet
  <2>3. PICK j \in Responses : sent[j].id = n
    BY <2>2 DEF AnswerInv, Complete
  <2>4. j < i
    <3>1. j \in Nat /\ i \in Nat
      BY <1>1 DEF Responses
    <3>2. j # i /\ ~ (i < j)
      BY <1>5, <2>1, <2>3
    <3>. QED BY <3>1, <3>2
  <2>5. j \in SaidSet
    BY <1>1, <2>4 DEF SaidSet, Responses
  <2>. QED BY <2>3, <2>5
<1>9. f \in Bijection(SaidSet, T)
  <2>. HIDE DEF f, T
  <2>1. f \in Injection(SaidSet, T)
    BY <1>6, <1>7, Fun_IsInj
  <2>2. f \in Surjection(SaidSet, T)
    BY <1>6, <1>8, Fun_IsSurj
  <2>. QED BY <2>1, <2>2 DEF Bijection
<1>10. Cardinality(T) = Cardinality(SaidSet)
  <2>. HIDE DEF f, T
  <2>. QED BY <1>9, ChannelSets, FS_Bijection DEF ExistsBijection
<1>. QED BY <1>3, <1>10

(* What the writer completes is an event, or the next answer. *)
LEMMA WritesNext ==
    ASSUME TypeInv, AnswerInv, WriterWrites
    PROVE  /\ AskedLines' = AskedLines
           /\ \/ AnsweredLines' = AnsweredLines
              \/ /\ Len(AnsweredLines) < Len(AskedLines)
                 /\ AnsweredLines' =
                       Append(AnsweredLines, AskedLines[Len(AnsweredLines) + 1])
<1>. DEFINE i == written + 1
            answers == Ascending(SaidSet)
            longer == Append(answers, i)
            r == Cardinality(SaidSet)
<1>1. /\ written' = i /\ UNCHANGED <<lines, nread, sent>> /\ writer = "writing"
  BY DEF WriterWrites
<1>2. written \in Nat /\ i \in 1..Len(sent)
  BY <1>1 DEF TypeInv, TypeOK
<1>3. AskedLines' = AskedLines
  BY <1>1 DEF AskedLines, Answerable
<1>4. \A h \in 1..i : h \in 1..written \/ h = i
  BY <1>2
<1>5. CASE sent[i].type # "response"
  <2>1. SaidSet' = SaidSet
    BY <1>1, <1>2, <1>4, <1>5 DEF SaidSet
  <2>2. AnsweredLines' = AnsweredLines
    BY <1>1, <2>1 DEF AnsweredLines, SaidSet
  <2>. QED BY <1>3, <2>2
<1>6. CASE sent[i].type = "response"
  <2>1. SaidSet' = SaidSet \cup {i}
    BY <1>1, <1>2, <1>4, <1>6 DEF SaidSet
  <2>2. \A h \in SaidSet : h < i
    BY <1>2 DEF SaidSet
  <2>3. Ascending(SaidSet \cup {i}) = longer
    <3>1. i \in Nat /\ SaidSet \in SUBSET Nat /\ IsFiniteSet(SaidSet)
      BY <1>2, ChannelSets
    <3>. QED BY <2>2, <3>1, AscendingAppend
  <2>4. /\ answers \in Seq(SaidSet) /\ Len(answers) = r /\ r \in Nat
        /\ DOMAIN answers = 1..r
    BY ChannelSets, AscendingType
  <2>5. /\ AnsweredLines = [k \in 1..r |-> sent[answers[k]].id]
        /\ AnsweredLines' = [k \in DOMAIN longer |-> sent[longer[k]].id]
    BY <1>1, <2>1, <2>3, <2>4 DEF AnsweredLines, SaidSet
  <2>6. /\ DOMAIN longer = 1..(r + 1)
        /\ \A k \in 1..r : longer[k] = answers[k]
        /\ longer[r + 1] = i
    <3>. HIDE DEF answers, i, r
    <3>. QED BY <2>4
  <2>7. sent[i].id \in AskedSet
        /\ Cardinality(Below(AskedSet, sent[i].id)) = r
    <3>1. i \in Responses
      BY <1>2, <1>6 DEF Responses
    <3>. QED BY <1>1, <3>1, SaidBelow
  <2>8. r + 1 \in 1..Cardinality(AskedSet) /\ r < Cardinality(AskedSet)
    <3>1. r \in 0..(Cardinality(AskedSet) - 1) /\ Cardinality(AskedSet) \in Nat
      BY <2>7, ChannelSets, ChannelLengths, PlaceBound
    <3>. QED BY <3>1
  <2>9. AskedLines[r + 1] = sent[i].id
    <3>1. (r + 1) - 1 = r
      BY <2>4
    <3>2. Ascending(AskedSet)[r + 1] = sent[i].id
      BY <2>7, <2>8, <3>1, ChannelSets, AscendingIs
    <3>. QED BY <3>2 DEF AskedLines, AskedSet
  <2>10. AnsweredLines \in Seq(Ids) /\ Len(AnsweredLines) = r
         /\ Len(AskedLines) = Cardinality(AskedSet)
    BY ChannelLengths
  <2>11. sent[i].id \in Ids
    <3>1. nread \in 0..MaxLines
      BY BoundsAssumption DEF TypeInv, TypeOK
    <3>. QED BY <2>7, <3>1, BoundsAssumption DEF AskedSet
  <2>12. AnsweredLines' = Append(AnsweredLines, sent[i].id)
    <3>. DEFINE more == Append(AnsweredLines, sent[i].id)
    <3>1. /\ more \in Seq(Ids) /\ Len(more) = r + 1 /\ DOMAIN more = 1..(r + 1)
          /\ \A k \in 1..r : more[k] = AnsweredLines[k]
          /\ more[r + 1] = sent[i].id
      <4>. HIDE DEF i, r
      <4>. QED BY <2>4, <2>10, <2>11
    <3>2. \A k \in 1..(r + 1) : k \in 1..r \/ k = r + 1
      BY <2>4
    <3>. HIDE DEF more, i, r, answers, longer
    <3>3. more = [k \in 1..(r + 1) |-> more[k]]
      BY <3>1
    <3>4. \A k \in 1..(r + 1) : more[k] = sent[longer[k]].id
      <4>1. ASSUME NEW k \in 1..r PROVE more[k] = sent[longer[k]].id
        <5>1. AnsweredLines[k] = sent[answers[k]].id
          BY <2>5
        <5>. QED BY <2>6, <3>1, <5>1
      <4>2. more[r + 1] = sent[longer[r + 1]].id
        BY <2>6, <3>1
      <4>. QED BY <3>2, <4>1, <4>2
    <3>5. AnsweredLines' = [k \in 1..(r + 1) |-> sent[longer[k]].id]
      BY <2>5, <2>6
    <3>. QED BY <3>3, <3>4, <3>5 DEF more
  <2>. QED BY <1>3, <2>8, <2>9, <2>10, <2>12
<1>. QED BY <1>5, <1>6

LEMMA ChannelInit == Init => Channel!Init
<1>. SUFFICES ASSUME Init PROVE AskedLines = <<>> /\ AnsweredLines = <<>>
  BY DEF Channel!Init
<1>1. AskedSet = {} /\ SaidSet = {}
  BY DEF Init, AskedSet, SaidSet
<1>2. AskedLines = Ascending({})
  BY <1>1 DEF AskedLines, AskedSet
<1>3. AnsweredLines = [k \in DOMAIN Ascending({}) |-> sent[Ascending({})[k]].id]
  BY <1>1 DEF AnsweredLines, SaidSet
<1>. QED BY <1>2, <1>3, AscendingEmpty

LEMMA ChannelStep ==
    TypeInv /\ TypeInv' /\ AnswerInv /\ [Next]_vars => [Channel!Next]_(Channel!vars)
<1>. SUFFICES ASSUME TypeInv, TypeInv', AnswerInv, [Next]_vars
              PROVE  [Channel!Next]_(Channel!vars)
  OBVIOUS
<1>1. CASE WriterWrites
  <2>1. CASE AnsweredLines' = AnsweredLines
    BY <1>1, <2>1, WritesNext DEF Channel!vars
  <2>2. CASE AnsweredLines' # AnsweredLines
    <3>1. Channel!Answer
      BY <1>1, <2>2, WritesNext DEF Channel!Answer
    <3>. QED BY <3>1 DEF Channel!Next
  <2>. QED BY <2>1, <2>2
<1>2. CASE ~ WriterWrites
  <2>1. AnsweredLines' = AnsweredLines
    BY <1>2, OthersWriteNothing
  <2>2. CASE AskedLines' = AskedLines
    BY <2>1, <2>2 DEF Channel!vars
  <2>3. CASE AskedLines' # AskedLines
    <3>1. nread' \in Ids /\ Channel!Ask(nread')
      BY <2>1, <2>3, AskedStep DEF Channel!Ask
    <3>. QED BY <3>1 DEF Channel!Next
  <2>. QED BY <2>2, <2>3
<1>. QED BY <1>1, <1>2

(***************************************************************************)
(* What the daemon reads is a behaviour of CommandChannel, whatever it     *)
(* pipelines, whatever the pumps say in between, and wherever a pipe       *)
(* breaks: at most one response to a request, in the order of the requests *)
(* (proto.rs: "The shape, and why it is this one"; main.rs: the writer).   *)
(***************************************************************************)
THEOREM PipesAreAChannel == Spec => ChannelSpec
<1>1. Spec => Channel!Init /\ [][Channel!Next]_(Channel!vars)
  BY ChannelInit, ChannelStep, TypeAlways, AnswersAlways, PTL DEF Spec
<1>. QED BY <1>1 DEF ChannelSpec, Channel!Spec
=============================================================================
