------------------------------- MODULE Engine -------------------------------
(***************************************************************************)
(* The whole process as the daemon meets it (src/src/main.rs and the slots *)
(* of src/src/engine.rs): commands in on stdin one line at a time, the two *)
(* network instances the engine owns, the event pumps that report on them, *)
(* the one writer behind stdout, and the way out.                          *)
(*                                                                         *)
(* Actors: the daemon (external), the main task, the writer task, one pump *)
(* task per started instance, and each instance's own thread (EasyTier,    *)
(* external, modelled from how engine.rs uses it).                         *)
(*                                                                         *)
(* A request's id is the number of its line, and so is the name of the     *)
(* instance a start command built.  The room and the lobby are given       *)
(* different adapters by the daemon; two instances of ONE slot share one.  *)
(***************************************************************************)
EXTENDS Integers, Sequences, FiniteSets, Ordered

CONSTANTS
    MaxLines,         \* bound: lines the daemon ever writes
    MaxEvents,        \* bound: events the pumps ever send
    Mtus,             \* the MTUs a start command may name
    DEFAULT_MTU,      \* engine.rs: EasyTier's own default
    NoMtu,            \* a start command that names none
    DaemonLines,      \* the lines the daemon may write, a subset of Line
    TeardownInGrace   \* does a dropped instance let go within SHUTDOWN_GRACE?

(* Names of the commands, by what they touch (proto.rs: Command). *)
RoomStarts == {"host", "join"}
Starts == RoomStarts \cup {"join_rendezvous"}
Leaves == {"leave", "leave_rendezvous"}
CredentialCalls == {"issue_credential", "renew_credential"}
Calls == CredentialCalls
            \cup {"revoke_credential", "list_credentials", "peers", "diagnostics"}
Commands == Starts \cup Leaves \cup Calls

(* Lines that are no command: blank, JSON the strict parse refuses with and *)
(* without an id to answer, past MAX_LINE, or not UTF-8.                    *)
Skipped == {"blank", "anonymous"}
Fatal == {"overlong", "undecodable"}
NotCommands == Skipped \cup Fatal \cup {"unreadable"}

Line ==
    [cmd : Starts, mtu : Mtus \cup {NoMtu}, log_dir : BOOLEAN]
        \cup [cmd : Leaves \cup Calls \cup NotCommands]

ASSUME BoundsAssumption == MaxLines \in Nat /\ MaxEvents \in Nat
ASSUME MtuAssumption == DEFAULT_MTU \in Mtus /\ NoMtu \notin Mtus
ASSUME LinesAssumption == DaemonLines \subseteq Line
ASSUME GraceAssumption == TeardownInGrace \in BOOLEAN

Slots == {"room", "lobby"}
None == 0                   \* Option::None of a slot
Ids == 1..MaxLines

VARIABLES
    lines,      \* every line the daemon wrote, never consumed
    nread,      \* how many of them the main task has taken
    stdin,      \* "open", or "closed": end of file or a failed read is next
    stdout,     \* "open" or "broken"
    pc,         \* where the main task is
    ok,         \* whether the response being built is a success
    net,        \* Engine.room and Engine.lobby
    room_mtu,   \* Engine.room_mtu
    log,        \* UNA_VEZ: "off", then once "on" or "failed"
    phase,      \* what each instance's own thread is doing
    pump,       \* instances whose pump task is alive
    sent,       \* every message accepted by the mpsc channel, never consumed
    written,    \* how many of them are complete on stdout
    writer      \* "idle", "writing" or "done"

daemonVars == <<lines, stdin, stdout>>
mainVars == <<nread, pc, ok, net, room_mtu, log>>
writerVars == <<written, writer>>
outside == <<daemonVars, writerVars>>       \* what no step of main touches
slotVars == <<net, phase, pump>>
kept == <<room_mtu, log>>
vars == <<lines, nread, stdin, stdout, pc, ok, net, room_mtu, log, phase,
          pump, sent, written, writer>>

Phases == {"unborn", "starting", "running", "stopping", "gone"}
MainSteps == {"read", "grace", "call", "reply", "drain", "join", "returned",
              "exited"}
Message ==
    [type : {"response"}, id : Ids, ok : BOOLEAN]
        \cup [type : {"event"}, from : Ids]

TypeOK ==
    /\ lines \in Seq(DaemonLines) /\ Len(lines) <= MaxLines
    /\ nread \in 0..Len(lines)
    /\ stdin \in {"open", "closed"}
    /\ stdout \in {"open", "broken"}
    /\ pc \in MainSteps
    /\ ok \in BOOLEAN
    /\ net \in [Slots -> Ids \cup {None}]
    /\ room_mtu \in Mtus
    /\ log \in {"off", "on", "failed"}
    /\ phase \in [Ids -> Phases]
    /\ pump \in SUBSET Ids
    /\ sent \in Seq(Message)
    /\ written \in 0..Len(sent)
    /\ writer \in {"idle", "writing", "done"}

Init ==
    /\ lines = <<>> /\ nread = 0
    /\ stdin = "open" /\ stdout = "open"
    /\ pc = "read" /\ ok = FALSE
    /\ net = [s \in Slots |-> None]
    /\ room_mtu = DEFAULT_MTU
    /\ log = "off"
    /\ phase = [n \in Ids |-> "unborn"]
    /\ pump = {}
    /\ sent = <<>> /\ written = 0 /\ writer = "idle"

(***************************************************************************)
(* Helpers.                                                                *)
(***************************************************************************)
Running == pc \notin {"returned", "exited"}   \* the runtime still polls tasks

SlotOf(cmd) == IF cmd = "join_rendezvous" THEN "lobby" ELSE "room"
(* Variants to be caught: leave forgets the room, leave_rendezvous takes it. *)
ReleasedLobbyOnly(cmd) == IF cmd \in Leaves THEN {"lobby"} ELSE {}
ReleasedEverything(cmd) == IF cmd \in Leaves THEN Slots ELSE {}

Released(cmd) ==
    CASE cmd = "leave" -> Slots
      [] cmd = "leave_rendezvous" -> {"lobby"}
      [] OTHER -> {}
Asked(line) == IF line.mtu = NoMtu THEN DEFAULT_MTU ELSE line.mtu
Answerable(n) == lines[n].cmd \in Commands \cup {"unreadable"}

(* UnboundedSender::send: refused only once the writer has dropped rx. *)
Send(m) == sent' = IF writer = "done" THEN sent ELSE Append(sent, m)

(* Dropping a NetworkInstance signals its thread; it waits for nothing. *)
Empty(slots) ==
    /\ net' = [s \in Slots |-> IF s \in slots THEN None ELSE net[s]]
    /\ phase' = [n \in Ids |-> IF \E s \in slots : net[s] = n THEN "stopping"
                                                              ELSE phase[n]]

(* What a sleep of SHUTDOWN_GRACE is trusted to cover, when it is. *)
Grace == TeardownInGrace => \A n \in Ids : phase[n] # "stopping"

(* The receiver yields None when every sender is gone: main's tx, the       *)
(* engine's clone, and one in each pump.                                    *)
NoSenders == pc = "join" /\ pump = {}

(***************************************************************************)
(* The daemon (external).  It may pipeline commands, close our stdin while *)
(* it still reads our stdout, or die and take both pipes with it.          *)
(***************************************************************************)
DaemonSends(line) ==
    /\ stdin = "open" /\ Len(lines) < MaxLines
    /\ lines' = Append(lines, line)
    /\ UNCHANGED <<stdin, stdout, mainVars, phase, pump, sent, writerVars>>

DaemonCloses ==
    /\ stdin = "open"
    /\ stdin' = "closed"
    /\ UNCHANGED <<lines, stdout, mainVars, phase, pump, sent, writerVars>>

DaemonDies ==
    /\ stdout = "open"
    /\ stdin' = "closed" /\ stdout' = "broken"
    /\ UNCHANGED <<lines, mainVars, phase, pump, sent, writerVars>>

(***************************************************************************)
(* The main task: one line at a time, and nothing is read while a command  *)
(* is awaited.                                                             *)
(***************************************************************************)
Take(cmds) ==
    /\ pc = "read" /\ nread < Len(lines)
    /\ lines[nread + 1].cmd \in cmds
    /\ nread' = nread + 1

(* Variant to be caught: the way out forgets the lobby. *)
BreakLoopKeepsLobby ==
    /\ Empty({"room"})
    /\ pc' = "drain"

(* Out of the loop: eng.leave(), drop(eng), then the sleep. *)
BreakLoop ==
    /\ Empty(Slots)
    /\ pc' = "drain"

SkipLine ==
    /\ Take(Skipped)
    /\ UNCHANGED <<outside, slotVars, kept, pc, ok, sent>>

(* Variants to be caught: a refused line is only logged; the `continue` after *)
(* its answer is missing.                                                    *)
RefuseLineSilently ==
    /\ Take({"unreadable"})
    /\ UNCHANGED <<outside, slotVars, kept, pc, ok, sent>>
RefuseLineFallsThrough ==
    /\ Take({"unreadable"})
    /\ Send([type |-> "response", id |-> nread + 1, ok |-> FALSE])
    /\ pc' = "reply" /\ ok' = FALSE
    /\ UNCHANGED <<outside, slotVars, kept>>

(* The id was recovered: answered on the spot, and a refused send ignored. *)
RefuseLine ==
    /\ Take({"unreadable"})
    /\ Send([type |-> "response", id |-> nread + 1, ok |-> FALSE])
    /\ UNCHANGED <<outside, slotVars, kept, pc, ok>>

FatalLine ==
    /\ Take(Fatal)
    /\ BreakLoop
    /\ UNCHANGED <<outside, kept, ok, pump, sent>>

EndOfInput ==
    /\ pc = "read" /\ nread = Len(lines) /\ stdin = "closed"
    /\ BreakLoop
    /\ UNCHANGED <<outside, kept, nread, ok, pump, sent>>

(***************************************************************************)
(* Starting.  host, join and join_rendezvous all turn the log on first and *)
(* validate the configuration after; the two room commands remember the    *)
(* MTU in between.                                                         *)
(***************************************************************************)
(* Variants to be caught: only the rooms turn the log on; the MTU is kept as *)
(* asked; or the last room's stays when this one names none.                 *)
InitLogInRooms(line) ==
    IF line.log_dir /\ log = "off" /\ line.cmd \in RoomStarts
      THEN log' \in {"on", "failed"} ELSE UNCHANGED log
RememberMtuRaw(line) ==
    room_mtu' = IF line.cmd \in RoomStarts THEN line.mtu ELSE room_mtu
RememberNamedMtu(line) ==
    room_mtu' = IF line.cmd \in RoomStarts /\ line.mtu # NoMtu THEN line.mtu ELSE room_mtu

InitLog(line) ==
    IF line.log_dir /\ log = "off" THEN log' \in {"on", "failed"}
                                   ELSE UNCHANGED log

RememberMtu(line) ==
    room_mtu' = IF line.cmd \in RoomStarts THEN Asked(line) ELSE room_mtu

TakeStart ==
    /\ Take(Starts)
    /\ InitLog(lines[nread + 1])
    /\ RememberMtu(lines[nread + 1])

(* Variants to be caught: a failed start is answered ok; the slot is filled  *)
(* before start() is known to have worked.                                   *)
BuildInstanceSwallows(n) ==
    /\ pc' = "reply" /\ ok' = TRUE
    /\ \/ /\ net' = [net EXCEPT ![SlotOf(lines[n].cmd)] = n]
          /\ phase' = [phase EXCEPT ![n] = "starting"]
          /\ pump' = pump \cup {n}
       \/ UNCHANGED slotVars
BuildInstanceEagerly(n) ==
    /\ pc' = "reply" /\ ok' \in BOOLEAN
    /\ net' = [net EXCEPT ![SlotOf(lines[n].cmd)] = n]
    /\ phase' = IF ok' THEN [phase EXCEPT ![n] = "starting"] ELSE phase
    /\ pump' = IF ok' THEN pump \cup {n} ELSE pump

(* The second half of Engine::start: instance.start() fails, or it spawns   *)
(* the thread, fills the slot and spawns the pump.                          *)
BuildInstance(n) ==
    LET slot == SlotOf(lines[n].cmd) IN
    /\ pc' = "reply"
    /\ \/ /\ ok' = TRUE
          /\ net' = [net EXCEPT ![slot] = n]
          /\ phase' = [phase EXCEPT ![n] = "starting"]
          /\ pump' = pump \cup {n}
       \/ /\ ok' = FALSE
          /\ UNCHANGED slotVars

(* config::host, config::guest or config::rendezvous returned an error. *)
StartRefused ==
    /\ TakeStart
    /\ pc' = "reply" /\ ok' = FALSE
    /\ UNCHANGED <<outside, slotVars, sent>>

(* Nothing to replace: no wait is owed. *)
StartFresh ==
    /\ TakeStart
    /\ net[SlotOf(lines[nread + 1].cmd)] = None
    /\ BuildInstance(nread + 1)
    /\ UNCHANGED <<outside, sent>>

(* The slot is taken and dropped BEFORE the new instance is built. *)
StartReplaces ==
    /\ TakeStart
    /\ net[SlotOf(lines[nread + 1].cmd)] # None
    /\ Empty({SlotOf(lines[nread + 1].cmd)})
    /\ pc' = "grace"
    /\ UNCHANGED <<outside, ok, pump, sent>>

(* Variant to be caught: dropped, and built at once. *)
GraceEndsAtOnce ==
    /\ pc = "grace"
    /\ BuildInstance(nread)
    /\ UNCHANGED <<outside, kept, nread, sent>>

GraceEnds ==
    /\ pc = "grace" /\ Grace
    /\ BuildInstance(nread)
    /\ UNCHANGED <<outside, kept, nread, sent>>

(* leave and leave_rendezvous: always a success, whatever was running. *)
LeaveCommand ==
    /\ Take(Leaves)
    /\ Empty(Released(lines[nread + 1].cmd))
    /\ pc' = "reply" /\ ok' = TRUE
    /\ UNCHANGED <<outside, kept, pump, sent>>

(***************************************************************************)
(* The calls that go through the room's RPC service.                       *)
(***************************************************************************)
ApiIsUp == net["room"] # None /\ phase[net["room"]] # "starting"

(* ttl_seconds <= 0 is refused before the room is looked at; otherwise      *)
(* "there is no room running" or "the room is not running yet".             *)
CallRefused ==
    /\ Take(Calls)
    /\ lines[nread + 1].cmd \in CredentialCalls \/ ~ApiIsUp
    /\ pc' = "reply" /\ ok' = FALSE
    /\ UNCHANGED <<outside, slotVars, kept, sent>>

CallBegins ==
    /\ Take(Calls) /\ ApiIsUp
    /\ pc' = "call"
    /\ UNCHANGED <<outside, slotVars, kept, ok, sent>>

CallReturns ==
    /\ pc = "call"
    /\ pc' = "reply" /\ ok' \in BOOLEAN
    /\ UNCHANGED <<outside, slotVars, kept, nread, sent>>

(* tx.send(reply): with the writer gone there is nobody to serve. *)
Reply ==
    /\ pc = "reply"
    /\ Send([type |-> "response", id |-> nread, ok |-> ok])
    /\ IF writer = "done" THEN BreakLoop
                          ELSE pc' = "read" /\ UNCHANGED <<net, phase>>
    /\ UNCHANGED <<outside, kept, nread, ok, pump>>

(***************************************************************************)
(* The way out: drop(tx) after the sleep, then the join with its two       *)
(* second timeout, then main returns.  JoinEnds has no guard because the   *)
(* timeout may always be the one to end it.  Returning drops the runtime:  *)
(* no task is polled again, and only a write already handed to the         *)
(* blocking pool is waited for.                                            *)
(***************************************************************************)
DropSender ==
    /\ pc = "drain" /\ Grace
    /\ pc' = "join"
    /\ UNCHANGED <<outside, slotVars, kept, nread, ok, sent>>

(* Variant to be caught: writer.await with no timeout. *)
JoinEndsWithWriter ==
    /\ pc = "join" /\ writer = "done"
    /\ pc' = "returned"
    /\ UNCHANGED <<outside, slotVars, kept, nread, ok, sent>>

JoinEnds ==
    /\ pc = "join"
    /\ pc' = "returned"
    /\ UNCHANGED <<outside, slotVars, kept, nread, ok, sent>>

Exit ==
    /\ pc = "returned" /\ writer # "writing"
    /\ pc' = "exited"
    /\ UNCHANGED <<outside, slotVars, kept, nread, ok, sent>>

(***************************************************************************)
(* The one writer.  WriterWrites needs the daemon to drain its end.        *)
(***************************************************************************)
WriterTakes ==
    /\ Running /\ writer = "idle" /\ written < Len(sent)
    /\ writer' = "writing"
    /\ UNCHANGED <<daemonVars, mainVars, phase, pump, sent, written>>

WriterWrites ==
    /\ pc # "exited" /\ writer = "writing" /\ stdout = "open"
    /\ writer' = "idle" /\ written' = written + 1
    /\ UNCHANGED <<daemonVars, mainVars, phase, pump, sent>>

WriterFails ==
    /\ pc # "exited" /\ writer = "writing" /\ stdout = "broken"
    /\ writer' = "done"
    /\ UNCHANGED <<daemonVars, mainVars, phase, pump, sent, written>>

WriterEnds ==
    /\ Running /\ writer = "idle" /\ written = Len(sent) /\ NoSenders
    /\ writer' = "done"
    /\ UNCHANGED <<daemonVars, mainVars, phase, pump, sent, written>>

(***************************************************************************)
(* The pump of instance i, seen from the channel (EventPump has the rest). *)
(* It lives until the instance's bus closes or the writer is found gone.   *)
(***************************************************************************)
Events == {k \in 1..Len(sent) : sent[k].type = "event"}

PumpSends(i) ==
    /\ Running /\ i \in pump /\ Cardinality(Events) < MaxEvents
    /\ Send([type |-> "event", from |-> i])
    /\ pump' = IF writer = "done" THEN pump \ {i} ELSE pump
    /\ UNCHANGED <<outside, mainVars, phase>>

PumpEnds(i) ==
    /\ Running /\ i \in pump /\ phase[i] = "gone"
    /\ pump' = pump \ {i}
    /\ UNCHANGED <<outside, mainVars, phase, sent>>

(***************************************************************************)
(* An instance's own thread (external): it publishes its RPC service some  *)
(* time after start() returned, and lets go of the adapter some time after *)
(* it was told to stop.                                                    *)
(***************************************************************************)
Publishes(i) ==
    /\ pc # "exited" /\ phase[i] = "starting"
    /\ phase' = [phase EXCEPT ![i] = "running"]
    /\ UNCHANGED <<outside, mainVars, pump, sent>>

TearsDown(i) ==
    /\ pc # "exited" /\ phase[i] = "stopping"
    /\ phase' = [phase EXCEPT ![i] = "gone"]
    /\ UNCHANGED <<outside, mainVars, pump, sent>>

(* The process is over; only this keeps it from counting as a deadlock. *)
Exited == pc = "exited" /\ UNCHANGED vars

Daemon == DaemonCloses \/ DaemonDies \/ \E line \in DaemonLines : DaemonSends(line)
Main ==
    \/ SkipLine \/ RefuseLine \/ FatalLine \/ EndOfInput
    \/ StartRefused \/ StartFresh \/ StartReplaces \/ GraceEnds
    \/ LeaveCommand
    \/ CallRefused \/ CallBegins \/ CallReturns
    \/ Reply
    \/ DropSender \/ JoinEnds \/ Exit
Writer == WriterTakes \/ WriterWrites \/ WriterFails \/ WriterEnds
Instances ==
    \E i \in Ids : PumpSends(i) \/ PumpEnds(i) \/ Publishes(i) \/ TearsDown(i)

Next == Daemon \/ Main \/ Writer \/ Instances \/ Exited

Spec == Init /\ [][Next]_vars

(***************************************************************************)
(* Fairness.  The executor polls main and the writer; a thread told to     *)
(* stop does stop.  Nothing is assumed of the pumps, of a bus ever closing, *)
(* of a room ever becoming ready, nor of the daemon: whether it drains      *)
(* stdout is a premise of the properties that need it.                      *)
(***************************************************************************)
FairSpec ==
    /\ Spec
    /\ WF_vars(Main)
    /\ WF_vars(WriterTakes \/ WriterFails \/ WriterEnds)
    /\ \A i \in Ids : WF_vars(TearsDown(i))

DaemonDrains == WF_vars(WriterWrites)

-----------------------------------------------------------------------------
(***************************************************************************)
(* Safety.                                                                 *)
(***************************************************************************)
Responses == {i \in 1..Len(sent) : sent[i].type = "response"}
Pending == IF pc \in {"grace", "call", "reply"} THEN {nread} ELSE {}
Alive == {"starting", "running"}
Holding == Alive \cup {"stopping"}      \* may still hold its adapter

(* Responses leave in the order their requests were read and no request is  *)
(* answered twice (proto.rs, one response per request; main.rs sends from   *)
(* two places, the refusal and the reply).                                  *)
AnswersInOrder ==
    \A i, j \in Responses : i < j => sent[i].id < sent[j].id

(* While anybody listens, every line that can be answered has been, except  *)
(* the one in hand: "a rejected message still has to be ANSWERED when its   *)
(* id can be recovered", and nothing else is ever answered (main.rs).       *)
EveryLineAnswered ==
    writer # "done" =>
        {sent[i].id : i \in Responses}
            = {n \in 1..nread : Answerable(n)} \ Pending

(* An instance runs exactly as long as a slot holds it, in the slot its own *)
(* command is about: none is leaked by a replacement, a failed start, a     *)
(* leave or the way out, and none is stopped behind the slot's back.        *)
NoOrphan ==
    /\ \A n \in Ids : phase[n] \in Alive <=> \E s \in Slots : net[s] = n
    /\ \A s \in Slots : net[s] # None =>
          /\ net[s] <= nread
          /\ lines[net[s]].cmd \in Starts
          /\ SlotOf(lines[net[s]].cmd) = s

(* Once the loop is over no network is up, and if a dropped instance lets   *)
(* go within SHUTDOWN_GRACE every adapter is down before main stops waiting *)
(* ("bring the networks down" first, main.rs; SHUTDOWN_GRACE, engine.rs).   *)
CleanExit ==
    /\ pc \in {"drain", "join", "returned", "exited"} =>
          \A n \in Ids : phase[n] \notin Alive
    /\ TeardownInGrace /\ pc \in {"join", "returned", "exited"} =>
          \A n \in Ids : phase[n] \notin Holding

(* A start is answered ok exactly when it built an instance: a refused      *)
(* configuration or a failed start leaves nothing behind (main.rs: dispatch, *)
(* engine.rs: start).                                                       *)
OkMeansStarted ==
    \A i \in Responses : lines[sent[i].id].cmd \in Starts =>
        (sent[i].ok <=> phase[sent[i].id] # "unborn")

(* A call answered ok was served by the room of the last start that built   *)
(* one, with no leave since; and a room is up while its answer is in hand,  *)
(* so that none is answered for a room that a failed replacement took away  *)
(* (engine.rs: api, room).                                                  *)
RoomBehind(n) ==
    \E k \in 1..(n - 1) :
        /\ lines[k].cmd \in RoomStarts /\ phase[k] # "unborn"
        /\ \A j \in (k + 1)..(n - 1) :
              /\ lines[j].cmd # "leave"
              /\ lines[j].cmd \in RoomStarts => phase[j] = "unborn"
OkCallHadRoom ==
    /\ \A i \in Responses :
          lines[sent[i].id].cmd \in Calls /\ sent[i].ok => RoomBehind(sent[i].id)
    /\ pc = "reply" /\ ok /\ lines[nread].cmd \in Calls => net["room"] # None

(* Two instances of one slot hold the adapter together only if a leave      *)
(* emptied the slot between their commands: a REPLACEMENT drops first and   *)
(* waits SHUTDOWN_GRACE (engine.rs: start).  AdapterExclusive, below, is    *)
(* what the doc of start says without that exception.                       *)
ReplacementWaits ==
    TeardownInGrace =>
        \A i, j \in Ids :
            (/\ i < j
             /\ phase[i] \in Holding /\ phase[j] \in Holding
             /\ SlotOf(lines[i].cmd) = SlotOf(lines[j].cmd))
            => \E k \in (i + 1)..(j - 1) :
                  SlotOf(lines[i].cmd) \in Released(lines[k].cmd)

(* The first start command that names a directory settles the log before    *)
(* anything else happens to it, even when its configuration is refused      *)
(* (log.rs: init_once; engine.rs: host, join, join_rendezvous).             *)
LogStarted ==
    \A n \in 1..nread :
        lines[n].cmd \in Starts /\ lines[n].log_dir => log # "off"

(* The MTU the engine remembers is the running room's, unless a later room  *)
(* command was refused (engine.rs: room_mtu; join_rendezvous leaves it).    *)
MtuUnlessRefused ==
    net["room"] # None =>
        \/ room_mtu = Asked(lines[net["room"]])
        \/ \E k \in (net["room"] + 1)..nread : lines[k].cmd \in RoomStarts

(* "Leave ONLY the lobby. Never the room" (proto.rs: LeaveRendezvous): a    *)
(* running room is touched by its own commands and by the way out, never by *)
(* anything done to the lobby, to a call or to a line that is no command.   *)
RoomStep ==
    net["room"] # None /\ net'["room"] # net["room"] =>
        \/ nread' > nread /\ lines[nread'].cmd \in RoomStarts \cup {"leave"}
        \/ pc' = "drain"
RoomSurvivesLobby == [][RoomStep]_vars

(***************************************************************************)
(* Refinement: the two pipes implement CommandChannel.                     *)
(***************************************************************************)
AskedLines == Ascending({n \in 1..nread : Answerable(n)})
AnsweredLines ==
    LET answers == Ascending({i \in 1..written : sent[i].type = "response"})
    IN  [k \in DOMAIN answers |-> sent[answers[k]].id]

Channel == INSTANCE CommandChannel WITH
              Requests <- Ids, asked <- AskedLines, answered <- AnsweredLines

(* What the daemon reads on stdout is a behaviour of CommandChannel.        *)
ChannelSpec == Channel!Spec

(***************************************************************************)
(* Liveness, under FairSpec.                                               *)
(***************************************************************************)
(* "A closed stdin left a process holding a virtual network up": with its   *)
(* stdin at an end main returns, whatever the pumps and the buses do and    *)
(* whether or not the daemon reads, and the process is gone but for a write *)
(* to a daemon that reads no more; one that drains stdout sees it exit.     *)
Exits ==
    /\ stdin = "closed" ~> (pc = "exited" \/ (pc = "returned" /\ writer = "writing"))
    /\ DaemonDrains => (stdin = "closed" ~> pc = "exited")

(* A command with an id is answered on stdout of a daemon that drains it,   *)
(* unless it stops listening or the process goes: silence "turns a bug in   *)
(* the caller into a hang" (main.rs).                                       *)
Replied(n) == \E i \in 1..written : sent[i].type = "response" /\ sent[i].id = n
NeverSilent ==
    DaemonDrains => \A n \in Ids :
        (n <= Len(lines) /\ Answerable(n))
            ~> (Replied(n) \/ stdout = "broken" \/ pc = "exited")

(***************************************************************************)
(* What the comments say and the code does not do; see the violation runs. *)
(***************************************************************************)
(* "The MTU the room was started with" (engine.rs: diagnostics).            *)
MtuTruth ==
    pc = "reply" /\ ok /\ lines[nread].cmd = "diagnostics" =>
        room_mtu = Asked(lines[net["room"]])

(* "Two instances fought over kanpachi0" no more (engine.rs: start).        *)
AdapterExclusive ==
    \A i, j \in Ids :
        i # j /\ phase[i] \in Holding /\ phase[j] \in Holding
            => SlotOf(lines[i].cmd) # SlotOf(lines[j].cmd)
=============================================================================
