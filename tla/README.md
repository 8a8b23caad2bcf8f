# A verification of kanpachi-engine

kanpachi-engine is the process that owns Kanpachi's virtual networks. A daemon
starts it, writes commands to its stdin one JSON object per line, and reads
responses and events from its stdout. Inside, the process embeds EasyTier and
runs at most two network instances of it: the room and the lobby.

The modules here are written from `src/src/*.rs`. EasyTier, tokio and the daemon
are not in the repository; what is modelled of them is what the code relies on,
and those definitions are marked external in `PROJECT.json`.

## 1. The system

| component | source | state | operations | status |
|---|---|---|---|---|
| command loop and way out | `main.rs` | lines read, the reply in hand, senders of the output channel | read, refuse, dispatch, answer, drain, join the writer, return | `Engine` |
| writer task | `main.rs:99` | what is queued, what is written | take, write, fail, end | `Engine` |
| network slots | `engine.rs:49-212` | `room`, `lobby`, `room_mtu` | host, join, join_rendezvous, leave, leave_rendezvous | `Engine` |
| network instance | EasyTier | starting, running, stopping, gone | publish its service, tear down | `Engine` (external) |
| event pump | `engine.rs:478-591, 731-786` | position on the bus, the join it waits on | take, wait, announce, lag, end | `EventPump`; its life in `Engine` |
| credentials | `engine.rs:214-338, 454-458` | kept by the room's instance | issue, renew, revoke, list | `Credentials`; the await in `Engine` |
| member list, round trips | `engine.rs:339-418, 602-729` | none of its own | peers | `MemberList`; the daemon's re-read in `EventPump` |
| diagnostics | `engine.rs:421-452` | none of its own | diagnostics | the MTU in `Engine`, the build ids in `BuildIdentity` |
| wire types | `proto.rs` | none | parse, serialise | as records, where a property depends on them |
| configuration | `config.rs` | none | host, guest, rendezvous | `Config` |
| log and redactor | `log.rs` | installed or not | init_once, redact, the panic hook | `Redactor`, `LogFile`; installation in `Engine` |
| build identity | `build.rs`, `build_id.rs` | what cargo keeps of the script | one id per build | `BuildIdentity` |
| scripts, packaging | `scripts/`, `Cargo.toml` | none | drive compilers, the OS and the binary | no |

How they interact:

- The main task owns the engine. While a command is awaited nothing else is
  read, so commands never overlap; the daemon may still pipeline them.
- Main, the engine and every pump hold a sender of ONE unbounded channel, and
  one task writes it to stdout. Responses and events share that order.
- `start` empties its slot, waits `SHUTDOWN_GRACE` if there was something in it,
  builds the instance, and spawns a pump on its event bus. The instance runs on
  a thread of its own: dropping it only tells it to stop.
- The pump reads a bounded broadcast bus. It translates, filters in the lobby,
  and in the room holds a join back until the member's route has an address.
- The daemon, told `peers_changed`, asks for the member list again. It never
  learns of a member from the event itself.
- That list is built from four reads of EasyTier, one after another, while the
  network goes on changing.
- The room's instance keeps the credentials. A guest, another engine on another
  machine, enters with a configuration whose key IS the credential.
- Every configuration starts from EasyTier's defaults. EasyTier logs it when an
  instance starts, secrets included, through the subscriber of `log.rs`.
- The binary carries an id that cargo computed at some earlier build, if nothing
  the build script named has changed since.

What is hard here: the process ends only when every sender is gone, or a timeout
says so; answers are sent from two places; a slot is emptied before the next
instance is known to build; a dropped instance keeps its adapter for a while; a
bus that drops events; an address that arrives with no event of its own; a list
read in four pieces; renewals pipelined behind a revocation; an answer the
daemon has not read yet; a secret in a line somebody else formats; an id that
outlives its commit. All of it is in `PROJECT.json` under `hazards`, each at its line, with the properties
that would notice.

What makes each part correct:

- loop, writer: each answerable line gets one answer, in order; a closed stdin
  ends the process; no network survives it.
- slots: an instance runs exactly as long as a slot holds it; two instances of
  one slot do not share the adapter; the lobby's commands never move the room.
- pump: no member with an address is left out of the daemon's list for good;
  the lobby tells nothing of its peers; falling behind loses no fact.
- credentials: each lives once; revoking removes one member, for good; the
  expiry the daemon believes is the one stored.
- member list: who is on it, and how each is reached, is of one instant; a round
  trip was measured, and its absence means that somebody had not measured it.
- configuration: what the product forbids is off whatever EasyTier's default.
- log: it starts once, with the first command that names a directory; no secret
  reaches it, and nothing else is lost.
- build identity: the id is of the commit that was built, or says it does not
  know.

## 2. Modules

| module | what it is |
|---|---|
| `CommandChannel` | abstract: requests asked, requests answered, in order, at most once |
| `Ordered` | the members of a finite set of naturals in order |
| `OrderedProofs` | what that order is, and, as a lemma, induction over the naturals |
| `Engine` | the process: daemon, main task, writer, slots, instances, pumps as seen from the channel |
| `MCEngine` | vocabularies of the daemon for TLC |
| `EngineProofs` | theorems about `Engine`: types, slots, answers |
| `EngineHistoryProofs` | theorems about what one command leaves for later ones, and about the pipes as a channel |
| `EventPump` | one pump between the bus, the routes and the daemon |
| `MCEventPump` | vocabularies of the bus for TLC |
| `EventPumpProofs` | theorems about `EventPump` |
| `MemberSnapshot` | abstract: the members and their paths at one instant of the call, or no list |
| `MemberList` | one `peers` call: four reads of moving tables, and the arithmetic of round trips |
| `MemberListProofs` | theorems about `MemberList` |
| `Config` | what the three builders make of their arguments over any defaults |
| `CredentialLife` | abstract: a credential is issued once, ends once, and lets one guest in |
| `Credentials` | the credential calls, the room's table and clock, the guests at its door |
| `CredentialsProofs` | theorems about `Credentials` |
| `Redactor` | what is taken out of one line |
| `LogFile` | a process: its instances, the subscriber, the file, stderr |
| `LogFileProofs` | theorems about a line, a text and the process that logs it |
| `BuildIdentity` | the repository, cargo's rule, the build script, the binary |
| `MCBuildIdentity` | machines and locks for TLC |
| `Delivery` | `BuildIdentity` and `LogFile` together: a binary from the repository to a player's log |
| `MCDelivery` | messages, defaults and arguments for TLC |
| `DeliveryProofs` | the invariant of `BuildIdentity`, and theorems about `Delivery` |

`Credentials` and `LogFile` both extend `Config`: the guest's door and the log
see the configuration that the builders really make, so a builder that put the
room's secret in a guest's hands is caught by what that guest can then do.

### Engine

`lines` and `sent` are histories: every line written, every message queued.
`nread` and `written` say how far the main task and the writer are. A request's
id is the number of its line, and an instance is named after the line that
started it, so "which start is this room from" needs no bookkeeping. As a
channel, `Engine` has asked what it read of `lines` and answered what it wrote of
the responses in `sent`, each in the order of `Ascending`.

| in the code | in `Engine` |
|---|---|
| `lines.next_line()`, the length check, the strict parse, `JustId` | `SkipLine`, `RefuseLine`, `FatalLine`, `EndOfInput` |
| `Engine::host`, `join`, `join_rendezvous` and `start` | `StartRefused`, `StartFresh`, `StartReplaces` then `GraceEnds` |
| `log::init_once`, first thing in all three | `InitLog` |
| `room_mtu = ...`, before the configuration is tried | `RememberMtu` |
| `leave`, `leave_rendezvous` | `LeaveCommand` |
| the calls through `api()` | `CallRefused`, or `CallBegins` then `CallReturns` |
| `tx.send(reply)`, and `break` if it fails | `Reply` |
| `eng.leave(); drop(eng)`, the sleep, `drop(tx)`, the join with its timeout | `BreakLoop`, `DropSender`, `JoinEnds`, `Exit` |
| the writer task | `WriterTakes`, `WriterWrites`, `WriterFails`, `WriterEnds` |
| `pump` | `PumpSends`, `PumpEnds` |

An await is where another actor may act, so each action ends at one: a
replacement is two actions because `SHUTDOWN_GRACE` is slept between them, a
call is two because the RPC is awaited.

`TeardownInGrace` is the bet that constant makes: with it, the sleep ends only
when no dropped instance is still stopping; without it, whenever it likes.

### EventPump

`bus` and `sent` are histories again; `head` is the receiver's position and
`heard` the daemon's. `route` says of each peer whether the table has nothing
of it, a route with no address, or one with an address. `known` is the daemon's
list, `seen` how long the bus was when it was read.

| in the code | in `EventPump` |
|---|---|
| `events.recv()` | `Takes` in each action, with `Lagged` for the bus's own rule |
| `if solo_adaptador && !matches!(.., TunDeviceError(_))` and the last arm | `Ignores` |
| the `match` on the event | `Translated`, `Announces` |
| `esperar_direccion` | `BeginsToWait`, then `AddressSeen` or `GivesUp` |
| `Err(Lagged(n))` | `Lags` |
| `Err(Closed)` | `Ends` |
| `api: self.api().ok()` at the spawn | `api`, chosen in `Init` |

A poll that finds no address changes nothing and is not an action.
`ConvergesInTime` is the bet `ESPERA_DE_RUTA` makes: with it, the wait runs out
only on a seed, on a member that left, or on an instance that is gone.

### MemberList

`routes`, `conns` and `center` are EasyTier's three tables, each a partial
function that changes at any moment. `past` is a history: the tables at every
instant since the call began, which is what its answer is judged against.

| in the code | in `MemberList` |
|---|---|
| `show_node_info`, and the entry of this node | `ReadsNode` |
| `list_route`, `list_peer` | `ReadsRoutes`, `ReadsConns` |
| `get_global_peer_map`, and the loop over the routes | `ReadsMap`, with `Entries` |
| the `?` of any of the four, "does not know its own node yet" | `GivesUp` |
| `measured_rtt_ms`: `mine`, `theirs`, the match on the cost | `Near`, `Far`, `MeasuredRtt` |
| `as_ms`: round, the saturating cast, `max(1)` | `AsMs` |
| the `+` of two `i32` | `Add32`, modulo the width |
| `bare_addr` | `BareAddr` |

`MaxInt` stands for `i32::MAX` and is a constant, so that a small instance meets
its rounding, its saturation and its wrap.

### Credentials

A request is one command, an answer one `Reply` with the expiries it carries.
`creds` is the room's table, `told` and `dead` what the daemon has read so far,
`born` a history: the room in which each id was issued.

| in the code | in `Credentials` |
|---|---|
| `ttl_seconds <= 0`, looked at before the room | `RefusesLifetime` |
| `api()?` | `RefusesCall`, or `BeginsCall` |
| the four RPCs | `ServesIssue`, `ServesRenew`, `ServesRevoke`, `ServesList` |
| `!res.success` | `ServesUnknown` |
| the `?` after an RPC | `CallFails` |
| `host`, `join`, `leave` | `StartRefused`, `StartFails`, `StartsRoom`, `Leaves` |
| the answer on stdout, and the daemon's read of it | `Answers`, then `Reads` |
| `config::host` and `config::guest` | `Config!Host`, `Config!Guest`, through `Admits` |

A request `start` is either of the two commands that replace the room; what the
room was started as makes no difference to its table.

The RPC acts on the table in one step, between the one that begins the call and
the one that answers it; expiry and the door fall anywhere between them. The
daemon names only ids it was given, and may have `Pipeline` requests on the way.

### Config

A configuration is what decides an outcome: the name, the secret if there is
one, the key, and the set of capabilities that are on. `defaults` is what
EasyTier would turn on; a builder subtracts and adds. `OffByFlag`, `OffInBase`
and `OffInEach` say where in the code each forbidden capability is turned off;
`Secure` is the key pair, without which neither a host nor a seed is built.

### Redactor, LogFile

A line is a sequence of tokens: the three keys, the two separators, a space, the
newline, a secret, a word. `Corte`, `RedactLine` and `Redacted` are `corte` and
the two halves of `redactar`; `Lines` is `split_inclusive`, a line for each of the
`Ends` of a text. `Logs` is the subscriber, which ends every event with a
newline. `Writes` is `SinSecretosWriter::write` under a
caller that hands in what it believes was not consumed; `WriteFails` leaves any
part of the redacted text on the disk. `Starts` logs the dump of a configuration
that `Config` built; `Panics` is the hook. `Complains` is a line that the process
writes straight to stderr; section 6 names the one that is left out.

The formats are an assumption, `MessagesAssumption`: every message `Tells` its
values, that is, each comes after its field's name on the same line, past a
separator if one follows the name. They are those that `log.rs` names, the TOML
dump and `{:?}`. A message is otherwise any text, of any number of lines.

### BuildIdentity, Delivery

The repository is HEAD, branches with and without a file of their own, a tree
that is edited or not, and a lock. `changed` is what cargo compares: the files
touched since the script last began. `tracked` is what the script named.

| in the code | in `BuildIdentity` |
|---|---|
| the `rerun-if-*` lines | `Tracks` |
| `KANPACHI_ENGINE_BUILD_REF`, trimmed and not empty | `Told` |
| `git rev-parse`, `git status` | `NamesHead` or `NamesNothing`, then `LooksAtTree` or `StatusFails` |
| `engine_lib` | `EngineLib`, in `ReadsLock` |
| the search for `Packet.lib` and its panic | `CannotLink`, `ScriptPanics` |
| `env!` in `build_id.rs` | `Compiles` |

People work on the repository in every one of those states. `Delivery` lets the
binary CI built run somewhere else, where its log begins.

## 3. Runs

| run | checks | bounds |
|---|---|---|
| `engine_slots` | `TypeOK`, `LogStarted`, `NoOrphan`, `CleanExit`, `OkMeansStarted`, `OkCallHadRoom`, `ReplacementWaits`, `MtuUnlessRefused`, `RoomSurvivesLobby` | 4 lines of 6 kinds |
| `engine_channel` | `AnswersInOrder`, `EveryLineAnswered`, `ChannelSpec` (refinement), `Exits`, `NeverSilent` | 3 lines of 5 kinds, 1 event |
| `engine_mtu` | `MtuTruth`, violated | 3 lines |
| `engine_adapter` | `AdapterExclusive`, violated | 3 lines |
| `pump_room` | `AdapterFateReported`, `NobodyLockedOut`, `CatchesUp` | a member and a seed, 3 events, no lag |
| `pump_lag` | `TypeOK`, `NewsNotLost`, `LobbyLeaksNothing`, `PumpOutlivesLag`, `NewsIsHeard` | one member, 3 events, a bus of 1 |
| `pump_lag_lockout` | `NobodyLockedOut`, violated | 4 events, a bus of 1 |
| `pump_blind_lockout` | `NobodyLockedOut`, violated | 4 events, no service |
| `members` | `TypeOK`, `RttIsMeasured`, `SilenceIsEvidence`, `DaemonParses`, `SnapshotSpec` (refinement) | a member and a seed, 1 change from any initial tables, i32 of 4 bits |
| `credentials` | `TypeOK`, `ToldIsHeld`, `GoneIsFinal`, `KickIsOnePerson`, `LifeSpec` (refinement), `DoorCloses` | 2 guests, 2 ids, 2 rooms, 4 requests of which 3 on their way, a clock to 3 |
| `delivery` | `TypeOK`, `IdNamesCommit`, `LibIsLocked`, `SecretsStayOut`, `LogIsWhole`, `NothingForbidden` | 2 branches, 2 commits, 3 builds, 2 edits; 5 messages, 2 events of a process |
| `build_race` | `CleanIsThatCommit`, violated | 1 branch, 2 commits, 1 build, 1 edit |

Why the bounds are enough to meet the cases:

- In `engine_channel` three lines give a start, a replacement, a call and a line
  that is skipped, refused or ends the reading, in any order, with the daemon
  closing or dying between any two steps. `engine_slots` has the kinds of start
  and of leave, and takes four lines: start, leave, start, and a call that asks
  which room is up. What the two leave apart, the proofs have together.
- One event is enough to fall before, between or after two answers; pumps do
  not talk to each other.
- A bus of capacity one lags on the second event, so three events give a lag
  after a lag, and a lag while the pump waits. `pump_room` has a bus as long as
  its news, so that lag cannot be the reason it passes or fails.
- In `engine_slots` a host names an MTU that is not the default and a join names
  none, so a room's MTU has to be written by each of them over the other's, and
  a lobby names none either, so it would be seen to write the room's.
- `members` starts from EVERY content of the tables and calls repeat without
  bound, so one change is one that may fall between any two reads; the proofs
  are for any number of them. With `MaxInt` 7, latencies of 0.4, 6 and 9 ms and
  edges of 0 and 7 ms, a half is floored, rounded, saturated, and a sum wraps.
- In `credentials` four requests are an issue, and a revocation, renewal or leave
  pipelined three deep behind it; two rooms let an id of the first be named in
  the second; two guests are one invitation passed on; the clock passes the
  shorter lifetime and the longer.
- In `delivery` three builds are a first one and two that may reuse it; two
  commits on two branches, with packed references, give a commit, a switch, a
  gc and a detached HEAD. The messages hold two keys on a line, a key twice, a
  key with nothing behind it, a value without a separator, base64 with its own
  separator, and public lines that must survive. The defaults are all off and
  all on.

`CHECK_DEADLOCK FALSE` stands in the pump's configurations because that system
may stop: the bus has been closed, the pump is over, the daemon has read all.
It stands in `credentials` and `delivery` because their daemon, their people and
their process may simply do no more. `Engine` ends in `Exited` and `MemberList`
can always be asked again, so deadlock is checked in every run of them.

Symmetry is used where nothing tells two values apart and no liveness is
checked: the branches of `delivery`. Lines are numbered, a pump's run has one
member, a member is not a seed.

## 4. Fairness

`Engine!FairSpec` assumes that the executor polls the main task and the writer,
and that a thread told to stop stops. It assumes nothing of the daemon, of the
pumps, of a bus closing or of a room becoming ready: main returns with pumps
that never end, because of the two second timeout. The one thing that is the
daemon's to give is written in the properties as their premise, `DaemonDrains`:
a write of the writer task ends, because stdout is read or closed. Without it
`Exits` still says that main returns, and that the process is at worst waiting
for that one write.

`Credentials!FairSpec` assumes that an instance gets round to putting out a guest
whose credential is gone. Nothing is assumed of the daemon, of the RPCs or of
the clock. `MemberList` and `Delivery` have no liveness to claim: a read that
never returns is the instance's.

`EventPump!FairSpec` assumes that the pump and its timer are polled, that the
daemon reads what it is sent, and that a member's route converges. Nothing is
assumed of what the instance publishes.

## 5. What is proved

The proofs hold for every number of lines, events, peers, guests, credentials,
branches and builds, every set of MTUs and lifetimes, every capacity of the bus,
every width of the integer, every set of defaults. They use the named
assumptions of the modules, all of them about constants (bounds are naturals,
`None`-like values are apart from the data, `MaxInt` is positive, branches have
names of their own), which TLC evaluates on every run. `MessagesAssumption` is
the one that says something of the world: the formats EasyTier logs in.

In `EngineProofs`:

| theorem | says | inductive invariant |
|---|---|---|
| `TypeCorrect` | `[]TypeOK` | `TypeInv`: a command in hand has been read, so `nread` is an id; a write in progress has a message to write |
| `Orphans` | `[]NoOrphan` | `SlotInv`: besides the two-way tie of slots and instances, nothing beyond `nread` has been born, and while the grace runs the slot is empty and the line in hand has built nothing yet. Without it the step that ends the grace could overwrite an instance |
| `ExitIsClean` | `[]CleanExit` | `SlotInv` again: both slots are empty once the loop is over, and after the sleep nothing holds an adapter |
| `AnswersStayInOrder`, `EveryLineIsAnswered` | `[]AnswersInOrder`, `[]EveryLineAnswered` | `AnswerInv`: every queued answer is of a line read, and not of the one in hand |
| `LobbyNeverTakesRoom` | `RoomSurvivesLobby` | an action property, from `TypeInv` and `SlotInv` |

In `EngineHistoryProofs`, over the invariants above:

| theorem | says | inductive invariant |
|---|---|---|
| `PipesAreAChannel` | `Spec => ChannelSpec` | none of its own: `TypeInv` and `AnswerInv` make each write of a response the next answer of the channel |
| `LogIsStarted` | `[]LogStarted` | itself, with `TakenBy`: only a start touches the log |
| `MtuIsTheRooms` | `[]MtuUnlessRefused` | `MtuInv`: while a replacement sleeps, the MTU is already that of the room about to be built |
| `OkMeansAnInstance` | `[]OkMeansStarted` | `OkInv`: the response in preparation is already right, and nobody already answered for is born or unborn later (`BornKept`) |
| `CallsHaveARoom` | `[]OkCallHadRoom` | `CallInv`: since the room that is up, no line read was a leave or a room command that built anything; a call in flight keeps the room it began with. That this room is still up when the call is answered is `SlotInv`'s, and excludes a replacement that failed in between |
| `ReplacementsWait` | `[]ReplacementWaits` | `WaitInv`: outside a grace, whoever is still stopping in an empty slot was let go by a leave read after its own line. The property alone does not know why a slot is empty, and a first start would break it |

In `EventPumpProofs`, over `PumpInv` (a wait only begins with a service to poll,
and the lobby is given none):

| theorem | says |
|---|---|
| `PumpTypeCorrect` | `[]TypeOK`, with the fact that a wait is on a join just taken |
| `NewsIsNeverLost` | `[]NewsNotLost`, for any lag |
| `LobbyIsSilent` | `[]LobbyLeaksNothing` |
| `LagNeverEndsPump` | `[]PumpOutlivesLag` |
| `NobodyIsLockedOut` | `[]NobodyLockedOut`, if `KeepsUp`: the bus holds all the news, the pump has a service, routes converge in time. Its invariant `JoinPending` says that a member still without an address has its join ahead of the pump, or being waited for |

`pump_room` is an instance of `KeepsUp`, and the two violation runs of the pump
drop one of its conditions each.

`AdapterFateIsReported` (`[]AdapterFateReported`, if `MaxNews <= BusCap`) counts:
what has been said of the adapter is as many events as there are failures before
the pump's position, by the cardinality of the two sets.

In `CredentialsProofs`, over `TypeInv` (a request in hand was well formed when it
was sent, and an answer names what it was asked):

| theorem | says | inductive invariant |
|---|---|---|
| `CredentialTypes` | `[]TypeOK` | `TypeInv` |
| `OnePersonPerCredential` | `[]KickIsOnePerson` | `NoneReusable`: every credential of the table displaces whoever is inside on it |
| `CredentialsLiveOnce` | `Spec => LifeSpec` | each step is a step of `CredentialLife` or a stutter, with `AdmittedByCredential`: a guest's configuration opens the door by its key or not at all |
| `GoneForGood` | `[]GoneIsFinal` | `GoneInv`: every answer that ends an id, wherever it is in the pipe, is already final. The property alone sees only answers that were read |
| `ToldIsTrue` | `[]ToldIsHeld` | `BeliefInv`: the snapshot in EVERY answer on its way is true of the table, or a later answer supersedes it, read in the order they will be read |

In `MemberListProofs`, over `PastInv` (what each read returned is what the table
held at some instant of the call; the answer is `Entries` of three such):

| theorem | says |
|---|---|
| `MemberListTypes` | `[]TypeOK`, the `i32` fields among it, for any width |
| `AddressesAreBare` | `[]DaemonParses` |
| `SilenceTellsTheTruth` | `[]SilenceIsEvidence` |
| `RoundTripsAreMeasured` | `[]RttIsMeasured`, from lemmas on `AsMs`, `Add32`, `Near` and `Far` |
| `ListIsASnapshot` | `Spec => SnapshotSpec`: `ReadsRoutes` is the abstract `Read`, and the two reads after it are stutters |

For `PipesAreAChannel`, the place of a line among the asked, and of a message
among the answered, is how many come before it (`Ordered`). A step of the writer
adds a message later than all before it. By `AnswerInv` the ids below its own
that were asked are those already answered, so they are as many, and the answer
falls on the next request.

In `OrderedProofs`, the lemma `SetInduction`: a set of naturals with 0 and every successor is
`Nat`. The library's induction takes an operator, which these provers do not
instantiate; a set they can build. Its proof counts: the members below a natural
that is missing would be as many as themselves without 0. From it `LeastMember`
and `GreatestMember`, and what `Ascending` returns.

In `LogFileProofs`:

| theorem | says | rests on |
|---|---|---|
| `AnnouncedValuesGo` | no line, of any length and with any keys, keeps a value that one of its keys announces | what is kept is the line up to its earliest cut, which is before the value |
| `LogInvariant` | `[]LogInv` of a process alone | the lemmas on `Redacted`, whose `FlattenSeq` is a recursive definition: they go line by line over a text, by the lemma `TextInduction`, which is `SetInduction` and the last line of a text |

`LogInv` has what the two properties cannot do without. The text the subscriber
still holds `Tells` its values, so that what is written next is clean. And what
was logged is what is done followed by what is held, where the done and the file
`Match` line by line: `LogIsWhole` speaks only of the moments when nothing is
held, and would not survive the step that ends one.

In `DeliveryProofs`, `BuildInvariant` and, from it, `SealedIsTrue`: `IdNamesCommit`
and `LibIsLocked` of the builds alone. The
invariant is what cargo's rule needs: the script's last answer is right, or a
file that it named has changed since (or is missing, or the variable differs),
so that a build which reuses the answer reuses a right one. A commit on a branch
writes the branch's file, a switch writes HEAD, and after a gc the branch's file
is missing; naming fewer files breaks a step. Then, of the binary wherever it
runs:

| theorem | says |
|---|---|
| `DeliveryTypes` | `[]TypeOK`, of the build, the binary and the process |
| `NothingForbiddenEver` | `[]NothingForbidden`, for any defaults |
| `DeliveredNamesCommit`, `DeliveredNamesLib` | `[]IdNamesCommit`, `[]LibIsLocked`, from `BuildInvariant` |
| `DeliveredSecretsStayOut`, `DeliveredLogIsWhole` | `[]SecretsStayOut`, `[]LogIsWhole`, from `LogInv`: what happens to the repository does not touch the log, and the process begins once |

Every safety property and every refinement that a passing run checks is a
theorem. Only model-checked are:

- the liveness properties (`Exits`, `NeverSilent`, `CatchesUp`, `NewsIsHeard`,
  `DoorCloses`): they need fairness, hence ENABLED, which the prover does not
  have;
- of what the violation runs refute (section 6), the counterexamples. What does
  hold in their place is proved: `MtuUnlessRefused`, `ReplacementWaits`,
  `NobodyLockedOut` under `KeepsUp`, and of an id its commit, `IdNamesCommit`.

## 6. Where the code and its words differ

- **The reported MTU** (`engine_mtu`). `host` and `join` store `room_mtu` before
  the configuration is tried. A refused room command leaves the old room up and
  its MTU overwritten, and the next diagnosis reports the wrong one.
  `MtuUnlessRefused` is what does hold.
- **A start after a leave** (`engine_adapter`). Only a replacement waits for the
  old instance; a leave empties the slot, so the start after it does not, and
  both instances may hold the adapter. `ReplacementWaits` is what does hold.
- **A lag during a burst of joins** (`pump_lag_lockout`). The lag is announced at
  once. If the dropped event was a join, the daemon re-reads before that member
  has an address, and nothing tells it to read again.
- **A pump with no service** (`pump_blind_lockout`). The service is asked for
  once, just after `start()` spawned the thread that publishes it. If it is not
  there yet the pump never waits for anybody.

`NobodyLockedOut` holds when neither of the pump's two happens (`pump_room`): a
bus that keeps up, a service in hand, and routes that converge within the wait.

- **A clean id of another tree** (`build_race`). git is asked for HEAD and then
  for the state of the tree. A commit between the two answers leaves a clean id
  that names the commit before, of which that tree was never clean. A build
  handed out is CI's, told its commit by `KANPACHI_ENGINE_BUILD_REF`, and asks
  git nothing.

These five are runs. What follows was met while modelling and is not: it is
about words, or about something outside the code.

- `corte`'s doc says that a key without a separator hides everything from the key
  on (`log.rs:323`). It does if no separator follows ANYWHERE on the line; with
  a later one, the text between the key and that separator is kept. None of the
  formats `log.rs` names has a value there, and `MessagesAssumption` says so. A
  value on the line AFTER its key, as `{:#?}` would write it, is outside it too.
- `.dirty` is as of the script's last run (`build.rs:194` says "when the tree has
  uncommitted changes"). An edit of a source file is nothing the script names,
  so a build after it keeps the clean id of the build before. A `git status`
  that fails is read as clean as well (`build.rs:314`). What holds of an id,
  `IdNamesCommit`, is about its commit alone.
- `log.rs:118` says the release profile compiles with `panic = "abort"`;
  `Cargo.toml` has no profile. `Panics` allows both.
- `main.rs:65` says the first line lands in `kanpachi-engine.log`; it goes to
  stderr, before any log exists, and `log.rs` says the daemon keeps that in
  `kanpachi.log`.
- `bare_addr` is applied to the member list; `diagnostics` sends its own address
  with the prefix (`engine.rs:443`). Whether the daemon parses that field is not
  in the repository.
- `log.rs:108-112` redacts a panic because the daemon keeps stderr in
  `kanpachi.log`, the other file that gets sent around. A command that does not
  parse and has no id is told on stderr in serde's own words (`main.rs:173`),
  past the redactor. That text is outside the model, and so outside
  `SecretsStayOut`.
- The sum of two halves is an `i32` addition of unbounded inputs. Past 24 days of
  round trip it wraps in a release build, and `RttIsMeasured` excepts it.

## 7. What is assumed

- A request's id is the number of its line. The code copies the id it was sent;
  two requests with one id are the daemon's affair.
- A response can be serialised, and an RPC of the room returns. An RPC that
  returns an error has done nothing (`CallFails`): it is a call inside the
  process, but the code has no way to tell.
- The text of an unreadable command is none of the secrets the log is judged by
  (section 6). The other lines that `main.rs` and `log.rs` write to stderr are
  `Complains`, and carry none.
- An instance does not end on its own; a slot whose instance died by itself
  looks to the engine like one that runs.
- Whether a route goes before or after `PeerRemoved` is left free, and no
  property depends on it.
- A route comes up with an event, `PeerAdded` or `PeerConnAdded`, and gets its
  address without one (`engine.rs:733-743`).
- A route of cost one is a tunnel to the node itself, and a seed is given no
  address in the room (`engine.rs:400-407`).
- EasyTier's credential table forgets what has expired, issues an id it never
  issued before, lets a newcomer on a single-use credential displace whoever is
  inside on it, and puts out whoever's credential is gone.
- `fmt::Layer` hands an event in at once and sends again what a write says it did
  not consume (`log.rs:277-282`).
- cargo runs a build script again when a file it named was touched since it last
  began, or is missing, or a variable it named differs.

## 8. The plan

Done, in this order: `CommandChannel`, `Engine` and `EventPump` with their runs
and proofs; `MemberSnapshot` and `MemberList`; `Config`, `CredentialLife` and
`Credentials`; `Redactor`, `LogFile`, `BuildIdentity` and `Delivery`; the proofs of
each.

What is left: a diagnosis (`DiagnosticsOut`), of which only the MTU and the two ids
are more than a copy, and only they are modelled.

Not modelled, and why:

- the scripts and the packaging drive compilers, the OS and the binary, and keep
  no state;
- the VERSIONINFO resource: `build.rs` writes it for Windows, from the same id,
  and goes on without it if anything fails; and the order in which it probes for
  `Packet.lib`, of which only found or not found matters;
- the NAT fields of a diagnosis and the hostnames are copied from EasyTier;
- the rotation of the log by day and size, which is the appender's;
- memory: the unbounded channel and the line read whole before it is measured
  are listed as hazards, but the models have no memory.
