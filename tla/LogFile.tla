------------------------------ MODULE LogFile ------------------------------
(***************************************************************************)
(* The text a process leaves behind: kanpachi-engine.log, and the stderr    *)
(* the daemon copies into its own log (src/src/log.rs, main.rs).           *)
(*                                                                         *)
(* The threads of EasyTier (external) log what they like once a subscriber *)
(* is installed, the whole configuration of every instance that starts     *)
(* among it.  The subscriber formats an event and hands it to the writer,  *)
(* one event at a time, until the writer says all of it is consumed.       *)
(***************************************************************************)
EXTENDS Config, Redactor, Ordered, SequencesExt

CONSTANTS
    Messages,           \* what is logged, or a panic says
    StartArgs,          \* the arguments of the starts
    UpstreamDefaults,   \* what EasyTier's defaults may turn on
    MaxEvents           \* bound: starts, events and panics of a process

Text == Seq(Token)

(* split_inclusive('\n') *)
Ends(t) == {e \in DOMAIN t : t[e] = NewLine \/ e = Len(t)}
Lines(t) ==
    LET ends == Ascending(Ends(t))
    IN  [k \in DOMAIN ends |->
            SubSeq(t, IF k = 1 THEN 1 ELSE ends[k - 1] + 1, ends[k])]

(* The formats the redactor is written for: a value comes after its field's *)
(* name, on the same line, and after a separator if the line has one there. *)
Tells(t) ==
    \A k \in DOMAIN Lines(t) :
        LET line == Lines(t)[k]
        IN  \A i \in DOMAIN line : line[i] = Secret => Announced(line, i)
ASSUME MessagesAssumption == \A m \in Messages : m \in Text /\ Tells(m)
ASSUME EventsAssumption ==
    MaxEvents \in Nat /\ UpstreamDefaults \subseteq SUBSET Capabilities

VARIABLES
    defaults,   \* the defaults of the EasyTier this binary embeds
    proc,       \* "none", "running" or "ended"
    once,       \* the installation: "never", "on" or "failed"
    nodes,      \* the configurations instances started with
    pending,    \* what the subscriber still has to hand to the writer
    file,       \* the log
    stderr,     \* what went to stderr
    events,     \* how many starts and events there were
    emitted,    \* history: all that was logged, as it was formatted
    faulted     \* history: whether a write to the file failed

logVars == <<defaults, proc, once, nodes, pending, file, stderr, events,
             emitted, faulted>>

LogInit ==
    /\ defaults = {}
    /\ proc = "none" /\ once = "never" /\ nodes = {}
    /\ pending = <<>> /\ file = <<>> /\ stderr = <<>> /\ events = 0
    /\ emitted = <<>> /\ faulted = FALSE

LogTypeOK ==
    /\ defaults \subseteq Capabilities
    /\ proc \in {"none", "running", "ended"}
    /\ once \in {"never", "on", "failed"}
    /\ \A n \in nodes : n.on \subseteq Capabilities
    /\ {pending, file, stderr, emitted} \subseteq Text
    /\ events \in 0..MaxEvents /\ faulted \in BOOLEAN

Redacted(t) ==
    LET lines == Lines(t)
    IN  FlattenSeq([k \in DOMAIN lines |-> RedactLine(lines[k])])

(***************************************************************************)
(* The writer.                                                             *)
(***************************************************************************)
Busy == pending # <<>>
(* The formatter ends an event with a newline, whatever its text ends with. *)
Logs(t) ==
    /\ pending' = t \o <<NewLine>>
    /\ emitted' = emitted \o (t \o <<NewLine>>)

(* Variant to be caught: the bytes that were written. *)
ConsumedAsWritten(t) == Len(Redacted(t))

(* buf.len(): all of it, whatever became of it. *)
Consumed(t) == Len(t)

Writes ==
    /\ proc = "running" /\ Busy
    /\ file' = file \o Redacted(pending)
    /\ pending' = SubSeq(pending, Consumed(pending) + 1, Len(pending))
    /\ UNCHANGED <<defaults, proc, once, nodes, stderr, events, emitted, faulted>>

(* The disk takes a part, or nothing; the subscriber drops the event. *)
WriteFails ==
    /\ proc = "running" /\ Busy
    /\ \E n \in 0..(Len(Redacted(pending)) - 1) :
          file' = file \o SubSeq(Redacted(pending), 1, n)
    /\ pending' = <<>> /\ faulted' = TRUE
    /\ UNCHANGED <<defaults, proc, once, nodes, stderr, events, emitted>>

(***************************************************************************)
(* The process.                                                            *)
(***************************************************************************)
(* The hook is in place before anything; the first line says what this is. *)
(* Which EasyTier the binary embeds decides what its defaults turn on.      *)
Launches ==
    /\ proc = "none"
    /\ proc' = "running" /\ stderr' = <<Word, NewLine>>
    /\ defaults' \in UpstreamDefaults
    /\ UNCHANGED <<once, nodes, pending, file, events, emitted, faulted>>

(* init_once: nothing without a directory, and the first one settles it; a  *)
(* failure is told to stderr, there being no log to tell.                   *)
InitOnce(dir) ==
    IF once = "never" /\ dir
      THEN \/ once' = "on" /\ UNCHANGED stderr
           \/ once' = "failed" /\ stderr' = stderr \o <<Word, NewLine>>
      ELSE UNCHANGED <<once, stderr>>

Built(cmd, args) ==
    CASE cmd = "host" -> Host(args, defaults, Secret)
      [] cmd = "join_rendezvous" -> Rendezvous(args, defaults, Secret)
      [] cmd = "join" -> Guest(args, defaults)

(* EasyTier's dump of a configuration, one field to a line. *)
Field(key) == <<key, Space, "=", Space, Secret, "=", NewLine>>
Dump(node) ==
    <<Word, NewLine>>
        \o (IF node.secret = NoSecret THEN <<>> ELSE Field("network_secret"))
        \o Field("local_private_key")

Starts(cmd, args, dir) ==
    /\ proc = "running" /\ ~Busy
    /\ events < MaxEvents /\ events' = events + 1
    /\ InitOnce(dir)
    /\ LET node == Built(cmd, args) IN
        /\ nodes' = nodes \cup ({node} \ {Refused})
        /\ IF node # Refused /\ once' = "on"
             THEN Logs(Dump(node)) ELSE UNCHANGED <<pending, emitted>>
    /\ UNCHANGED <<defaults, proc, file, faulted>>

(* main's own lines: what it was called with, a message it cannot write, a  *)
(* stdin it cannot read, a line too long.  What a parse error says of an    *)
(* unreadable command is outside the model.                                 *)
Complains ==
    /\ proc = "running"
    /\ events < MaxEvents /\ events' = events + 1
    /\ stderr' = stderr \o <<Word, NewLine>>
    /\ UNCHANGED <<defaults, proc, once, nodes, pending, file, emitted, faulted>>

(* An event of INFO or worse, from any thread. *)
Emits(m) ==
    /\ proc = "running" /\ once = "on" /\ ~Busy
    /\ events < MaxEvents /\ events' = events + 1
    /\ Logs(m)
    /\ UNCHANGED <<defaults, proc, once, nodes, file, stderr, faulted>>

(* The hook, on any thread: the process ends with its main task's panic,    *)
(* and goes on after another's.                                             *)
Panics(m) ==
    /\ proc = "running" /\ proc' \in {"running", "ended"}
    /\ events < MaxEvents /\ events' = events + 1
    /\ stderr' = stderr \o <<Word, Space>> \o Redacted(m) \o <<NewLine>>
    /\ UNCHANGED <<defaults, once, nodes, pending, file, emitted, faulted>>

LogNext ==
    \/ Writes \/ WriteFails \/ Complains
    \/ \E cmd \in {"host", "join_rendezvous", "join"}, args \in StartArgs, dir \in BOOLEAN :
          Starts(cmd, args, dir)
    \/ \E m \in Messages : Emits(m) \/ Panics(m)

LogSpec == LogInit /\ [][Launches \/ LogNext]_logVars

-----------------------------------------------------------------------------
(* No value of a sensitive field is in what a person may send by chat: not  *)
(* in the file, through any event or write that failed half way, and not in *)
(* what a panic said (log.rs: redactar, install_panic_hook).                *)
SecretsStayOut == Secret \notin ToSet(file) \cup ToSet(stderr)

(* And yet nothing else is lost: every line that was logged is in the file, *)
(* once and in order, untouched if it names no sensitive field, and with    *)
(* the field's name still there if it does; a failed write is excepted      *)
(* (log.rs: SinSecretosWriter::write, "media línea repetida").              *)
Survives(line, written) ==
    IF Keys(line) = {} THEN written = line
    ELSE \E j \in Keys(line), n \in 1..Len(line) :
            j <= n /\ written = SubSeq(line, 1, n) \o <<Tapado, NewLine>>
LogIsWhole ==
    ~Busy /\ ~faulted =>
        LET logged == Lines(emitted)
            written == Lines(file)
        IN  /\ Len(written) = Len(logged)
            /\ \A k \in DOMAIN logged : Survives(logged[k], written[k])

(* Whatever EasyTier turns on by default, no instance of the product starts *)
(* with a capability it forbids or without one it rests on (config.rs:      *)
(* base, "trusting a default rather than stating a decision").              *)
NothingForbidden ==
    \A n \in nodes : n.on \cap Forbidden = {} /\ Required \subseteq n.on
=============================================================================
