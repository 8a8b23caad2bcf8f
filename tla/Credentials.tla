---------------------------- MODULE Credentials ----------------------------
(***************************************************************************)
(* The life of a room's credentials: the calls that issue, renew, revoke   *)
(* and list them (src/src/engine.rs), the room commands that take all of   *)
(* them away, and what they are for, the guests that come in by them       *)
(* (src/src/config.rs).                                                    *)
(*                                                                         *)
(* Actors: the daemon (external), which pipelines requests and reads the   *)
(* answers later; the main task, which serves one request at a time; the   *)
(* host's instance (EasyTier, external), which keeps the table, the clock  *)
(* and the door; and the guests, each an engine of its own.                *)
(*                                                                         *)
(* Engine says how a request is read, started and answered; here a start   *)
(* is one step and the wait in it is left out.                             *)
(***************************************************************************)
EXTENDS Config, Integers, Sequences

CONSTANTS
    Guests,
    MaxIds,         \* bound: credentials ever issued
    MaxTime,        \* bound: the clock's last value
    MaxRooms,       \* bound: rooms ever started
    MaxRequests,    \* bound: requests ever sent
    Pipeline,       \* bound: requests sent and not yet answered
    Lifetimes       \* the ttl_seconds the daemon asks for

ASSUME BoundsAssumption ==
    {MaxIds, MaxTime, MaxRooms, MaxRequests, Pipeline} \subseteq Nat
ASSUME LifetimesAssumption == Lifetimes \subseteq Int

Ids == 1..MaxIds
None == 0
Never == 0              \* an expiry nobody was told

Calls == {"issue", "renew", "revoke", "list"}
(* "start" is host or join: either replaces the room, and its table with it. *)
RoomCommands == {"start", "leave"}
Request ==
    [cmd : {"issue"}, id : {None}, ttl : Lifetimes]
        \cup [cmd : {"renew"}, id : Ids, ttl : Lifetimes]
        \cup [cmd : {"revoke"}, id : Ids, ttl : {0}]
        \cup [cmd : {"list"} \cup RoomCommands, id : {None}, ttl : {0}]

Results == {"ok", "bad_ttl", "no_room", "unknown_id", "rpc_error", "refused"}

VARIABLES
    now,        \* the clock
    room,       \* the number of the room that runs, or None
    hosted,     \* how many rooms have been started
    up,         \* whether the room has published its service
    creds,      \* its table: a credential's expiry and whether it is reusable
    issued,     \* how many ids exist
    born,       \* history: the room each of them was issued in
    inside,     \* the credential each guest is inside on, or None
    holds,      \* the credential each guest was handed, or None
    queue,      \* requests the engine has not taken
    pc,         \* "idle", "call" (awaiting the service) or "answer"
    cur,        \* the request in hand
    answer,     \* what the service said of it
    replies,    \* answers the daemon has not read
    sent,       \* how many requests it ever sent
    told,       \* ids it was given, with the expiry it was last told
    dead        \* ids it was told are gone

roomVars == <<room, hosted, up, creds, issued, born>>
engineVars == <<queue, pc, cur, answer>>
daemonVars == <<replies, sent, told, dead>>
guestVars == <<inside, holds>>
vars == <<now, roomVars, guestVars, engineVars, daemonVars>>

Merge(f, g) == [x \in DOMAIN f \cup DOMAIN g |-> IF x \in DOMAIN g THEN g[x] ELSE f[x]]
Only(f, S) == [x \in DOMAIN f \cap S |-> f[x]]

(* A response: the request, its outcome, and the expiries it carries. *)
Reply(req, result, stored) == [req |-> req, result |-> result, stored |-> stored]
NoRequest == [cmd |-> "list", id |-> None, ttl |-> 0]

Init ==
    /\ now = 0
    /\ room = None /\ hosted = 0 /\ up = FALSE
    /\ creds = <<>> /\ issued = 0 /\ born = [c \in Ids |-> None]
    /\ inside = [g \in Guests |-> None] /\ holds = [g \in Guests |-> None]
    /\ queue = <<>> /\ pc = "idle" /\ cur = NoRequest
    /\ answer = Reply(NoRequest, "ok", <<>>)
    /\ replies = <<>> /\ sent = 0 /\ told = <<>> /\ dead = {}

Expiries(f) == /\ DOMAIN f \subseteq 1..issued
               /\ \A c \in DOMAIN f : f[c] \in Nat

IsReply(r) == r.req \in Request /\ r.result \in Results /\ Expiries(r.stored)

TypeOK ==
    /\ now \in 0..MaxTime
    /\ room \in 0..hosted /\ hosted \in 0..MaxRooms /\ up \in BOOLEAN
    /\ DOMAIN creds \subseteq 1..issued
    /\ \A c \in DOMAIN creds :
          creds[c] \in [expiry : Nat, reusable : BOOLEAN] /\ creds[c].expiry > now
    /\ issued \in 0..MaxIds
    /\ born \in [Ids -> 0..hosted]
    /\ inside \in [Guests -> Ids \cup {None}]
    /\ holds \in [Guests -> Ids \cup {None}]
    /\ queue \in Seq(Request)
    /\ pc \in {"idle", "call", "answer"}
    /\ cur \in Request /\ IsReply(answer)
    /\ \A i \in 1..Len(replies) : IsReply(replies[i])
    /\ Expiries(told)
    /\ dead \subseteq 1..issued

(***************************************************************************)
(* The daemon (external).  It names only ids it was given.                 *)
(***************************************************************************)
Outstanding == Len(queue) + Len(replies) + (IF pc = "idle" THEN 0 ELSE 1)

Sends(req) ==
    /\ sent < MaxRequests /\ Outstanding < Pipeline
    /\ req.id \in DOMAIN told \cup {None}
    /\ queue' = Append(queue, req) /\ sent' = sent + 1
    /\ UNCHANGED <<now, roomVars, guestVars, pc, cur, answer, replies, told, dead>>

(* An unknown id, a revocation and the end of a room are final. *)
Gone(r) ==
    CASE r.result = "unknown_id" -> {r.req.id}
      [] r.result = "ok" /\ r.req.cmd = "revoke" -> {r.req.id}
      [] r.result = "ok" /\ r.req.cmd \in RoomCommands -> DOMAIN told
      [] OTHER -> {}

Reads ==
    /\ replies # <<>>
    /\ told' = Merge(told, Head(replies).stored)
    /\ dead' = dead \cup Gone(Head(replies))
    /\ replies' = Tail(replies)
    /\ UNCHANGED <<now, roomVars, guestVars, engineVars, sent>>

(***************************************************************************)
(* The main task.                                                          *)
(***************************************************************************)
Takes(cmds) ==
    /\ pc = "idle" /\ queue # <<>> /\ Head(queue).cmd \in cmds
    /\ cur' = Head(queue) /\ queue' = Tail(queue)

AnswersAtOnce(result) ==
    /\ pc' = "answer"
    /\ answer' = Reply(Head(queue), result, <<>>)
    /\ UNCHANGED <<now, guestVars, daemonVars>>

(* Variant to be caught: zero is taken for a lifetime. *)
BadLifetimeOffByOne(req) == req.cmd \in {"issue", "renew"} /\ req.ttl < 0

BadLifetime(req) == req.cmd \in {"issue", "renew"} /\ req.ttl <= 0

(* ttl_seconds is looked at before the room is. *)
RefusesLifetime ==
    /\ Takes(Calls) /\ BadLifetime(Head(queue))
    /\ AnswersAtOnce("bad_ttl")
    /\ UNCHANGED roomVars

HasApi == room # None /\ up

RefusesCall ==
    /\ Takes(Calls) /\ ~BadLifetime(Head(queue)) /\ ~HasApi
    /\ AnswersAtOnce("no_room")
    /\ UNCHANGED roomVars

BeginsCall ==
    /\ Takes(Calls) /\ ~BadLifetime(Head(queue)) /\ HasApi
    /\ pc' = "call"
    /\ UNCHANGED <<now, roomVars, guestVars, answer, daemonVars>>

(* A configuration that is refused touches nothing; a start that is tried   *)
(* has dropped the room before it, and may leave none.  What a guest's own  *)
(* room would make of a credential call is left as free as a host's.        *)
HostArgs ==
    [peers_parse |-> TRUE, ipv4_parses |-> TRUE, credential_parses |-> TRUE,
     keypair_made |-> TRUE, network_name |-> "room", network_secret |-> "secret",
     credential_secret |-> None]

StartRefused ==
    /\ Takes({"start"})
    /\ AnswersAtOnce("refused")
    /\ UNCHANGED roomVars

StartFails ==
    /\ Takes({"start"})
    /\ room' = None /\ up' = FALSE /\ creds' = <<>>
    /\ AnswersAtOnce("refused")
    /\ UNCHANGED <<hosted, issued, born>>

StartsRoom ==
    /\ Takes({"start"}) /\ hosted < MaxRooms
    /\ hosted' = hosted + 1 /\ room' = hosted' /\ up' = FALSE /\ creds' = <<>>
    /\ AnswersAtOnce("ok")
    /\ UNCHANGED <<issued, born>>

(* Variant to be caught: the table outlives its room, as it would on disk. *)
LeavesTable ==
    /\ Takes({"leave"})
    /\ room' = None /\ up' = FALSE
    /\ AnswersAtOnce("ok")
    /\ UNCHANGED <<hosted, creds, issued, born>>

(* The table lives in the instance's memory and goes with it. *)
Leaves ==
    /\ Takes({"leave"})
    /\ room' = None /\ up' = FALSE /\ creds' = <<>>
    /\ AnswersAtOnce("ok")
    /\ UNCHANGED <<hosted, issued, born>>

Answers ==
    /\ pc = "answer"
    /\ pc' = "idle" /\ replies' = Append(replies, answer)
    /\ UNCHANGED <<now, roomVars, guestVars, queue, cur, answer, sent, told, dead>>

(***************************************************************************)
(* The service (external): one call, in one step of the table.  The main   *)
(* task comes back to what it returned some time later.                    *)
(***************************************************************************)
Serves(cmd) == pc = "call" /\ cur.cmd = cmd /\ pc' = "answer"
OnlyTable == UNCHANGED <<now, room, hosted, up, guestVars, queue, cur, daemonVars>>

(* Variant to be caught: `reusable` is left to its default. *)
ServesIssueReusable ==
    /\ Serves("issue") /\ issued < MaxIds
    /\ issued' = issued + 1
    /\ creds' = Merge(creds, [c \in {issued'} |-> [expiry |-> now + cur.ttl, reusable |-> TRUE]])
    /\ born' = [born EXCEPT ![issued'] = room]
    /\ answer' = Reply(cur, "ok", [c \in {issued'} |-> Never])
    /\ OnlyTable

(* No id is passed, so it is always a new one.  The answer has no expiry. *)
ServesIssue ==
    /\ Serves("issue") /\ issued < MaxIds
    /\ issued' = issued + 1
    /\ creds' = Merge(creds, [c \in {issued'} |-> [expiry |-> now + cur.ttl, reusable |-> FALSE]])
    /\ born' = [born EXCEPT ![issued'] = room]
    /\ answer' = Reply(cur, "ok", [c \in {issued'} |-> Never])
    /\ OnlyTable

(* Variant to be caught: issuing again under the same id. *)
ServesRenewByIssuing ==
    /\ Serves("renew") /\ cur.id \in DOMAIN creds
    /\ answer' = Reply(cur, "ok", [c \in {cur.id} |-> now + cur.ttl])
    /\ UNCHANGED <<creds, issued, born>> /\ OnlyTable

ServesRenew ==
    /\ Serves("renew") /\ cur.id \in DOMAIN creds
    /\ creds' = [creds EXCEPT ![cur.id].expiry = now + cur.ttl]
    /\ answer' = Reply(cur, "ok", [c \in {cur.id} |-> now + cur.ttl])
    /\ UNCHANGED <<issued, born>> /\ OnlyTable

ServesRevoke ==
    /\ Serves("revoke") /\ cur.id \in DOMAIN creds
    /\ creds' = Only(creds, Ids \ {cur.id})
    /\ answer' = Reply(cur, "ok", <<>>)
    /\ UNCHANGED <<issued, born>> /\ OnlyTable

(* success: false *)
ServesUnknown ==
    /\ Serves("renew") \/ Serves("revoke")
    /\ cur.id \notin DOMAIN creds
    /\ answer' = Reply(cur, "unknown_id", <<>>)
    /\ UNCHANGED <<creds, issued, born>> /\ OnlyTable

(* Ids and expiries, never the secrets. *)
ServesList ==
    /\ Serves("list")
    /\ answer' = Reply(cur, "ok", [c \in DOMAIN creds |-> creds[c].expiry])
    /\ UNCHANGED <<creds, issued, born>> /\ OnlyTable

(* Variant to be caught: every failed renewal or revocation is told alike. *)
CallFailsAsUnknown ==
    /\ \E cmd \in Calls : Serves(cmd)
    /\ answer' = Reply(cur, IF cur.id = None THEN "rpc_error" ELSE "unknown_id", <<>>)
    /\ UNCHANGED <<creds, issued, born>> /\ OnlyTable

(* The `?` after the await.  A call that fails is one the service did not   *)
(* serve: it runs in this process, and its refusals come before its work.   *)
CallFails ==
    /\ \E cmd \in Calls : Serves(cmd)
    /\ answer' = Reply(cur, "rpc_error", <<>>)
    /\ UNCHANGED <<creds, issued, born>> /\ OnlyTable

(***************************************************************************)
(* The instance (external): its readiness, its clock and its door.         *)
(***************************************************************************)
Publishes ==
    /\ room # None /\ ~up
    /\ up' = TRUE
    /\ UNCHANGED <<now, room, hosted, creds, issued, born, guestVars, engineVars, daemonVars>>

(* What has expired is not in the table. *)
Ticks ==
    /\ now < MaxTime
    /\ now' = now + 1
    /\ creds' = Only(creds, {c \in DOMAIN creds : creds[c].expiry > now'})
    /\ UNCHANGED <<room, hosted, up, issued, born, guestVars, engineVars, daemonVars>>

(* A guest joins with a configuration of its own engine (config::guest). *)
JoinArgs(c) == [HostArgs EXCEPT !.credential_secret = c]

Admits(host, guest) ==
    /\ guest.name = host.name
    /\ {"secure_mode", "private_mode"} \subseteq host.on \cap guest.on
    /\ \/ guest.secret # NoSecret /\ guest.secret = host.secret
       \/ guest.key \in DOMAIN creds

(* The daemon hands a credential out; the invitation may be passed on. *)
Receives(g, c) ==
    /\ holds[g] = None /\ c \in DOMAIN told
    /\ holds' = [holds EXCEPT ![g] = c]
    /\ UNCHANGED <<now, roomVars, inside, engineVars, daemonVars>>

(* On a credential that is not reusable the newcomer owns the place. *)
Displaced(g, c) ==
    {h \in Guests \ {g} : inside[h] = c /\ c \in DOMAIN creds /\ ~creds[c].reusable}

Enters(g) ==
    /\ room # None /\ holds[g] # None /\ inside[g] = None
    /\ Admits(Host(HostArgs, Capabilities, None), Guest(JoinArgs(holds[g]), Capabilities))
    /\ inside' = [h \in Guests |-> IF h = g THEN holds[g]
                                   ELSE IF h \in Displaced(g, holds[g]) THEN None
                                   ELSE inside[h]]
    /\ UNCHANGED <<now, roomVars, holds, engineVars, daemonVars>>

GoesOut(g) ==
    /\ inside[g] # None
    /\ inside' = [inside EXCEPT ![g] = None]
    /\ UNCHANGED <<now, roomVars, holds, engineVars, daemonVars>>

(* Whose credential is gone is put out. *)
PutsOut(g) == inside[g] \notin DOMAIN creds /\ GoesOut(g)

Daemon == Reads \/ \E req \in Request : Sends(req)
Main ==
    \/ RefusesLifetime \/ RefusesCall \/ BeginsCall
    \/ StartRefused \/ StartFails \/ StartsRoom \/ Leaves \/ Answers
Service ==
    \/ ServesIssue \/ ServesRenew \/ ServesRevoke \/ ServesUnknown
    \/ ServesList \/ CallFails
Door ==
    \E g \in Guests : Enters(g) \/ GoesOut(g) \/ \E c \in Ids : Receives(g, c)

Next == Daemon \/ Main \/ Service \/ Publishes \/ Ticks \/ Door

Spec == Init /\ [][Next]_vars

(***************************************************************************)
(* Fairness: an instance gets round to putting out whom it no longer       *)
(* admits.  Nothing is assumed of the daemon, the service or the clock.    *)
(***************************************************************************)
FairSpec == Spec /\ \A g \in Guests : WF_vars(PutsOut(g))

-----------------------------------------------------------------------------
(* The expiry the daemon was last told is the one the room holds, for as    *)
(* long as that room runs and the expiry is ahead; unless an answer that    *)
(* says otherwise is on its way (proto.rs: RenewedOut, "a daemon that       *)
(* believes a credential is good for another day when the engine says       *)
(* otherwise"; engine.rs: renew_credential).                                *)
Supersedes(r, c) ==
    r.result = "ok" /\ r.req.cmd \in {"renew", "revoke"} /\ r.req.id = c
OnItsWay(c) ==
    \/ \E i \in 1..Len(replies) : Supersedes(replies[i], c)
    \/ pc = "answer" /\ Supersedes(answer, c)
ToldIsHeld ==
    \A c \in DOMAIN told :
        told[c] > now /\ born[c] = room /\ c \notin dead =>
            \/ c \in DOMAIN creds /\ creds[c].expiry = told[c]
            \/ OnItsWay(c)

(* What the daemon was told is gone never lets anybody in again: not by a   *)
(* renewal that was already on its way, not in a later room (engine.rs:     *)
(* "so the daemon can tell it apart from the engine being unreachable").    *)
GoneIsFinal == dead \cap DOMAIN creds = {}

(* One member per credential, "so that revoking removes one person", even   *)
(* when an invitation is passed on (engine.rs: issue_credential).           *)
KickIsOnePerson ==
    \A g, h \in Guests : g # h /\ inside[g] # None => inside[g] # inside[h]

(* "Revoking a credential closes the door": whoever was inside on it goes   *)
(* out and never comes back (config.rs: guest; proto.rs: GuestArgs).        *)
DoorCloses ==
    \A c \in Ids : c \in dead ~> [](\A g \in Guests : inside[g] # c)

(***************************************************************************)
(* Refinement: each credential lives once.                                 *)
(***************************************************************************)
Life == INSTANCE CredentialLife WITH
            unissued <- Ids \ 1..issued,
            live <- DOMAIN creds,
            inside <- [g \in Guests |-> {inside[g]} \ {None}]

(* No call, restart, expiry or entry gives a credential a second life, and  *)
(* nobody enters on one that is not alive.                                  *)
LifeSpec == Life!Spec
=============================================================================
