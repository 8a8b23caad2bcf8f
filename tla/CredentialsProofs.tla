------------------------- MODULE CredentialsProofs -------------------------
(***************************************************************************)
(* What holds of a room's credentials for any number of ids, rooms and     *)
(* requests, any lifetimes and any clock.  Credentials says what the runs  *)
(* check; here the invariants are made inductive.                          *)
(***************************************************************************)
EXTENDS Credentials, TLAPS

USE DEF vars, roomVars, engineVars, daemonVars, guestVars

(***************************************************************************)
(* Types.  Beyond TypeOK: a request names an id that exists, a call in     *)
(* flight asks for a lifetime, and only a request that names an id is told *)
(* that the id is unknown.                                                 *)
(***************************************************************************)
Sound(r, n) ==
    /\ r.req.id \in 0..n
    /\ r.result = "unknown_id" => r.req.cmd \in {"renew", "revoke"}

Asked ==
    /\ \A i \in 1..Len(queue) : queue[i].id \in 0..issued
    /\ cur.id \in 0..issued
    /\ pc = "call" => ~BadLifetime(cur)
    /\ pc = "call" => cur.cmd \in Calls

Answered ==
    /\ Sound(answer, issued)
    /\ \A i \in 1..Len(replies) : Sound(replies[i], issued)

TypeInv == TypeOK /\ Asked /\ Answered

LEMMA NoneYet == DOMAIN <<>> = {}
  OBVIOUS

(* What a request is, whichever kind it is. *)
LEMMA RequestFields ==
  ASSUME NEW req \in Request
  PROVE  /\ req.cmd \in Calls \cup RoomCommands
         /\ req.id \in Ids \cup {None}
         /\ req.cmd \in {"renew", "revoke"} <=> req.id \in Ids
         /\ req.ttl \in Int
         /\ req.cmd \in {"issue", "renew"} => req.ttl \in Lifetimes
  <1>1. CASE req \in [cmd : {"issue"}, id : {None}, ttl : Lifetimes]
    <2>1. req.cmd = "issue" /\ req.id = 0 /\ req.ttl \in Lifetimes
      BY <1>1 DEF None
    <2>2. req.ttl \in Int
      BY <2>1, LifetimesAssumption
    <2>3. req.id \notin Ids
      BY <2>1 DEF Ids
    <2> QED  BY <2>1, <2>2, <2>3 DEF Calls, None
  <1>2. CASE req \in [cmd : {"renew"}, id : Ids, ttl : Lifetimes]
    BY <1>2, LifetimesAssumption, BoundsAssumption DEF Calls, RoomCommands, Ids, None
  <1>3. CASE req \in [cmd : {"revoke"}, id : Ids, ttl : {0}]
    BY <1>3, BoundsAssumption DEF Calls, RoomCommands, Ids, None
  <1>4. CASE req \in [cmd : {"list"} \cup RoomCommands, id : {None}, ttl : {0}]
    BY <1>4, BoundsAssumption DEF Calls, RoomCommands, Ids, None
  <1> QED  BY <1>1, <1>2, <1>3, <1>4 DEF Request

(* The queue is read from its front. *)
LEMMA Taking ==
  ASSUME queue \in Seq(Request), queue # <<>>
  PROVE  /\ Head(queue) \in Request /\ Tail(queue) \in Seq(Request)
         /\ Head(queue) = queue[1]
         /\ Len(Tail(queue)) = Len(queue) - 1
         /\ \A i \in 1..Len(Tail(queue)) : Tail(queue)[i] = queue[i + 1]
  OBVIOUS

LEMMA InitTypes == Init => TypeInv
  <1> SUFFICES ASSUME Init PROVE TypeInv
    OBVIOUS
  <1> USE DEF Init
  <1>1. NoRequest \in Request
    BY DEF NoRequest, Request, None, RoomCommands
  <1>2. /\ answer.req = NoRequest /\ answer.result = "ok" /\ answer.stored = <<>>
        /\ NoRequest.id = 0
    BY DEF Reply, NoRequest, None
  <1>3. IsReply(answer) /\ Sound(answer, issued)
    BY <1>1, <1>2, NoneYet DEF IsReply, Expiries, Results, Sound
  <1>4. TypeOK
    <2>1. MaxTime \in Nat /\ MaxRooms \in Nat /\ MaxIds \in Nat
      BY BoundsAssumption
    <2>2. up \in BOOLEAN /\ pc \in {"idle", "call", "answer"}
      OBVIOUS
    <2>3. /\ DOMAIN creds = {} /\ DOMAIN told = {} /\ DOMAIN replies = {}
          /\ Len(replies) = 0 /\ queue \in Seq(Request)
      BY NoneYet
    <2>4. /\ born \in [Ids -> 0..hosted]
          /\ inside \in [Guests -> Ids \cup {None}]
          /\ holds \in [Guests -> Ids \cup {None}]
      BY DEF None
    <2>5. Expiries(told)
      BY <2>3 DEF Expiries
    <2>6. /\ now \in 0..MaxTime /\ room \in 0..hosted /\ hosted \in 0..MaxRooms
          /\ issued \in 0..MaxIds
      BY <2>1 DEF None
    <2> QED  BY <1>1, <1>3, <2>2, <2>3, <2>4, <2>5, <2>6 DEF TypeOK
  <1>5. Asked
    BY <1>2, BoundsAssumption DEF Asked
  <1> QED  BY <1>3, <1>4, <1>5 DEF TypeInv, Answered

(* The parts of TypeOK, by who keeps them. *)
TableOK ==
    /\ now \in 0..MaxTime
    /\ room \in 0..hosted /\ hosted \in 0..MaxRooms /\ up \in BOOLEAN
    /\ DOMAIN creds \subseteq 1..issued
    /\ \A c \in DOMAIN creds :
          creds[c] \in [expiry : Nat, reusable : BOOLEAN] /\ creds[c].expiry > now
    /\ issued \in 0..MaxIds
    /\ born \in [Ids -> 0..hosted]
GuestsOK ==
    /\ inside \in [Guests -> Ids \cup {None}]
    /\ holds \in [Guests -> Ids \cup {None}]
EngineOK ==
    /\ queue \in Seq(Request)
    /\ pc \in {"idle", "call", "answer"}
    /\ cur \in Request /\ IsReply(answer) /\ Sound(answer, issued)
    /\ Asked
DaemonOK ==
    /\ \A i \in 1..Len(replies) : IsReply(replies[i]) /\ Sound(replies[i], issued)
    /\ Expiries(told)
    /\ dead \subseteq 1..issued

LEMMA Parts == TypeInv <=> TableOK /\ GuestsOK /\ EngineOK /\ DaemonOK
  BY DEF TypeInv, TypeOK, Answered, TableOK, GuestsOK, EngineOK, DaemonOK

(* Nobody's types depend on more than the ids that exist. *)
LEMMA EngineStays ==
  ASSUME EngineOK, UNCHANGED engineVars, issued' = issued
  PROVE  EngineOK'
  BY DEF EngineOK, Asked, IsReply, Expiries, Sound, BadLifetime, Calls
LEMMA DaemonStays ==
  ASSUME DaemonOK, UNCHANGED <<replies, told, dead>>, issued' \in Int, issued \in Int,
         issued' >= issued
  PROVE  DaemonOK'
  BY DEF DaemonOK, IsReply, Expiries, Sound
LEMMA TableStays ==
  ASSUME TableOK, UNCHANGED roomVars, now' = now
  PROVE  TableOK'
  BY DEF TableOK
LEMMA GuestsStay ==
  ASSUME GuestsOK, UNCHANGED guestVars
  PROVE  GuestsOK'
  BY DEF GuestsOK

(* A request answered at once, with anything but "unknown_id". *)
LEMMA AtOnce ==
  ASSUME EngineOK, issued \in Nat, NEW cmds, NEW result \in Results \ {"unknown_id"},
         Takes(cmds), AnswersAtOnce(result), issued' = issued
  PROVE  EngineOK'
  <1>1. /\ cur' = Head(queue) /\ queue' = Tail(queue) /\ pc' = "answer"
        /\ answer'.req = Head(queue) /\ answer'.result = result /\ answer'.stored = <<>>
    BY DEF Takes, AnswersAtOnce, Reply
  <1>2. /\ Head(queue) \in Request /\ Tail(queue) \in Seq(Request)
        /\ Head(queue) = queue[1] /\ Len(Tail(queue)) = Len(queue) - 1
        /\ \A i \in 1..Len(Tail(queue)) : Tail(queue)[i] = queue[i + 1]
        /\ Len(queue) \in Nat /\ Len(queue) >= 1
    BY Taking DEF EngineOK, Takes
  <1>3. Asked'
    BY <1>1, <1>2 DEF EngineOK, Asked
  <1>4. IsReply(answer)' /\ Sound(answer, issued)'
    BY <1>1, <1>2, NoneYet DEF EngineOK, Asked, IsReply, Expiries, Sound
  <1> QED  BY <1>1, <1>2, <1>3, <1>4 DEF EngineOK

(* What the service answers, with the expiries of ids that exist. *)
LEMMA Served ==
  ASSUME EngineOK, NEW cmd, NEW result \in Results, NEW stored,
         Serves(cmd), answer' = Reply(cur, result, stored),
         UNCHANGED <<queue, cur>>,
         issued \in Int, issued' \in Int, issued' >= issued,
         DOMAIN stored \subseteq 1..issued', \A c \in DOMAIN stored : stored[c] \in Nat,
         result = "unknown_id" => cmd \in {"renew", "revoke"}
  PROVE  EngineOK'
  <1>1. /\ pc' = "answer" /\ cur.cmd = cmd
        /\ answer'.req = cur /\ answer'.result = result /\ answer'.stored = stored
    BY DEF Serves, Reply
  <1>2. Asked'
    BY <1>1 DEF EngineOK, Asked
  <1>3. IsReply(answer)' /\ Sound(answer, issued)'
    BY <1>1 DEF EngineOK, Asked, IsReply, Expiries, Sound
  <1> QED  BY <1>1, <1>2, <1>3 DEF EngineOK

(* A lifetime a call in flight asks for. *)
LEMMA InFlight ==
  ASSUME EngineOK, NEW cmd, Serves(cmd)
  PROVE  /\ cur.cmd = cmd /\ cur.id \in 0..issued
         /\ cmd \in {"issue", "renew"} => cur.ttl \in Int /\ cur.ttl > 0
  BY RequestFields DEF EngineOK, Asked, Serves, BadLifetime

LEMMA ShrinkingTable ==
  ASSUME TableOK, NEW S, creds' = Only(creds, S), now' \in 0..MaxTime,
         \A c \in DOMAIN creds \cap S : creds[c].expiry > now',
         UNCHANGED <<room, hosted, up, issued, born>>
  PROVE  TableOK'
  BY DEF TableOK, Only

LEMMA StepTypes == TypeInv /\ [Next]_vars => TypeInv'
  <1> SUFFICES ASSUME TableOK, GuestsOK, EngineOK, DaemonOK, [Next]_vars
               PROVE  TableOK' /\ GuestsOK' /\ EngineOK' /\ DaemonOK'
    <2>1. TableOK' /\ GuestsOK' /\ EngineOK' /\ DaemonOK' => TypeInv'
      BY DEF TypeInv, TypeOK, Answered, TableOK, GuestsOK, EngineOK, DaemonOK
    <2> QED  BY <2>1, Parts
  <1>n. /\ issued \in Nat /\ MaxTime \in Nat /\ MaxRooms \in Nat /\ MaxIds \in Nat
        /\ hosted \in Nat /\ now \in Nat
    BY BoundsAssumption DEF TableOK
  <1>1. CASE UNCHANGED vars
    BY <1>1, <1>n, EngineStays, DaemonStays, TableStays, GuestsStay
  <1>2. ASSUME NEW req \in Request, Sends(req)
        PROVE  TableOK' /\ GuestsOK' /\ EngineOK' /\ DaemonOK'
    <2>1. /\ queue' \in Seq(Request) /\ Len(queue') = Len(queue) + 1
          /\ \A i \in 1..Len(queue) : queue'[i] = queue[i]
          /\ queue'[Len(queue) + 1] = req /\ Len(queue) \in Nat
      BY <1>2 DEF Sends, EngineOK
    <2>2. req.id \in 0..issued
      BY <1>2, <1>n DEF Sends, DaemonOK, Expiries, None
    <2>3. Asked'
      BY <1>2, <2>1, <2>2 DEF Sends, EngineOK, Asked, BadLifetime, Calls
    <2>4. EngineOK'
      BY <1>2, <2>1, <2>3 DEF Sends, EngineOK, IsReply, Expiries, Sound
    <2> QED  BY <1>2, <1>n, <2>4, DaemonStays, TableStays, GuestsStay DEF Sends
  <1>3. CASE Reads
    <2> DEFINE r == Head(replies)
    <2>1. /\ IsReply(r) /\ Sound(r, issued)
          /\ told' = Merge(told, r.stored) /\ dead' = dead \cup Gone(r)
      BY <1>3 DEF Reads, DaemonOK
    <2>2. Expiries(told)'
      BY <1>3, <2>1 DEF Reads, DaemonOK, Merge, IsReply, Expiries
    <2>3. dead' \subseteq 1..issued
      <3>1. DOMAIN told \subseteq 1..issued /\ dead \subseteq 1..issued /\ issued' = issued
        BY <1>3 DEF Reads, DaemonOK, Expiries
      <3>2. r.req \in Request /\ r.req.id \in 0..issued
        BY <2>1 DEF IsReply, Sound
      <3>3. r.result = "unknown_id" \/ r.req.cmd = "revoke" => r.req.id \in 1..issued
        BY <1>n, <2>1, <3>2, RequestFields DEF Sound, Ids
      <3>4. Gone(r) \subseteq 1..issued
        BY <3>1, <3>3 DEF Gone
      <3> QED  BY <2>1, <3>1, <3>4
    <2>4. (\A i \in 1..Len(replies) : IsReply(replies[i]) /\ Sound(replies[i], issued))'
      BY <1>3 DEF Reads, DaemonOK, IsReply, Expiries, Sound
    <2>5. DaemonOK'
      BY <1>3, <2>2, <2>3, <2>4 DEF Reads, DaemonOK
    <2> QED  BY <1>3, <1>n, <2>5, EngineStays, TableStays, GuestsStay DEF Reads
  <1>4. CASE RefusesLifetime
    BY <1>4, <1>n, AtOnce, DaemonStays, TableStays, GuestsStay
       DEF RefusesLifetime, AnswersAtOnce, Results
  <1>5. CASE RefusesCall
    BY <1>5, <1>n, AtOnce, DaemonStays, TableStays, GuestsStay
       DEF RefusesCall, AnswersAtOnce, Results
  <1>6. CASE BeginsCall
    <2>1. /\ Head(queue) \in Request /\ Tail(queue) \in Seq(Request)
          /\ Head(queue) = queue[1] /\ Len(Tail(queue)) = Len(queue) - 1
          /\ \A i \in 1..Len(Tail(queue)) : Tail(queue)[i] = queue[i + 1]
          /\ Len(queue) \in Nat /\ Len(queue) >= 1
      BY <1>6, Taking DEF EngineOK, BeginsCall, Takes
    <2>2. EngineOK'
      BY <1>6, <2>1 DEF BeginsCall, Takes, EngineOK, Asked, BadLifetime, IsReply, Expiries, Sound
    <2> QED  BY <1>6, <1>n, <2>2, DaemonStays, TableStays, GuestsStay DEF BeginsCall
  <1>7. CASE StartRefused
    BY <1>7, <1>n, AtOnce, DaemonStays, TableStays, GuestsStay
       DEF StartRefused, AnswersAtOnce, Results
  <1>8. CASE StartFails
    <2>1. TableOK'
      <3>1. up' \in BOOLEAN /\ DOMAIN creds' = {}
        BY <1>8, NoneYet DEF StartFails
      <3> QED  BY <1>8, <1>n, <3>1 DEF StartFails, AnswersAtOnce, TableOK, None
    <2> QED  BY <1>8, <1>n, <2>1, AtOnce, DaemonStays, GuestsStay
                DEF StartFails, AnswersAtOnce, Results
  <1>9. CASE StartsRoom
    <2>1. TableOK'
      <3>1. up' \in BOOLEAN /\ DOMAIN creds' = {}
        BY <1>9, NoneYet DEF StartsRoom
      <3> QED  BY <1>9, <1>n, <3>1 DEF StartsRoom, AnswersAtOnce, TableOK, None
    <2> QED  BY <1>9, <1>n, <2>1, AtOnce, DaemonStays, GuestsStay
                DEF StartsRoom, AnswersAtOnce, Results
  <1>10. CASE Leaves
    <2>1. TableOK'
      <3>1. up' \in BOOLEAN /\ DOMAIN creds' = {}
        BY <1>10, NoneYet DEF Leaves
      <3> QED  BY <1>10, <1>n, <3>1 DEF Leaves, AnswersAtOnce, TableOK, None
    <2> QED  BY <1>10, <1>n, <2>1, AtOnce, DaemonStays, GuestsStay
                DEF Leaves, AnswersAtOnce, Results
  <1>11. CASE Answers
    <2>1. EngineOK'
      BY <1>11 DEF Answers, EngineOK, Asked, IsReply, Expiries, Sound
    <2>2. DaemonOK'
      BY <1>11 DEF Answers, EngineOK, DaemonOK, IsReply, Expiries, Sound
    <2> QED  BY <1>11, <2>1, <2>2, TableStays, GuestsStay DEF Answers
  <1>12. CASE ServesIssue
    <2> DEFINE stored == [c \in {issued'} |-> Never]
    <2>1. /\ cur.ttl \in Int /\ cur.ttl > 0
      BY <1>12, InFlight DEF ServesIssue
    <2>2. TableOK'
      <3>1. /\ DOMAIN creds' = DOMAIN creds \cup {issued + 1}
            /\ creds'[issued + 1] = [expiry |-> now + cur.ttl, reusable |-> FALSE]
            /\ \A c \in DOMAIN creds : c # issued + 1 => creds'[c] = creds[c]
        BY <1>12 DEF ServesIssue, Merge
      <3>2. born' \in [Ids -> 0..hosted]
        BY <1>12 DEF ServesIssue, TableOK
      <3>3. /\ creds'[issued + 1] \in [expiry : Nat, reusable : BOOLEAN]
            /\ creds'[issued + 1].expiry > now
        BY <1>n, <2>1, <3>1
      <3>4. \A c \in DOMAIN creds' :
               creds'[c] \in [expiry : Nat, reusable : BOOLEAN] /\ creds'[c].expiry > now
        BY <3>1, <3>3 DEF TableOK
      <3> QED  BY <1>12, <1>n, <3>1, <3>2, <3>4 DEF ServesIssue, OnlyTable, TableOK
    <2>3. EngineOK'
      BY <1>12, <1>n, Served DEF ServesIssue, OnlyTable, Results, Never
    <2> QED  BY <1>12, <1>n, <2>2, <2>3, DaemonStays, GuestsStay DEF ServesIssue, OnlyTable
  <1>13. CASE ServesRenew
    <2>1. /\ cur.ttl \in Int /\ cur.ttl > 0 /\ cur.id \in DOMAIN creds
      BY <1>13, InFlight DEF ServesRenew
    <2>2. TableOK'
      BY <1>13, <1>n, <2>1 DEF ServesRenew, OnlyTable, TableOK
    <2>3. EngineOK'
      BY <1>13, <1>n, <2>1, Served DEF ServesRenew, OnlyTable, Results, TableOK
    <2> QED  BY <1>13, <1>n, <2>2, <2>3, DaemonStays, GuestsStay DEF ServesRenew, OnlyTable
  <1>14. CASE ServesRevoke
    <2>1. TableOK'
      BY <1>14, <1>n, ShrinkingTable DEF ServesRevoke, OnlyTable, TableOK
    <2>2. EngineOK'
      BY <1>14, <1>n, Served, NoneYet DEF ServesRevoke, OnlyTable, Results
    <2> QED  BY <1>14, <1>n, <2>1, <2>2, DaemonStays, GuestsStay DEF ServesRevoke, OnlyTable
  <1>15. CASE ServesUnknown
    <2>2. EngineOK'
      BY <1>15, <1>n, Served, NoneYet DEF ServesUnknown, OnlyTable, Results
    <2> QED  BY <1>15, <1>n, <2>2, DaemonStays, GuestsStay, TableStays DEF ServesUnknown, OnlyTable
  <1>16. CASE ServesList
    <2>2. EngineOK'
      BY <1>16, <1>n, Served DEF ServesList, OnlyTable, Results, TableOK
    <2> QED  BY <1>16, <1>n, <2>2, DaemonStays, GuestsStay, TableStays DEF ServesList, OnlyTable
  <1>17. CASE CallFails
    <2>2. EngineOK'
      BY <1>17, <1>n, Served, NoneYet DEF CallFails, OnlyTable, Results
    <2> QED  BY <1>17, <1>n, <2>2, DaemonStays, GuestsStay, TableStays DEF CallFails, OnlyTable
  <1>18. CASE Publishes
    <2>1. TableOK'
      BY <1>18 DEF Publishes, TableOK
    <2> QED  BY <1>18, <1>n, <2>1, EngineStays, DaemonStays, GuestsStay DEF Publishes
  <1>19. CASE Ticks
    <2>1. TableOK'
      BY <1>19, <1>n, ShrinkingTable DEF Ticks, TableOK
    <2> QED  BY <1>19, <1>n, <2>1, EngineStays, DaemonStays, GuestsStay DEF Ticks
  <1>20. ASSUME NEW g \in Guests, Enters(g) \/ GoesOut(g) \/ \E c \in Ids : Receives(g, c)
         PROVE  TableOK' /\ GuestsOK' /\ EngineOK' /\ DaemonOK'
    <2>1. GuestsOK'
      BY <1>20 DEF Enters, GoesOut, Receives, GuestsOK
    <2> QED  BY <1>20, <1>n, <2>1, EngineStays, DaemonStays, TableStays
                DEF Enters, GoesOut, Receives
  <1> QED
    BY <1>1, <1>2, <1>3, <1>4, <1>5, <1>6, <1>7, <1>8, <1>9, <1>10, <1>11, <1>12,
       <1>13, <1>14, <1>15, <1>16, <1>17, <1>18, <1>19, <1>20
       DEF Next, Daemon, Main, Service, Door

LEMMA TypesHold == Spec => []TypeInv
  <1> QED  BY InitTypes, StepTypes, PTL DEF Spec

(* Every variable keeps its type, and every credential in the table is one  *)
(* that was issued and has not expired (engine.rs: issue_credential,        *)
(* renew_credential, and the lifetimes they refuse).                        *)
THEOREM CredentialTypes == Spec => []TypeOK
  <1>1. TypeInv => TypeOK
    BY DEF TypeInv
  <1> QED  BY TypesHold, <1>1, PTL

-----------------------------------------------------------------------------
(***************************************************************************)
(* One person per credential.  It rests on no credential being reusable,   *)
(* and on a guest's configuration having no secret to come in by instead.  *)
(***************************************************************************)
NoneReusable == \A c \in DOMAIN creds : ~creds[c].reusable

(* A guest is let in by its credential and by nothing else. *)
LEMMA AdmittedByCredential ==
  ASSUME NEW c,
         Admits(Host(HostArgs, Capabilities, None), Guest(JoinArgs(c), Capabilities))
  PROVE  c \in DOMAIN creds
  <1> DEFINE guest == Guest(JoinArgs(c), Capabilities)
             host == Host(HostArgs, Capabilities, None)
  <1>1. JoinArgs(c).peers_parse /\ JoinArgs(c).ipv4_parses /\ JoinArgs(c).credential_parses
        /\ JoinArgs(c).credential_secret = c
    BY DEF JoinArgs, HostArgs
  <1>2. guest.secret = NoSecret /\ guest.key = c
    BY <1>1 DEF Guest, Accepts, Node
  <1> QED  BY <1>2 DEF Admits

LEMMA StepReusable == TypeInv /\ NoneReusable /\ [Next]_vars => NoneReusable'
  <1> SUFFICES ASSUME TypeInv, NoneReusable, [Next]_vars
               PROVE  NoneReusable'
    OBVIOUS
  <1> USE DEF NoneReusable
  <1>1. CASE creds' = creds
    BY <1>1
  <1>2. CASE creds' = <<>>
    BY <1>2, NoneYet
  <1>3. CASE ServesIssue
    <2>1. /\ DOMAIN creds' = DOMAIN creds \cup {issued'}
          /\ creds'[issued'] = [expiry |-> now + cur.ttl, reusable |-> FALSE]
          /\ \A c \in DOMAIN creds : c # issued' => creds'[c] = creds[c]
      BY <1>3 DEF ServesIssue, Merge
    <2> QED  BY <2>1
  <1>4. CASE ServesRenew
    BY <1>4 DEF ServesRenew, TypeInv, TypeOK
  <1>5. CASE ServesRevoke \/ Ticks
    BY <1>5 DEF ServesRevoke, Ticks, Only
  <1> QED
    BY <1>1, <1>2, <1>3, <1>4, <1>5
       DEF Next, Daemon, Main, Service, Door, Sends, Reads, RefusesLifetime, RefusesCall,
           BeginsCall, StartRefused, StartFails, StartsRoom, Leaves, Answers, ServesUnknown,
           ServesList, CallFails, Publishes, Enters, GoesOut, Receives

LEMMA StepKick ==
  TypeInv /\ NoneReusable /\ KickIsOnePerson /\ [Next]_vars => KickIsOnePerson'
  <1> SUFFICES ASSUME TypeInv, NoneReusable, KickIsOnePerson, [Next]_vars
               PROVE  KickIsOnePerson'
    OBVIOUS
  <1>t. inside \in [Guests -> Ids \cup {None}]
    BY DEF TypeInv, TypeOK
  <1>1. CASE inside' = inside
    BY <1>1 DEF KickIsOnePerson
  <1>2. ASSUME NEW g \in Guests, Enters(g) PROVE KickIsOnePerson'
    <2>1. holds[g] \in DOMAIN creds
      BY <1>2, AdmittedByCredential DEF Enters
    <2>2. ~creds[holds[g]].reusable
      BY <2>1 DEF NoneReusable
    <2>3. \A h \in Guests \ {g} : inside'[h] = inside[h] \/ inside'[h] = None
      BY <1>2, <1>t DEF Enters
    <2>4. \A h \in Guests \ {g} : inside'[h] # holds[g] \/ inside'[h] = None
      BY <1>2, <1>t, <2>1, <2>2 DEF Enters, Displaced
    <2>5. inside'[g] = holds[g]
      BY <1>2 DEF Enters
    <2> QED  BY <2>3, <2>4, <2>5 DEF KickIsOnePerson
  <1>3. ASSUME NEW g \in Guests, GoesOut(g) PROVE KickIsOnePerson'
    BY <1>3, <1>t DEF GoesOut, KickIsOnePerson
  <1> QED
    BY <1>1, <1>2, <1>3
       DEF Next, Daemon, Main, Service, Door, Sends, Reads, RefusesLifetime, RefusesCall,
           BeginsCall, AnswersAtOnce, StartRefused, StartFails, StartsRoom, Leaves, Answers,
           OnlyTable, ServesIssue, ServesRenew, ServesRevoke, ServesUnknown, ServesList,
           CallFails, Publishes, Ticks, Receives

(* No two guests are ever inside on one credential, however an invitation   *)
(* is passed on and whenever each of them knocks, so revoking it removes    *)
(* one person (engine.rs: issue_credential; config.rs: guest).              *)
THEOREM OnePersonPerCredential == Spec => []KickIsOnePerson
  <1>1. Init => NoneReusable /\ KickIsOnePerson
    BY NoneYet DEF Init, NoneReusable, KickIsOnePerson
  <1> QED  BY <1>1, TypesHold, StepReusable, StepKick, PTL DEF Spec

-----------------------------------------------------------------------------
(***************************************************************************)
(* Refinement.  Each step is an issue, an end, an entry, a way out, or     *)
(* nothing at all in the life of the credentials.                          *)
(***************************************************************************)
InsideSets == [g \in Guests |-> {inside[g]} \ {None}]

LEMMA InitLife == Init => Life!Init
  BY NoneYet DEF Init, Life!Init, None

(* What a step does to the table and to the guests is all that counts. *)
LEMMA SameLife ==
  ASSUME issued' = issued, DOMAIN creds' = DOMAIN creds, inside' = inside
  PROVE  [Life!Next]_(Life!vars)
  BY DEF Life!vars

LEMMA EndLife ==
  ASSUME TypeInv, issued' = issued, inside' = inside, DOMAIN creds' \subseteq DOMAIN creds
  PROVE  [Life!Next]_(Life!vars)
  <1> DEFINE ended == DOMAIN creds \ DOMAIN creds'
  <1>1. ended \in SUBSET Ids
    BY BoundsAssumption DEF TypeInv, TypeOK, Ids
  <1>2. Life!End(ended)
    BY DEF Life!End
  <1> QED  BY <1>1, <1>2 DEF Life!Next

LEMMA StepLife == TypeInv /\ NoneReusable /\ [Next]_vars => [Life!Next]_(Life!vars)
  <1> SUFFICES ASSUME TypeInv, NoneReusable, [Next]_vars
               PROVE  [Life!Next]_(Life!vars)
    OBVIOUS
  <1>t. /\ inside \in [Guests -> Ids \cup {None}]
        /\ issued \in 0..MaxIds /\ MaxIds \in Nat
        /\ DOMAIN creds \subseteq 1..issued
    BY BoundsAssumption DEF TypeInv, TypeOK
  <1>1. CASE UNCHANGED <<issued, creds, inside>>
    BY <1>1, SameLife
  <1>2. CASE StartFails \/ StartsRoom \/ Leaves \/ ServesRevoke \/ Ticks
    <2>1. DOMAIN creds' \subseteq DOMAIN creds
      BY <1>2, NoneYet DEF StartFails, StartsRoom, Leaves, ServesRevoke, Ticks, Only
    <2>2. UNCHANGED <<issued, inside>>
      BY <1>2 DEF StartFails, StartsRoom, Leaves, ServesRevoke, Ticks, AnswersAtOnce, OnlyTable
    <2> QED  BY <2>1, <2>2, EndLife
  <1>3. CASE ServesRenew
    BY <1>3, SameLife DEF ServesRenew, OnlyTable
  <1>4. CASE ServesIssue
    <2>1. /\ issued' = issued + 1 /\ issued' \in Ids /\ inside' = inside
          /\ DOMAIN creds' = DOMAIN creds \cup {issued'}
      BY <1>4, <1>t DEF ServesIssue, OnlyTable, Merge, Ids
    <2>2. Ids \ 1..issued' = (Ids \ 1..issued) \ {issued'}
      BY <1>t, <2>1
    <2>3. issued' \in Ids \ 1..issued
      BY <1>t, <2>1
    <2>4. Life!Issue(issued')
      BY <2>1, <2>2, <2>3 DEF Life!Issue
    <2> QED  BY <2>1, <2>4 DEF Life!Next
  <1>5. ASSUME NEW g \in Guests, Enters(g) PROVE [Life!Next]_(Life!vars)
    <2>1. holds[g] \in DOMAIN creds
      BY <1>5, AdmittedByCredential DEF Enters
    <2>2. ~creds[holds[g]].reusable /\ holds[g] # None /\ holds[g] \in Ids
      BY <1>5, <1>t, <2>1 DEF NoneReusable, Enters, Ids, None
    <2>3. inside' = [h \in Guests |-> IF h = g \/ inside[h] # holds[g]
                                        THEN IF h = g THEN holds[g] ELSE inside[h]
                                        ELSE None]
      BY <1>5, <2>1, <2>2 DEF Enters, Displaced
    <2>4. InsideSets' = [h \in Guests |-> IF h = g THEN {holds[g]}
                                          ELSE InsideSets[h] \ {holds[g]}]
      BY <2>2, <2>3 DEF InsideSets
    <2>5. PICK c \in Ids : c = holds[g]
      BY <2>2
    <2>6. Life!Enter(g, c)
      BY <1>5, <2>1, <2>4, <2>5 DEF Life!Enter, Enters, InsideSets
    <2> QED  BY <2>6 DEF Life!Next
  <1>6. ASSUME NEW g \in Guests, GoesOut(g) PROVE [Life!Next]_(Life!vars)
    <2>1. InsideSets' = [h \in Guests |-> IF h \in {g} THEN {} ELSE InsideSets[h]]
      BY <1>6, <1>t DEF GoesOut, InsideSets
    <2>2. Life!Leave({g})
      BY <1>6, <2>1 DEF Life!Leave, GoesOut, InsideSets
    <2> QED  BY <2>2 DEF Life!Next
  <1> QED
    BY <1>1, <1>2, <1>3, <1>4, <1>5, <1>6
       DEF Next, Daemon, Main, Service, Door, Sends, Reads, RefusesLifetime, RefusesCall,
           BeginsCall, AnswersAtOnce, StartRefused, Answers, OnlyTable, ServesUnknown,
           ServesList, CallFails, Publishes, Receives

(* No call, restart, expiry or entry gives a credential a second life, and  *)
(* nobody enters on one that is not alive: the calls and the rooms are an   *)
(* implementation of CredentialLife (engine.rs: issue_credential to         *)
(* revoke_credential; config.rs: guest).                                    *)
THEOREM CredentialsLiveOnce == Spec => LifeSpec
  <1>1. Init => NoneReusable
    BY NoneYet DEF Init, NoneReusable
  <1>2. Spec => [](TypeInv /\ NoneReusable)
    BY <1>1, TypesHold, StepReusable, PTL DEF Spec
  <1> QED  BY <1>2, InitLife, StepLife, PTL DEF Spec, LifeSpec, Life!Spec

-----------------------------------------------------------------------------
(***************************************************************************)
(* What the daemon was told is gone.  An answer on its way may be final:   *)
(* for the id it names, or, if it ends a room, for every id the daemon     *)
(* will have been told of when it reads it, which are those it has and     *)
(* those that the answers in front of it carry.                            *)
(***************************************************************************)
EndsId(r, c) ==
    /\ \/ r.result = "unknown_id"
       \/ r.result = "ok" /\ r.req.cmd = "revoke"
    /\ c = r.req.id
EndsRoom(r) == r.result = "ok" /\ r.req.cmd \in RoomCommands

FinalFor(r, n) ==
    /\ \A c \in DOMAIN creds : ~EndsId(r, c)
    /\ EndsRoom(r) =>
         /\ DOMAIN creds \cap DOMAIN told = {}
         /\ \A j \in 1..n : DOMAIN creds \cap DOMAIN replies[j].stored = {}

GoneInv ==
    /\ GoneIsFinal
    /\ \A i \in 1..Len(replies) : FinalFor(replies[i], i - 1)
    /\ pc = "answer" => FinalFor(answer, Len(replies))

LEMMA GoneMeans ==
  ASSUME NEW r, NEW c \in Gone(r)
  PROVE  EndsId(r, c) \/ (EndsRoom(r) /\ c \in DOMAIN told)
  BY DEF Gone, EndsId, EndsRoom

(* Answers on their way stay final while the table only loses ids, or gains *)
(* one that nobody has heard of.                                            *)
LEMMA QueueKept ==
  ASSUME TypeInv, GoneInv, UNCHANGED <<replies, told, dead>>,
         DOMAIN creds' \subseteq DOMAIN creds \cup {issued + 1}
  PROVE  /\ GoneIsFinal'
         /\ (\A i \in 1..Len(replies) : FinalFor(replies[i], i - 1))'
  <1>1. issued \in Nat /\ dead \subseteq 1..issued /\ DOMAIN told \subseteq 1..issued
    BY BoundsAssumption DEF TypeInv, TypeOK, Expiries
  <1>2. \A i \in 1..Len(replies) :
           /\ replies[i].req.id \in 0..issued
           /\ DOMAIN replies[i].stored \subseteq 1..issued
    BY DEF TypeInv, TypeOK, Answered, Sound, IsReply, Expiries
  <1>3. GoneIsFinal'
    BY <1>1 DEF GoneInv, GoneIsFinal
  <1>4. ASSUME NEW i \in 1..Len(replies) PROVE FinalFor(replies[i], i - 1)'
    <2>1. FinalFor(replies[i], i - 1)
      BY DEF GoneInv
    <2>2. \A c \in DOMAIN creds' : ~EndsId(replies[i], c)
      BY <1>1, <1>2, <2>1 DEF FinalFor, EndsId
    <2>3. EndsRoom(replies[i]) =>
            /\ DOMAIN creds' \cap DOMAIN told = {}
            /\ \A j \in 1..(i - 1) : DOMAIN creds' \cap DOMAIN replies[j].stored = {}
      BY <1>1, <1>2, <2>1 DEF FinalFor
    <2> QED  BY <2>2, <2>3 DEF FinalFor, EndsId, EndsRoom
  <1> QED  BY <1>3, <1>4

LEMMA AnswerKept ==
  ASSUME TypeInv, GoneInv, UNCHANGED <<replies, told, answer>>, pc' = "answer" => pc = "answer",
         DOMAIN creds' \subseteq DOMAIN creds \cup {issued + 1}
  PROVE  (pc = "answer" => FinalFor(answer, Len(replies)))'
  <1> SUFFICES ASSUME pc = "answer" PROVE FinalFor(answer, Len(replies))'
    OBVIOUS
  <1>1. issued \in Nat /\ DOMAIN told \subseteq 1..issued /\ answer.req.id \in 0..issued
    BY BoundsAssumption DEF TypeInv, TypeOK, Expiries, Answered, Sound
  <1>2. \A i \in 1..Len(replies) : DOMAIN replies[i].stored \subseteq 1..issued
    BY DEF TypeInv, TypeOK, IsReply, Expiries
  <1>3. FinalFor(answer, Len(replies))
    BY DEF GoneInv
  <1>4. \A c \in DOMAIN creds' : ~EndsId(answer, c)
    BY <1>1, <1>3 DEF FinalFor, EndsId
  <1>5. EndsRoom(answer) =>
          /\ DOMAIN creds' \cap DOMAIN told = {}
          /\ \A j \in 1..Len(replies) : DOMAIN creds' \cap DOMAIN replies[j].stored = {}
    BY <1>1, <1>2, <1>3 DEF FinalFor
  <1> QED  BY <1>4, <1>5 DEF FinalFor, EndsId, EndsRoom

LEMMA StepGone == TypeInv /\ GoneInv /\ [Next]_vars => GoneInv'
  <1> SUFFICES ASSUME TypeInv, GoneInv, [Next]_vars PROVE GoneInv'
    OBVIOUS
  <1>t. issued \in Nat
    BY BoundsAssumption DEF TypeInv, TypeOK
  <1>1. CASE UNCHANGED <<creds, replies, told, dead, answer, pc>>
    BY <1>1, QueueKept, AnswerKept DEF GoneInv
  <1>2. CASE BeginsCall \/ Publishes \/ Ticks
    <2>1. /\ UNCHANGED <<replies, told, dead, answer>>
          /\ pc' = "answer" => pc = "answer"
          /\ DOMAIN creds' \subseteq DOMAIN creds
      BY <1>2 DEF BeginsCall, Publishes, Ticks, Only
    <2> QED  BY <2>1, QueueKept, AnswerKept DEF GoneInv
  <1>3. CASE Reads
    <2>1. /\ replies' = Tail(replies) /\ told' = Merge(told, Head(replies).stored)
          /\ dead' = dead \cup Gone(Head(replies)) /\ replies # <<>>
          /\ UNCHANGED <<creds, pc, answer>>
      BY <1>3 DEF Reads
    <2>2. DOMAIN told' = DOMAIN told \cup DOMAIN Head(replies).stored
      BY <2>1 DEF Merge
    <2>r. /\ Len(replies) \in Nat /\ Len(replies) >= 1 /\ Head(replies) = replies[1]
          /\ Len(replies') = Len(replies) - 1
          /\ \A i \in 1..Len(replies') : replies'[i] = replies[i + 1]
      BY <2>1 DEF TypeInv, TypeOK
    <2>3. GoneIsFinal'
      <3>1. FinalFor(replies[1], 0)
        BY <2>r DEF GoneInv
      <3>2. \A c \in Gone(Head(replies)) : c \notin DOMAIN creds
        BY <2>r, <3>1, GoneMeans DEF FinalFor
      <3> QED  BY <2>1, <3>2 DEF GoneInv, GoneIsFinal
    <2>4. ASSUME NEW i \in 1..Len(replies') PROVE FinalFor(replies[i], i - 1)'
      <3>1. FinalFor(replies[i + 1], i)
        BY <2>r DEF GoneInv
      <3>2. \A c \in DOMAIN creds' : ~EndsId(replies'[i], c)
        BY <2>1, <2>r, <3>1 DEF FinalFor
      <3>3. ASSUME EndsRoom(replies'[i])
            PROVE  /\ DOMAIN creds' \cap DOMAIN told' = {}
                   /\ \A j \in 1..(i - 1) : DOMAIN creds' \cap DOMAIN replies'[j].stored = {}
        <4>1. /\ DOMAIN creds \cap DOMAIN told = {}
              /\ \A j \in 1..i : DOMAIN creds \cap DOMAIN replies[j].stored = {}
          BY <2>r, <3>1, <3>3 DEF FinalFor
        <4>2. DOMAIN creds \cap DOMAIN Head(replies).stored = {}
          BY <2>r, <4>1
        <4>3. \A j \in 1..(i - 1) : j + 1 \in 1..i /\ replies'[j] = replies[j + 1]
          BY <2>r
        <4> QED  BY <2>1, <2>2, <4>1, <4>2, <4>3
      <3> QED  BY <3>2, <3>3 DEF FinalFor, EndsId, EndsRoom
    <2>5. (pc = "answer" => FinalFor(answer, Len(replies)))'
      <3> SUFFICES ASSUME pc' = "answer" PROVE FinalFor(answer, Len(replies))'
        OBVIOUS
      <3>1. FinalFor(answer, Len(replies))
        BY <2>1 DEF GoneInv
      <3>2. \A c \in DOMAIN creds' : ~EndsId(answer', c)
        BY <2>1, <3>1 DEF FinalFor
      <3>3. ASSUME EndsRoom(answer')
            PROVE  /\ DOMAIN creds' \cap DOMAIN told' = {}
                   /\ \A j \in 1..Len(replies') : DOMAIN creds' \cap DOMAIN replies'[j].stored = {}
        <4>1. /\ DOMAIN creds \cap DOMAIN told = {}
              /\ \A j \in 1..Len(replies) : DOMAIN creds \cap DOMAIN replies[j].stored = {}
          BY <2>1, <3>1, <3>3 DEF FinalFor
        <4>2. DOMAIN creds \cap DOMAIN Head(replies).stored = {}
          BY <2>r, <4>1
        <4>3. \A j \in 1..Len(replies') :
                 j + 1 \in 1..Len(replies) /\ replies'[j] = replies[j + 1]
          BY <2>r
        <4> QED  BY <2>1, <2>2, <4>1, <4>2, <4>3
      <3> QED  BY <3>2, <3>3 DEF FinalFor, EndsId, EndsRoom
    <2> QED  BY <2>3, <2>4, <2>5 DEF GoneInv
  <1>4. CASE RefusesLifetime \/ RefusesCall \/ StartRefused
    <2>1. /\ answer'.result \notin {"ok", "unknown_id"}
          /\ UNCHANGED <<creds, replies, told, dead>>
      BY <1>4 DEF RefusesLifetime, RefusesCall, StartRefused, AnswersAtOnce, Reply
    <2>2. FinalFor(answer, Len(replies))'
      BY <2>1 DEF FinalFor, EndsId, EndsRoom
    <2> QED  BY <2>1, <2>2, QueueKept DEF GoneInv
  <1>5. CASE StartFails \/ StartsRoom \/ Leaves
    <2>1. DOMAIN creds' = {} /\ UNCHANGED <<replies, told, dead>>
      BY <1>5, NoneYet DEF StartFails, StartsRoom, Leaves, AnswersAtOnce
    <2>2. FinalFor(answer, Len(replies))'
      BY <2>1 DEF FinalFor
    <2> QED  BY <2>1, <2>2, QueueKept DEF GoneInv
  <1>6. CASE Answers
    <2>1. /\ replies' = Append(replies, answer) /\ pc = "answer" /\ pc' = "idle"
          /\ UNCHANGED <<creds, told, dead>>
      BY <1>6 DEF Answers
    <2>r. /\ Len(replies) \in Nat /\ Len(replies') = Len(replies) + 1
          /\ \A i \in 1..Len(replies) : replies'[i] = replies[i]
          /\ replies'[Len(replies) + 1] = answer
      BY <2>1 DEF TypeInv, TypeOK
    <2>2. ASSUME NEW i \in 1..Len(replies') PROVE FinalFor(replies[i], i - 1)'
      <3>1. FinalFor(replies'[i], i - 1)
        BY <2>1, <2>r DEF GoneInv
      <3> QED  BY <2>1, <2>r, <3>1 DEF FinalFor, EndsId, EndsRoom
    <2> QED  BY <2>1, <2>2 DEF GoneInv, GoneIsFinal
  <1>7. CASE ServesIssue \/ ServesRenew \/ ServesRevoke \/ ServesUnknown \/ ServesList \/ CallFails
    <2>1. UNCHANGED <<replies, told, dead>> /\ answer'.req = cur
      BY <1>7 DEF ServesIssue, ServesRenew, ServesRevoke, ServesUnknown, ServesList,
                  CallFails, OnlyTable, Reply
    <2>2. DOMAIN creds' \subseteq DOMAIN creds \cup {issued + 1}
      BY <1>7 DEF ServesIssue, ServesRenew, ServesRevoke, ServesUnknown, ServesList,
                  CallFails, Merge, Only
    <2>3. ~EndsRoom(answer)'
      BY <1>7, <2>1 DEF ServesIssue, ServesRenew, ServesRevoke, ServesUnknown, ServesList,
                  CallFails, Serves, EndsRoom, Calls, RoomCommands
    <2>4. (\A c \in DOMAIN creds : ~EndsId(answer, c))'
      <3>1. CASE ServesIssue
        BY <3>1, <2>1 DEF ServesIssue, Serves, Reply, EndsId
      <3>2. CASE ServesRenew
        BY <3>2, <2>1 DEF ServesRenew, Serves, Reply, EndsId
      <3>3. CASE ServesRevoke
        BY <3>3, <2>1 DEF ServesRevoke, Only, EndsId
      <3>4. CASE ServesUnknown
        BY <3>4, <2>1 DEF ServesUnknown, EndsId
      <3>5. CASE ServesList
        BY <3>5, <2>1 DEF ServesList, Serves, Reply, EndsId
      <3>6. CASE CallFails
        BY <3>6 DEF CallFails, Reply, EndsId
      <3> QED  BY <1>7, <3>1, <3>2, <3>3, <3>4, <3>5, <3>6
    <2>5. FinalFor(answer, Len(replies))'
      BY <2>3, <2>4 DEF FinalFor
    <2> QED  BY <2>1, <2>2, <2>5, QueueKept DEF GoneInv
  <1> QED
    BY <1>1, <1>2, <1>3, <1>4, <1>5, <1>6, <1>7
       DEF Next, Daemon, Main, Service, Door, Sends, Enters, GoesOut, Receives

(* What the daemon was told is gone never lets anybody in again, however    *)
(* many requests were in the pipe and whatever room is up when it reads the *)
(* answer (engine.rs: renew_credential, revoke_credential; config.rs:       *)
(* guest, a table that lives in the room's memory).                         *)
THEOREM GoneForGood == Spec => []GoneIsFinal
  <1>1. Init => GoneInv
    BY NoneYet DEF Init, GoneInv, GoneIsFinal
  <1>2. GoneInv => GoneIsFinal
    BY DEF GoneInv
  <1> QED  BY <1>1, <1>2, TypesHold, StepGone, PTL DEF Spec

-----------------------------------------------------------------------------
(***************************************************************************)
(* What the daemon believes.  Its table and each answer on its way are     *)
(* like snapshots of the room's table, the later ones nearer to it: what   *)
(* one of them says of a credential is so, or a later one says otherwise.  *)
(***************************************************************************)
TrueAt(f, n) ==
    \A c \in DOMAIN f :
        f[c] > now /\ born[c] = room /\ c \notin dead =>
            \/ c \in DOMAIN creds /\ creds[c].expiry = f[c]
            \/ \E j \in (n + 1)..Len(replies) : Supersedes(replies[j], c)
            \/ pc = "answer" /\ n <= Len(replies) /\ Supersedes(answer, c)

(* A renewal's answer carries what it renewed. *)
Carries(r) ==
    r.result = "ok" /\ r.req.cmd = "renew" => r.req.id \in DOMAIN r.stored

BeliefInv ==
    /\ pc = "call" => room # None
    /\ \A c \in 1..issued : born[c] # None
    /\ \A i \in 1..Len(replies) : Carries(replies[i])
    /\ pc = "answer" => Carries(answer)
    /\ TrueAt(told, 0)
    /\ \A i \in 1..Len(replies) : TrueAt(replies[i].stored, i)
    /\ pc = "answer" => TrueAt(answer.stored, Len(replies) + 1)

(* What a step leaves of the snapshots, if it takes no answer in or out. *)
LEMMA BeliefKept ==
  ASSUME TypeInv, BeliefInv, UNCHANGED <<replies, told, dead>>,
         \A c \in 1..issued : born'[c] # None,
         \/ \A c \in 1..issued : born'[c] # room'
         \/ /\ room' = room /\ now' >= now /\ now' \in Nat
            /\ \A c \in 1..issued : born'[c] = born[c]
            /\ \A c \in DOMAIN creds :
                  \/ c \in DOMAIN creds' /\ creds'[c].expiry = creds[c].expiry
                  \/ creds[c].expiry <= now'
                  \/ pc = "call" /\ pc' = "answer" /\ Supersedes(answer', c)
            /\ pc = "answer" => pc' = "answer" /\ answer' = answer
  PROVE  /\ TrueAt(told, 0)'
         /\ (\A i \in 1..Len(replies) : TrueAt(replies[i].stored, i))'
         /\ pc = "answer" /\ pc' = "answer" /\ answer' = answer =>
               TrueAt(answer.stored, Len(replies) + 1)'
         /\ (\A i \in 1..Len(replies) : Carries(replies[i]))'
  <1>1. /\ issued \in Nat /\ now \in Nat /\ Len(replies) \in Nat
        /\ DOMAIN told \subseteq 1..issued /\ \A c \in DOMAIN told : told[c] \in Nat
        /\ \A i \in 1..Len(replies) : /\ DOMAIN replies[i].stored \subseteq 1..issued
                                      /\ \A c \in DOMAIN replies[i].stored :
                                            replies[i].stored[c] \in Nat
        /\ DOMAIN answer.stored \subseteq 1..issued
        /\ \A c \in DOMAIN answer.stored : answer.stored[c] \in Nat
    BY BoundsAssumption DEF TypeInv, TypeOK, Expiries, IsReply
  <1>2. (\A i \in 1..Len(replies) : Carries(replies[i]))'
    BY DEF BeliefInv, Carries
  <1>3. TrueAt(told, 0)'
    BY <1>1 DEF BeliefInv, TrueAt, Supersedes
  <1>4. ASSUME NEW i \in 1..Len(replies) PROVE TrueAt(replies[i].stored, i)'
    <2>1. TrueAt(replies[i].stored, i)
      BY DEF BeliefInv
    <2> QED  BY <1>1, <2>1 DEF TrueAt, Supersedes
  <1>5. ASSUME pc = "answer", pc' = "answer", answer' = answer
        PROVE  TrueAt(answer.stored, Len(replies) + 1)'
    <2>1. TrueAt(answer.stored, Len(replies) + 1)
      BY <1>5 DEF BeliefInv
    <2> QED  BY <1>1, <1>5, <2>1 DEF TrueAt, Supersedes
  <1> QED  BY <1>2, <1>3, <1>4, <1>5

LEMMA StepBelief == TypeInv /\ BeliefInv /\ [Next]_vars => BeliefInv'
  <1> SUFFICES ASSUME TypeInv, BeliefInv, [Next]_vars PROVE BeliefInv'
    OBVIOUS
  <1>t. /\ issued \in Nat /\ now \in Nat /\ hosted \in Nat
        /\ Len(replies) \in Nat /\ born \in [Ids -> 0..hosted]
        /\ 1..issued \subseteq Ids
        /\ DOMAIN creds \subseteq 1..issued
        /\ \A c \in DOMAIN creds : creds[c] \in [expiry : Nat, reusable : BOOLEAN]
    BY BoundsAssumption DEF TypeInv, TypeOK, Ids
  <1>b. (pc = "call" => room # None) /\ (\A c \in 1..issued : born[c] # None)
    BY DEF BeliefInv
  <1>0. CASE UNCHANGED <<now, room, issued, creds, born, replies, told, dead, pc, answer>>
    BY <1>0 DEF BeliefInv, TrueAt, Carries, Supersedes
  <1>1. CASE RefusesLifetime \/ RefusesCall \/ StartRefused \/ BeginsCall
    <2>1. /\ UNCHANGED <<now, room, issued, creds, born, replies, told, dead>>
          /\ pc = "idle"
      BY <1>1 DEF RefusesLifetime, RefusesCall, StartRefused, BeginsCall, Takes, AnswersAtOnce
    <2>2. /\ pc' = "call" => room # None
          /\ pc' = "answer" => answer'.result # "ok" /\ answer'.stored = <<>>
      BY <1>1 DEF RefusesLifetime, RefusesCall, StartRefused, BeginsCall, AnswersAtOnce, Reply, HasApi
    <2>3. /\ (pc = "answer" => Carries(answer))'
          /\ (pc = "answer" => TrueAt(answer.stored, Len(replies) + 1))'
      BY <2>2, NoneYet DEF Carries, TrueAt
    <2>4. /\ TrueAt(told, 0)'
          /\ (\A i \in 1..Len(replies) : TrueAt(replies[i].stored, i))'
          /\ (\A i \in 1..Len(replies) : Carries(replies[i]))'
      BY <1>t, <1>b, <2>1, BeliefKept
    <2> QED  BY <1>b, <2>1, <2>2, <2>3, <2>4 DEF BeliefInv
  <1>2. CASE StartFails \/ StartsRoom \/ Leaves
    <2>1. UNCHANGED <<now, issued, born, replies, told, dead>>
      BY <1>2 DEF StartFails, StartsRoom, Leaves, AnswersAtOnce
    <2>2. \A c \in 1..issued : born'[c] # room'
      BY <1>2, <1>t, <1>b, <2>1 DEF StartFails, StartsRoom, Leaves, None
    <2>3. /\ TrueAt(told, 0)'
          /\ (\A i \in 1..Len(replies) : TrueAt(replies[i].stored, i))'
          /\ (\A i \in 1..Len(replies) : Carries(replies[i]))'
      BY <1>b, <2>1, <2>2, BeliefKept
    <2>4. pc' = "answer" /\ answer'.stored = <<>> /\ Carries(answer)'
      BY <1>2 DEF StartFails, StartsRoom, Leaves, AnswersAtOnce, Takes, Reply, Carries, RoomCommands
    <2>5. TrueAt(answer.stored, Len(replies) + 1)'
      BY <2>4, NoneYet DEF TrueAt
    <2> QED  BY <1>b, <2>1, <2>3, <2>4, <2>5 DEF BeliefInv
  <1>3. CASE Publishes \/ Ticks
    <2>1. /\ UNCHANGED <<room, issued, born, replies, told, dead, pc, answer>>
          /\ now' \in Nat /\ now' >= now
      BY <1>3, <1>t DEF Publishes, Ticks
    <2>2. \A c \in DOMAIN creds :
             \/ c \in DOMAIN creds' /\ creds'[c].expiry = creds[c].expiry
             \/ creds[c].expiry <= now'
      BY <1>3, <1>t, <2>1 DEF Publishes, Ticks, Only
    <2>3. /\ TrueAt(told, 0)'
          /\ (\A i \in 1..Len(replies) : TrueAt(replies[i].stored, i))'
          /\ (pc = "answer" => TrueAt(answer.stored, Len(replies) + 1))'
          /\ (\A i \in 1..Len(replies) : Carries(replies[i]))'
      BY <1>b, <2>1, <2>2, BeliefKept
    <2> QED  BY <1>b, <2>1, <2>3 DEF BeliefInv, Carries
  <1>4. CASE Reads
    <2>1. /\ replies' = Tail(replies) /\ told' = Merge(told, replies[1].stored)
          /\ dead' = dead \cup Gone(replies[1])
          /\ UNCHANGED <<now, room, issued, creds, born, pc, answer>>
          /\ Len(replies) >= 1 /\ Len(replies') = Len(replies) - 1
          /\ \A i \in 1..Len(replies') : replies'[i] = replies[i + 1]
      BY <1>4 DEF Reads, TypeInv, TypeOK
    <2>2. ASSUME NEW i \in 1..Len(replies') PROVE TrueAt(replies[i].stored, i)'
      <3>1. TrueAt(replies[i + 1].stored, i + 1)
        BY <1>t, <2>1 DEF BeliefInv
      <3>2. \A j \in ((i + 1) + 1)..Len(replies) :
               j - 1 \in (i + 1)..Len(replies') /\ replies'[j - 1] = replies[j]
        BY <1>t, <2>1
      <3>3. replies'[i] = replies[i + 1] /\ i <= Len(replies')
        BY <1>t, <2>1
      <3>4. ASSUME NEW c \in DOMAIN replies'[i].stored, replies'[i].stored[c] > now,
                   born[c] = room, c \notin dead'
            PROVE  \/ c \in DOMAIN creds /\ creds[c].expiry = replies'[i].stored[c]
                   \/ \E j \in (i + 1)..Len(replies') : Supersedes(replies'[j], c)
                   \/ pc = "answer" /\ Supersedes(answer, c)
        <4>1. \/ c \in DOMAIN creds /\ creds[c].expiry = replies[i + 1].stored[c]
              \/ \E j \in ((i + 1) + 1)..Len(replies) : Supersedes(replies[j], c)
              \/ pc = "answer" /\ Supersedes(answer, c)
          BY <2>1, <3>1, <3>3, <3>4 DEF TrueAt
        <4>2. ASSUME NEW j \in ((i + 1) + 1)..Len(replies), Supersedes(replies[j], c)
              PROVE  \E k \in (i + 1)..Len(replies') : Supersedes(replies'[k], c)
          BY <3>2, <4>2
        <4> QED  BY <3>3, <4>1, <4>2
      <3> QED  BY <2>1, <3>3, <3>4 DEF TrueAt, Supersedes
    <2>3. (pc = "answer" => TrueAt(answer.stored, Len(replies) + 1))'
      BY <1>t, <2>1 DEF BeliefInv, TrueAt, Supersedes
    <2>4. TrueAt(told, 0)'
      <3> SUFFICES ASSUME NEW c \in DOMAIN told', told'[c] > now, born[c] = room, c \notin dead'
                   PROVE  \/ c \in DOMAIN creds /\ creds[c].expiry = told'[c]
                          \/ \E j \in 1..Len(replies') : Supersedes(replies'[j], c)
                          \/ pc = "answer" /\ Supersedes(answer, c)
        BY <1>t, <2>1 DEF TrueAt, Supersedes
      <3>1. \A j \in 2..Len(replies) :
               j - 1 \in 1..Len(replies') /\ replies'[j - 1] = replies[j]
        BY <1>t, <2>1
      <3>2. CASE c \in DOMAIN replies[1].stored
        <4>1. TrueAt(replies[1].stored, 1)
          BY <1>t, <2>1 DEF BeliefInv
        <4>2. told'[c] = replies[1].stored[c]
          BY <2>1, <3>2 DEF Merge
        <4>3. \/ c \in DOMAIN creds /\ creds[c].expiry = told'[c]
              \/ \E j \in (1 + 1)..Len(replies) : Supersedes(replies[j], c)
              \/ pc = "answer" /\ Supersedes(answer, c)
          BY <2>1, <3>2, <4>1, <4>2 DEF TrueAt
        <4>4. ASSUME NEW j \in (1 + 1)..Len(replies), Supersedes(replies[j], c)
              PROVE  \E k \in 1..Len(replies') : Supersedes(replies'[k], c)
          BY <3>1, <4>4
        <4> QED  BY <4>3, <4>4
      <3>3. CASE c \notin DOMAIN replies[1].stored
        <4>1. c \in DOMAIN told /\ told'[c] = told[c]
          BY <2>1, <3>3 DEF Merge
        <4>2. ~Supersedes(replies[1], c)
          <5>1. Carries(replies[1])
            BY <1>t, <2>1 DEF BeliefInv
          <5>2. ASSUME replies[1].result = "ok", replies[1].req.cmd = "revoke" PROVE replies[1].req.id # c
            <6>1. Gone(replies[1]) = {replies[1].req.id}
              BY <5>2 DEF Gone, RoomCommands
            <6> QED  BY <2>1, <6>1
          <5> QED  BY <3>3, <5>1, <5>2 DEF Supersedes, Carries
        <4>3. TrueAt(told, 0)
          BY DEF BeliefInv
        <4>4. \/ c \in DOMAIN creds /\ creds[c].expiry = told[c]
              \/ \E j \in 1..Len(replies) : Supersedes(replies[j], c)
              \/ pc = "answer" /\ Supersedes(answer, c)
          BY <2>1, <4>1, <4>3 DEF TrueAt
        <4>5. ASSUME NEW j \in 1..Len(replies), Supersedes(replies[j], c)
              PROVE  \E k \in 1..Len(replies') : Supersedes(replies'[k], c)
          BY <1>t, <3>1, <4>2, <4>5
        <4> QED  BY <4>1, <4>4, <4>5
      <3> QED  BY <3>2, <3>3
    <2>5. (\A i \in 1..Len(replies) : Carries(replies[i]))'
      BY <1>t, <2>1 DEF BeliefInv, Carries
    <2> QED  BY <1>b, <2>1, <2>2, <2>3, <2>4, <2>5 DEF BeliefInv, Carries
  <1>5. CASE Answers
    <2>1. /\ pc = "answer" /\ pc' = "idle" /\ replies' = Append(replies, answer)
          /\ UNCHANGED <<now, room, issued, creds, born, told, dead, answer>>
          /\ Len(replies') = Len(replies) + 1
          /\ \A i \in 1..Len(replies) : replies'[i] = replies[i]
          /\ replies'[Len(replies) + 1] = answer
      BY <1>5 DEF Answers, TypeInv, TypeOK
    <2>2. TrueAt(told, 0)'
      <3>1. TrueAt(told, 0)
        BY DEF BeliefInv
      <3> QED  BY <1>t, <2>1, <3>1 DEF TrueAt, Supersedes
    <2>3. ASSUME NEW i \in 1..Len(replies') PROVE TrueAt(replies[i].stored, i)'
      <3>1. CASE i \in 1..Len(replies)
        <4>1. TrueAt(replies[i].stored, i)
          BY <3>1 DEF BeliefInv
        <4> QED  BY <1>t, <2>1, <3>1, <4>1 DEF TrueAt, Supersedes
      <3>2. CASE i = Len(replies) + 1
        <4>1. TrueAt(answer.stored, Len(replies) + 1)
          BY <2>1 DEF BeliefInv
        <4> QED  BY <1>t, <2>1, <3>2, <4>1 DEF TrueAt, Supersedes
      <3> QED  BY <1>t, <2>1, <3>1, <3>2
    <2>4. (\A i \in 1..Len(replies) : Carries(replies[i]))'
      BY <1>t, <2>1 DEF BeliefInv, Carries
    <2> QED  BY <1>b, <2>1, <2>2, <2>3, <2>4 DEF BeliefInv
  <1>6. CASE ServesIssue
    <2>1. /\ UNCHANGED <<now, room, hosted, replies, told, dead>>
          /\ pc = "call" /\ pc' = "answer" /\ issued' = issued + 1 /\ issued' \in Ids
          /\ answer'.req = cur /\ cur.cmd = "issue"
          /\ answer'.stored = [c \in {issued'} |-> Never]
          /\ born' = [born EXCEPT ![issued'] = room]
      BY <1>6, <1>t, BoundsAssumption DEF ServesIssue, OnlyTable, Serves, Reply, Ids
    <2>2. \A c \in 1..issued' : born'[c] # None
      BY <1>t, <1>b, <2>1
    <2>3. \A c \in 1..issued : born'[c] = born[c]
      BY <1>t, <2>1
    <2>4. \A c \in DOMAIN creds : c \in DOMAIN creds' /\ creds'[c] = creds[c]
      BY <1>6, <1>t DEF ServesIssue, Merge
    <2>5. /\ TrueAt(told, 0)'
          /\ (\A i \in 1..Len(replies) : TrueAt(replies[i].stored, i))'
          /\ (\A i \in 1..Len(replies) : Carries(replies[i]))'
      BY <1>t, <1>b, <2>1, <2>3, <2>4, BeliefKept
    <2>6. Carries(answer)' /\ TrueAt(answer.stored, Len(replies) + 1)'
      BY <1>t, <2>1 DEF Carries, TrueAt, Never
    <2> QED  BY <2>1, <2>2, <2>5, <2>6 DEF BeliefInv
  <1>7. CASE ServesRenew \/ ServesRevoke
    <2>1. /\ UNCHANGED <<now, room, issued, born, replies, told, dead>>
          /\ pc = "call" /\ pc' = "answer"
          /\ Supersedes(answer', cur.id)
      BY <1>7 DEF ServesRenew, ServesRevoke, OnlyTable, Serves, Reply, Supersedes
    <2>2. \A c \in DOMAIN creds : c # cur.id => c \in DOMAIN creds' /\ creds'[c] = creds[c]
      BY <1>7, <1>t DEF ServesRenew, ServesRevoke, Only, Ids
    <2>3. /\ TrueAt(told, 0)'
          /\ (\A i \in 1..Len(replies) : TrueAt(replies[i].stored, i))'
          /\ (\A i \in 1..Len(replies) : Carries(replies[i]))'
      BY <1>t, <1>b, <2>1, <2>2, BeliefKept
    <2>4. Carries(answer)' /\ TrueAt(answer.stored, Len(replies) + 1)'
      <3>1. CASE ServesRenew
        <4>1. answer'.stored = [c \in {cur.id} |-> now + cur.ttl] /\ answer'.req = cur
          BY <3>1 DEF ServesRenew, Reply
        <4>2. cur.id \in DOMAIN creds' /\ creds'[cur.id].expiry = now + cur.ttl
          BY <3>1, <1>t DEF ServesRenew
        <4> QED  BY <4>1, <4>2 DEF Carries, TrueAt
      <3>2. CASE ServesRevoke
        <4>1. answer'.stored = <<>> /\ answer'.req.cmd = "revoke"
          BY <3>2 DEF ServesRevoke, Serves, Reply
        <4> QED  BY <4>1, NoneYet DEF Carries, TrueAt
      <3> QED  BY <1>7, <3>1, <3>2
    <2> QED  BY <1>b, <2>1, <2>3, <2>4 DEF BeliefInv
  <1>8. CASE ServesUnknown \/ ServesList \/ CallFails
    <2>1. /\ UNCHANGED <<now, room, issued, born, creds, replies, told, dead>>
          /\ pc = "call" /\ pc' = "answer"
      BY <1>8 DEF ServesUnknown, ServesList, CallFails, OnlyTable, Serves
    <2>2. /\ TrueAt(told, 0)'
          /\ (\A i \in 1..Len(replies) : TrueAt(replies[i].stored, i))'
          /\ (\A i \in 1..Len(replies) : Carries(replies[i]))'
      BY <1>t, <1>b, <2>1, BeliefKept
    <2>3. Carries(answer)' /\ TrueAt(answer.stored, Len(replies) + 1)'
      <3>1. CASE ServesList
        <4>1. /\ answer'.stored = [c \in DOMAIN creds |-> creds[c].expiry]
              /\ answer'.req = cur /\ cur.cmd = "list"
          BY <3>1 DEF ServesList, Serves, Reply
        <4> QED  BY <2>1, <4>1 DEF Carries, TrueAt
      <3>2. CASE ServesUnknown \/ CallFails
        <4>1. answer'.stored = <<>> /\ answer'.result # "ok"
          BY <3>2 DEF ServesUnknown, CallFails, Reply
        <4> QED  BY <4>1, NoneYet DEF Carries, TrueAt
      <3> QED  BY <1>8, <3>1, <3>2
    <2> QED  BY <1>b, <2>1, <2>2, <2>3 DEF BeliefInv
  <1> QED
    BY <1>0, <1>1, <1>2, <1>3, <1>4, <1>5, <1>6, <1>7, <1>8
       DEF Next, Daemon, Main, Service, Door, Sends, Enters, GoesOut, Receives

(* What the daemon was last told of a credential is what the room holds, or *)
(* an answer that says otherwise is on its way: through any pipelining,     *)
(* expiry, and listing taken between two renewals (proto.rs: RenewedOut).   *)
THEOREM ToldIsTrue == Spec => []ToldIsHeld
  <1>1. Init => BeliefInv
    BY NoneYet DEF Init, BeliefInv, TrueAt
  <1>2. TypeInv /\ BeliefInv => ToldIsHeld
    BY DEF BeliefInv, TrueAt, ToldIsHeld, OnItsWay
  <1> QED  BY <1>1, <1>2, TypesHold, StepBelief, PTL DEF Spec
=============================================================================
