--------------------------- MODULE DeliveryProofs ---------------------------
(***************************************************************************)
(* What holds of a binary from the repository it was built in to the       *)
(* instances it starts and the log it leaves, for any repository, any      *)
(* number of builds and of changes between and during them, any defaults   *)
(* of EasyTier, any arguments and any messages.                            *)
(***************************************************************************)
EXTENDS Delivery, LogFileProofs

(***************************************************************************)
(* A build seals what the repository is at.  The invariant follows the     *)
(* script's answer from one build to the next: it is right, or a file the  *)
(* script named has changed since, and cargo asks again.                   *)
(***************************************************************************)
USE BranchesAssumption, FilesAssumption, BuildBoundsAssumption,
    MachinesAssumption
USE DEF repo, script, history, Commits, References, Unset, Blank, Unknown, Id,
        Files, Named, NoId, NoBinary

(* The script has begun, and what it named counts. *)
Spoken == ran \/ pc # "idle"

(* Cargo would notice that HEAD is not where it was. *)
HeadChanged == {"HEAD"} \cup (tracked \cap Branches)
Noticed == HeadChanged \cap changed # {}

Watched ==
    Spoken =>
        /\ {"BUILD_REF", "HEAD", "packed-refs", "Cargo.lock"} \subseteq tracked
        /\ on \in tracked \/ on = Detached \/ "HEAD" \in changed

SealedIsHead ==
    ran \/ pc \in {"status", "link", "compile"} =>
        IF sealedRef \in Commits THEN sealed.commit = sealedRef
        ELSE sealed.commit \in {HeadCommit, Unknown} \/ Noticed

GivenRef == pc # "idle" => ref = sealedRef

(* git is asked of HEAD only when nobody said what it is. *)
ScriptAsks == pc \in {"head", "status"} => ref \notin Commits

StillHead ==
    /\ pc \in {"status", "link", "compile"}
    /\ "head" \notin stirred /\ ref \notin Commits
    => sealed.commit \in {HeadCommit, Unknown}

LibInv ==
    /\ pc = "compile" => ran
    /\ ran => sealedLib = EngineLib(lock) \/ "Cargo.lock" \in changed
    /\ LibIsLocked

BuildInv ==
    /\ BuildTypeOK /\ Watched /\ SealedIsHead /\ GivenRef /\ ScriptAsks /\ StillHead
    /\ LibInv

-----------------------------------------------------------------------------
LEMMA BuildInitInv == BuildInit => BuildInv
<1>. SUFFICES ASSUME BuildInit PROVE BuildInv
  OBVIOUS
<1>. USE DEF BuildInit
<1>1. /\ machine \in [os : {"windows", "other"}, arch_known : BOOLEAN,
                      link_search : BOOLEAN, library : BOOLEAN]
      /\ commits \in 1..MaxCommits /\ lockOf \in [1..MaxCommits -> Locks]
  OBVIOUS
<1>2. /\ refs \in [Branches -> 1..commits] /\ detachedAt \in 1..commits
      /\ lock \in Locks
  BY <1>1
<1>3. sealed \in Id /\ ref \in References /\ sealedRef \in References
  OBVIOUS
<1>4. /\ edited \in BOOLEAN /\ ran \in BOOLEAN /\ packed \in BOOLEAN
  OBVIOUS
<1>5. looked \in 0..MaxCommits
  OBVIOUS
<1>6. BuildTypeOK
  BY <1>1, <1>2, <1>3, <1>4, <1>5 DEF BuildTypeOK
<1>. QED
  BY <1>6 DEF BuildInv, Watched, Spoken, SealedIsHead, GivenRef, ScriptAsks,
              StillHead, LibInv, LibIsLocked

LEMMA HeadIsCommit == ASSUME BuildTypeOK PROVE HeadCommit \in 1..commits
BY DEF BuildTypeOK, HeadCommit

-----------------------------------------------------------------------------
(* What a commit touches, on a branch and without one. *)
LEMMA CommitsOnBranch ==
    ASSUME CommitsTree, on \in Branches
    PROVE  /\ refs' = [refs EXCEPT ![on] = commits'] /\ detachedAt' = detachedAt
           /\ loose' = loose \cup {on} /\ changed' = changed \cup {on}
           /\ stirred' \in {stirred, stirred \cup {"head", "tree"}}
BY DEF CommitsTree, Touches

LEMMA CommitsDetached ==
    ASSUME CommitsTree, on \notin Branches
    PROVE  /\ detachedAt' = commits' /\ refs' = refs /\ loose' = loose
           /\ changed' = changed \cup {"HEAD"}
           /\ stirred' \in {stirred, stirred \cup {"head", "tree"}}
BY DEF CommitsTree, Touches

(* Type correctness, one lemma for those who work and one for the build. *)
LEMMA WorksType == ASSUME BuildTypeOK, Works PROVE BuildTypeOK'
<1>. USE DEF BuildTypeOK, Touches, EditBound
<1>1. CASE Edits
  <2>1. edited' \in BOOLEAN /\ edits' \in 0..MaxEdits
    BY <1>1 DEF Edits
  <2>2. changed' \subseteq Files /\ stirred' \subseteq {"head", "tree", "lock"}
    BY <1>1 DEF Edits
  <2>. QED BY <1>1, <2>1, <2>2 DEF Edits
<1>2. CASE Restores
  <2>1. lock' \in Locks
    BY <1>2, HeadIsCommit DEF Restores
  <2>2. changed' \subseteq Files
    BY <1>2 DEF Restores
  <2>3. stirred' \subseteq {"head", "tree", "lock"}
    BY <1>2 DEF Restores
  <2>4. edited' \in BOOLEAN
    BY <1>2 DEF Restores
  <2>. QED BY <1>2, <2>1, <2>2, <2>3, <2>4 DEF Restores
<1>3. CASE CommitsTree
  <2>1. /\ commits' \in 1..MaxCommits /\ 1..commits \subseteq 1..commits'
        /\ commits' \in 1..commits'
    BY <1>3 DEF CommitsTree
  <2>2. lockOf' \in [1..MaxCommits -> Locks]
    BY <1>3, <2>1 DEF CommitsTree
  <2>3. refs' \in [Branches -> 1..commits'] /\ detachedAt' \in 1..commits'
    <3>1. CASE on \in Branches
      <4>1. refs' = [refs EXCEPT ![on] = commits'] /\ detachedAt' = detachedAt
        BY <1>3, <3>1, CommitsOnBranch
      <4>2. refs \in [Branches -> 1..commits'] /\ detachedAt \in 1..commits'
        BY <2>1
      <4>. HIDE DEF Touches, EditBound, BuildTypeOK
      <4>. QED BY <2>1, <3>1, <4>1, <4>2
    <3>2. CASE on \notin Branches BY <1>3, <2>1, <3>2, CommitsDetached
    <3>. QED BY <3>1, <3>2
  <2>4. changed' \subseteq Files /\ stirred' \subseteq {"head", "tree", "lock"}
        /\ loose' \subseteq Branches
    <3>1. CASE on \in Branches BY <1>3, <3>1, CommitsOnBranch DEF Files
    <3>2. CASE on \notin Branches BY <1>3, <3>2, CommitsDetached DEF Files
    <3>. QED BY <3>1, <3>2
  <2>5. UNCHANGED <<machine, pc, script, builds, edits, on, packed, lock, ref>>
    BY <1>3 DEF CommitsTree
  <2>6. edited' = FALSE /\ UNCHANGED looked
    BY <1>3 DEF CommitsTree
  <2>7. /\ machine' = machine /\ pc' = pc /\ builds' = builds /\ edits' = edits
        /\ on' = on /\ packed' = packed /\ lock' = lock /\ ref' = ref
        /\ tracked' = tracked /\ ran' = ran /\ sealed' = sealed
        /\ sealedRef' = sealedRef
    BY <2>5 DEF script
  <2>. QED
    <3>1. /\ on' \in Branches \cup {Detached} /\ lock' \in Locks /\ ref' \in References
          /\ packed' \in BOOLEAN /\ edited' \in BOOLEAN
      BY <2>6, <2>7
    <3>2. /\ machine' \in [os : {"windows", "other"}, arch_known : BOOLEAN,
                           link_search : BOOLEAN, library : BOOLEAN]
          /\ pc' \in {"idle", "head", "status", "link", "compile"}
      BY <2>7
    <3>3. /\ tracked' \subseteq Named /\ ran' \in BOOLEAN /\ sealed' \in Id
          /\ sealedRef' \in References
          /\ builds' \in 0..MaxBuilds /\ edits' \in 0..MaxEdits
          /\ looked' \in 0..MaxCommits
      BY <2>6, <2>7
    <3>. HIDE DEF Touches, EditBound, Id, References, Named, Files
    <3>. QED BY <2>1, <2>2, <2>3, <2>4, <3>1, <3>2, <3>3
<1>4. CASE Packs BY <1>4 DEF Packs
<1>5. ASSUME NEW l \in Locks, EditsLock(l) PROVE BuildTypeOK'
  BY <1>5 DEF EditsLock
<1>6. ASSUME NEW b \in Branches \cup {Detached}, NEW c \in Commits, Switches(b, c)
      PROVE  BuildTypeOK'
  <2>1. c \in 1..commits
    BY <1>6 DEF Switches
  <2>. QED BY <1>6, <2>1 DEF Switches
<1>7. ASSUME NEW r \in References, Exports(r) PROVE BuildTypeOK'
  BY <1>7 DEF Exports
<1>. QED BY <1>1, <1>2, <1>3, <1>4, <1>5, <1>6, <1>7 DEF Works

LEMMA BuildsType == ASSUME BuildTypeOK, Builds PROVE BuildTypeOK'
<1>. USE DEF BuildTypeOK
<1>1. CASE UsesWhatItHas BY <1>1 DEF UsesWhatItHas
<1>2. CASE RunsScript
  <2>1. ran' \in BOOLEAN
    BY <1>2 DEF RunsScript
  <2>4. looked' \in 0..MaxCommits
    BY <1>2 DEF RunsScript
  <2>2. sealed' \in Id /\ pc' \in {"head", "link"}
    <3>1. CASE Told
      <4>1. sealed' = [commit |-> ref, dirty |-> FALSE] /\ pc' = "link"
        BY <1>2, <3>1 DEF RunsScript
      <4>. QED BY <3>1, <4>1 DEF Told
    <3>2. CASE ~Told
      BY <1>2, <3>2 DEF RunsScript
    <3>. QED BY <3>1, <3>2
  <2>3. changed' \subseteq Files /\ tracked' \subseteq Named
    BY <1>2 DEF RunsScript, Tracks
  <2>. QED BY <1>2, <2>1, <2>2, <2>3, <2>4 DEF RunsScript
<1>3. CASE NamesHead BY <1>3, HeadIsCommit DEF NamesHead, OnlyId
<1>4. CASE NamesNothing BY <1>4 DEF NamesNothing, OnlyId
<1>5. CASE LooksAtTree
  <2>1. sealed' \in Id
    BY <1>5 DEF LooksAtTree
  <2>2. looked' \in 0..MaxCommits
    BY <1>5, HeadIsCommit DEF LooksAtTree
  <2>. QED BY <1>5, <2>1, <2>2 DEF LooksAtTree, OnlyId
<1>6. CASE StatusFails BY <1>6 DEF StatusFails, OnlyId
<1>7. CASE ReadsLock BY <1>7 DEF ReadsLock
<1>8. CASE ScriptPanics BY <1>8 DEF ScriptPanics, Forgets
<1>9. CASE Compiles BY <1>9 DEF Compiles, Forgets
<1>10. CASE CompileFails BY <1>10 DEF CompileFails, Forgets
<1>11. CASE Fetches BY <1>11 DEF Fetches
<1>. QED BY <1>1, <1>2, <1>3, <1>4, <1>5, <1>6, <1>7, <1>8, <1>9, <1>10, <1>11 DEF Builds

-----------------------------------------------------------------------------
(* HEAD: whatever moves it leaves a mark the next build reads. *)
HeadInv == Watched /\ SealedIsHead /\ GivenRef /\ StillHead

LEMMA WorksHead == ASSUME BuildInv, Works PROVE HeadInv'
<1>. USE DEF HeadInv, BuildInv, Touches, EditBound, Spoken, HeadChanged
<1>1. ASSUME UNCHANGED <<on, detachedAt, refs, ref, pc, ran, tracked, sealed, sealedRef>>,
             changed \subseteq changed', stirred \subseteq stirred'
      PROVE  HeadInv'
  <2>1. HeadCommit' = HeadCommit
    BY <1>1 DEF HeadCommit
  <2>2. Watched' /\ GivenRef'
    BY <1>1 DEF Watched, GivenRef
  <2>3. SealedIsHead'
    BY <1>1, <2>1 DEF SealedIsHead, Noticed
  <2>4. StillHead'
    BY <1>1, <2>1 DEF StillHead
  <2>. QED BY <2>2, <2>3, <2>4
<1>2. ASSUME UNCHANGED <<ref, pc, ran, tracked, sealed, sealedRef>>,
             changed \subseteq changed', stirred \subseteq stirred',
             pc # "idle" => "head" \in stirred',
             Spoken => HeadChanged \cap changed' # {},
             on' = on \/ "HEAD" \in changed'
      PROVE  HeadInv'
  <2>1. Watched' /\ GivenRef'
    BY <1>2 DEF Watched, GivenRef
  <2>2. SealedIsHead'
    BY <1>2 DEF SealedIsHead, Noticed
  <2>3. StillHead'
    BY <1>2 DEF StillHead
  <2>. QED BY <2>1, <2>2, <2>3
<1>3. CASE Edits BY <1>1, <1>3 DEF Edits
<1>4. CASE Restores BY <1>1, <1>4 DEF Restores
<1>5. CASE Packs BY <1>1, <1>5 DEF Packs
<1>6. ASSUME NEW l \in Locks, EditsLock(l) PROVE HeadInv'
  BY <1>1, <1>6 DEF EditsLock
<1>7. CASE CommitsTree
  <2>1. on \in Branches => changed' = changed \cup {on}
    BY <1>7 DEF CommitsTree
  <2>2. on \notin Branches => changed' = changed \cup {"HEAD"}
    BY <1>7 DEF CommitsTree
  <2>3. Spoken => HeadChanged \cap changed' # {}
    BY <2>1, <2>2 DEF Watched, BuildTypeOK
  <2>. QED BY <1>2, <1>7, <2>3 DEF CommitsTree
<1>8. ASSUME NEW b \in Branches \cup {Detached}, NEW c \in Commits, Switches(b, c)
      PROVE  HeadInv'
  BY <1>2, <1>8 DEF Switches
<1>9. ASSUME NEW r \in References, Exports(r) PROVE HeadInv'
  <2>1. HeadCommit' = HeadCommit /\ pc = "idle" /\ pc' = "idle"
    BY <1>9 DEF Exports, HeadCommit
  <2>2. Watched' /\ GivenRef' /\ StillHead'
    BY <1>9, <2>1 DEF Exports, Watched, GivenRef, StillHead
  <2>3. SealedIsHead'
    BY <1>9, <2>1 DEF Exports, SealedIsHead, Noticed
  <2>. QED BY <2>2, <2>3
<1>. QED BY <1>3, <1>4, <1>5, <1>6, <1>7, <1>8, <1>9 DEF Works

LEMMA BuildsHead == ASSUME BuildInv, Builds PROVE HeadInv'
<1>. USE DEF HeadInv, BuildInv, Spoken, HeadChanged
<1>1. CASE UsesWhatItHas
  <2>1. HeadCommit' = HeadCommit
    BY <1>1 DEF UsesWhatItHas, HeadCommit
  <2>2. ran /\ Watched /\ tracked \cap changed = {} /\ ref = sealedRef
    BY <1>1 DEF UsesWhatItHas, Stale, Watched
  <2>3. ref \notin Commits => sealed.commit \in {HeadCommit, Unknown}
    BY <2>2 DEF SealedIsHead, Noticed, Watched
  <2>4. Watched' /\ GivenRef' /\ StillHead'
    BY <1>1, <2>1, <2>2, <2>3 DEF UsesWhatItHas, Watched, GivenRef, StillHead
  <2>5. SealedIsHead'
    BY <1>1, <2>1, <2>2 DEF UsesWhatItHas, SealedIsHead, Noticed
  <2>. QED BY <2>4, <2>5
<1>2. CASE RunsScript
  <2>1. Watched' /\ GivenRef'
    BY <1>2 DEF RunsScript, Watched, GivenRef, Tracks, BuildTypeOK
  <2>2. CASE Told
    <3>1. sealed'.commit = ref /\ ref \in Commits
      BY <1>2, <2>2 DEF RunsScript, Told
    <3>. QED BY <1>2, <2>1, <3>1 DEF RunsScript, SealedIsHead, StillHead
  <2>3. CASE ~Told
    BY <1>2, <2>1, <2>3 DEF RunsScript, SealedIsHead, StillHead
  <2>. QED BY <2>2, <2>3
<1>3. CASE NamesHead
  <2>1. HeadCommit' = HeadCommit /\ sealed'.commit = HeadCommit
    BY <1>3 DEF NamesHead, OnlyId, HeadCommit
  <2>2. ref \notin Commits
    BY <1>3 DEF NamesHead, ScriptAsks
  <2>. QED BY <1>3, <2>1, <2>2
         DEF NamesHead, OnlyId, Watched, SealedIsHead, GivenRef, StillHead
<1>4. CASE NamesNothing
  <2>1. sealed'.commit = Unknown
    BY <1>4 DEF NamesNothing
  <2>2. ref \notin Commits
    BY <1>4 DEF NamesNothing, ScriptAsks
  <2>. QED BY <1>4, <2>1, <2>2
         DEF NamesNothing, OnlyId, Watched, SealedIsHead, GivenRef, StillHead
<1>5. ASSUME pc \in {"status", "link"}, pc' \in {"link", "compile"},
             sealed'.commit = sealed.commit,
             UNCHANGED <<repo, changed, tracked, sealedRef, stirred>>
      PROVE  HeadInv'
  <2>1. HeadCommit' = HeadCommit
    BY <1>5 DEF HeadCommit
  <2>. QED BY <1>5, <2>1 DEF Watched, SealedIsHead, Noticed, GivenRef, StillHead
<1>6. CASE LooksAtTree
  BY <1>5, <1>6 DEF LooksAtTree, OnlyId, BuildTypeOK
<1>7. CASE StatusFails
  BY <1>5, <1>7 DEF StatusFails, OnlyId
<1>8. CASE ReadsLock
  BY <1>5, <1>8 DEF ReadsLock
<1>9. ASSUME pc' = "idle", ran' => ran, UNCHANGED <<repo, changed, tracked, sealed, sealedRef>>
      PROVE  HeadInv'
  <2>1. HeadCommit' = HeadCommit
    BY <1>9 DEF HeadCommit
  <2>. QED BY <1>9, <2>1 DEF Watched, SealedIsHead, Noticed, GivenRef, StillHead
<1>10. CASE ScriptPanics
  BY <1>9, <1>10 DEF ScriptPanics
<1>11. CASE Compiles
  BY <1>9, <1>11 DEF Compiles
<1>12. CASE CompileFails
  BY <1>9, <1>12 DEF CompileFails
<1>13. CASE Fetches
  BY <1>9, <1>13 DEF Fetches
<1>. QED BY <1>1, <1>2, <1>3, <1>4, <1>6, <1>7, <1>8, <1>10, <1>11, <1>12, <1>13
         DEF Builds

LEMMA AsksStep == ASSUME BuildInv, BuildNext PROVE ScriptAsks'
<1>1. CASE Works
  <2>1. pc' = pc /\ (pc # "idle" => ref' = ref)
    BY <1>1 DEF Works, Edits, EditsLock, Restores, CommitsTree, Switches, Packs,
                Exports, Touches
  <2>. QED BY <2>1 DEF BuildInv, ScriptAsks
<1>2. CASE Builds
  BY <1>2 DEF BuildInv, ScriptAsks, Builds, UsesWhatItHas, RunsScript, Told, NamesHead,
              NamesNothing, LooksAtTree, StatusFails, ReadsLock, ScriptPanics,
              Compiles, CompileFails, Fetches, OnlyId
<1>. QED BY <1>1, <1>2 DEF BuildNext

-----------------------------------------------------------------------------
(* The lock. *)
LEMMA WorksLib == ASSUME BuildInv, Works PROVE LibInv'
<1>. USE DEF BuildInv, LibInv, LibIsLocked, Touches, EditBound
<1>1. ASSUME UNCHANGED <<pc, ran, sealedLib>>, changed \subseteq changed',
             stirred \subseteq stirred',
             lock' # lock => /\ "Cargo.lock" \in changed'
                             /\ pc = "idle" \/ "lock" \in stirred'
      PROVE  LibInv'
  <2>1. CASE lock' = lock BY <1>1, <2>1
  <2>2. CASE lock' # lock BY <1>1, <2>2
  <2>. QED BY <2>1, <2>2
<1>2. CASE Edits BY <1>1, <1>2 DEF Edits
<1>3. CASE Restores BY <1>1, <1>3 DEF Restores
<1>4. CASE CommitsTree
  <2>1. UNCHANGED <<pc, ran, sealedLib, lock>> /\ changed \subseteq changed'
        /\ stirred \subseteq stirred'
    BY <1>4 DEF CommitsTree
  <2>. QED BY <1>1, <2>1
<1>5. CASE Packs BY <1>1, <1>5 DEF Packs
<1>6. ASSUME NEW l \in Locks, EditsLock(l) PROVE LibInv'
  BY <1>1, <1>6 DEF EditsLock
<1>7. ASSUME NEW b \in Branches \cup {Detached}, NEW c \in Commits, Switches(b, c)
      PROVE  LibInv'
  BY <1>1, <1>7 DEF Switches
<1>8. ASSUME NEW r \in References, Exports(r) PROVE LibInv'
  BY <1>1, <1>8 DEF Exports
<1>. QED BY <1>2, <1>3, <1>4, <1>5, <1>6, <1>7, <1>8 DEF Works

LEMMA BuildsLib == ASSUME BuildInv, Builds PROVE LibInv'
<1>. USE DEF BuildInv, LibInv, LibIsLocked
<1>1. CASE UsesWhatItHas
  <2>1. ran /\ "Cargo.lock" \notin changed
    BY <1>1 DEF UsesWhatItHas, Stale, Watched, Spoken
  <2>. QED BY <1>1, <2>1 DEF UsesWhatItHas
<1>2. CASE RunsScript BY <1>2 DEF RunsScript
<1>3. CASE NamesHead BY <1>3 DEF NamesHead, OnlyId
<1>4. CASE NamesNothing BY <1>4 DEF NamesNothing, OnlyId
<1>5. CASE LooksAtTree BY <1>5 DEF LooksAtTree, OnlyId
<1>6. CASE StatusFails BY <1>6 DEF StatusFails, OnlyId
<1>7. CASE ReadsLock
  <2>1. EngineLib(lock)' = EngineLib(lock)
    BY <1>7 DEF ReadsLock, EngineLib
  <2>. QED BY <1>7, <2>1 DEF ReadsLock
<1>8. CASE ScriptPanics BY <1>8 DEF ScriptPanics
<1>9. CASE Compiles BY <1>9 DEF Compiles
<1>10. CASE CompileFails BY <1>10 DEF CompileFails
<1>11. CASE Fetches BY <1>11 DEF Fetches
<1>. QED BY <1>1, <1>2, <1>3, <1>4, <1>5, <1>6, <1>7, <1>8, <1>9, <1>10, <1>11 DEF Builds

-----------------------------------------------------------------------------
LEMMA BuildStep == BuildInv /\ BuildNext => BuildInv'
BY WorksType, BuildsType, WorksHead, BuildsHead, AsksStep, WorksLib, BuildsLib
   DEF BuildNext, BuildInv, HeadInv

LEMMA BuildStutter == BuildInv /\ UNCHANGED buildVars => BuildInv'
<1>. SUFFICES ASSUME BuildInv, UNCHANGED buildVars PROVE BuildInv'
  OBVIOUS
<1>1. BuildTypeOK'
  BY DEF BuildInv, BuildTypeOK, buildVars
<1>2. HeadCommit' = HeadCommit /\ EngineLib(lock)' = EngineLib(lock)
  BY DEF HeadCommit, EngineLib, buildVars
<1>3. Watched' /\ SealedIsHead' /\ GivenRef' /\ ScriptAsks' /\ StillHead'
  BY <1>2 DEF BuildInv, buildVars, Watched, Spoken, SealedIsHead, Noticed, HeadChanged,
              GivenRef, ScriptAsks, StillHead
<1>4. LibInv'
  BY <1>2 DEF BuildInv, buildVars, LibInv, LibIsLocked
<1>. QED BY <1>1, <1>3, <1>4 DEF BuildInv

(* Whatever moves, and whether or not the script runs: its last answer is   *)
(* right, or a file that it named has changed since (build.rs: build_id).   *)
THEOREM BuildInvariant == BuildSpec => []BuildInv
BY BuildInitInv, BuildStep, BuildStutter, PTL DEF BuildSpec

(* No build seals the commit of the previous one, nor the previous lock's   *)
(* library.                                                                 *)
LEMMA InvSealsWhatIs == BuildInv => IdNamesCommit /\ LibIsLocked
BY DEF BuildInv, SealedIsHead, GivenRef, StillHead, IdNamesCommit, LibInv

(* What a build seals is so however the repository moves before it and      *)
(* between its two questions to git (build.rs: build_id, git_provenance,    *)
(* engine_lib).                                                             *)
THEOREM SealedIsTrue == BuildSpec => [](IdNamesCommit /\ LibIsLocked)
BY BuildInvariant, InvSealsWhatIs, PTL

-----------------------------------------------------------------------------
(***************************************************************************)
(* And what is handed out starts what it was meant to start.               *)
(***************************************************************************)
USE DEF buildVars, logVars, vars

(* No builder leaves a capability to the default it started from. *)
LEMMA BuildersState ==
    ASSUME NEW args, NEW upstream, NEW fresh,
           NEW node \in {Host(args, upstream, fresh), Rendezvous(args, upstream, fresh),
                         Guest(args, upstream)},
           node # Refused
    PROVE  node.on \cap Forbidden = {} /\ Required \subseteq node.on
<1>. DEFINE stated == (Base(upstream) \ OffInEach) \cup {"secure_mode"}
<1>1. stated \cap Forbidden = {} /\ Required \subseteq stated
  BY DEF Base, Flags, Forbidden, Required, OffByFlag, OffInBase, OffInEach, OnByFlag
<1>2. node.on = stated
  BY DEF Host, Rendezvous, Guest, Node
<1>. QED BY <1>1, <1>2

LEMMA StartsAllowed ==
    ASSUME NothingForbidden, NEW cmd \in {"host", "join_rendezvous", "join"},
           NEW args, NEW dir, Starts(cmd, args, dir)
    PROVE  NothingForbidden'
<1>. DEFINE node == Built(cmd, args)
<1>1. nodes' = nodes \cup ({node} \ {Refused})
  BY DEF Starts
<1>2. node \in {Host(args, defaults, Secret), Rendezvous(args, defaults, Secret),
                Guest(args, defaults)}
  BY DEF Built
<1>3. node # Refused => node.on \cap Forbidden = {} /\ Required \subseteq node.on
  BY <1>2, BuildersState
<1>. QED BY <1>1, <1>3 DEF NothingForbidden

LEMMA AllowedStep == NothingForbidden /\ [Next]_vars => NothingForbidden'
<1>. SUFFICES ASSUME NothingForbidden, [Next]_vars PROVE NothingForbidden'
  OBVIOUS
<1>1. ASSUME nodes' = nodes PROVE NothingForbidden'
  BY <1>1 DEF NothingForbidden
<1>2. CASE UNCHANGED vars \/ Develops \/ Ships
  BY <1>1, <1>2 DEF Develops, Ships, Launches
<1>3. CASE Writes \/ WriteFails \/ Complains
  BY <1>1, <1>3 DEF Writes, WriteFails, Complains
<1>4. ASSUME NEW m \in Messages, Emits(m) \/ Panics(m) PROVE NothingForbidden'
  BY <1>1, <1>4 DEF Emits, Panics
<1>5. CASE Runs
  BY <1>3, <1>4, <1>5, StartsAllowed DEF Runs, LogNext
<1>. QED BY <1>2, <1>5 DEF Next

(* Whatever EasyTier turns on by default, no instance starts with what the  *)
(* product forbids or without what it rests on (config.rs: base, flags).    *)
THEOREM NothingForbiddenEver == Spec => []NothingForbidden
<1>1. Init => NothingForbidden
  BY DEF Init, LogInit, NothingForbidden
<1>. QED BY <1>1, AllowedStep, PTL DEF Spec

LEMMA DeliveredBuildStep == BuildInv /\ [Next]_vars => BuildInv'
<1>. SUFFICES ASSUME BuildInv, [Next]_vars PROVE BuildInv'
  OBVIOUS
<1>1. BuildNext \/ UNCHANGED buildVars
  BY DEF Next, Develops, Ships, Runs
<1>. QED BY <1>1, BuildStep, BuildStutter

(* What is running still carries what was known of it where it was built.   *)
LEMMA DeliveredInvariant == Spec => []BuildInv
<1>1. Init => BuildInv
  BY BuildInitInv DEF Init
<1>. QED BY <1>1, DeliveredBuildStep, PTL DEF Spec

(* The commit on a binary that was handed out is not a previous build's     *)
(* (build.rs: build_id).                                                    *)
THEOREM DeliveredNamesCommit == Spec => []IdNamesCommit
BY DeliveredInvariant, InvSealsWhatIs, PTL

(* Nor is its library a previous lock's (build.rs: engine_lib).             *)
THEOREM DeliveredNamesLib == Spec => []LibIsLocked
BY DeliveredInvariant, InvSealsWhatIs, PTL

(***************************************************************************)
(* And the log of what is handed out.                                      *)
(***************************************************************************)
LEMMA DeliveredLogStep == LogInv /\ [Next]_vars => LogInv'
<1>. SUFFICES ASSUME LogInv, [Next]_vars PROVE LogInv'
  OBVIOUS
<1>1. Launches \/ LogNext \/ UNCHANGED logVars
  BY DEF Next, Develops, Ships, Runs
<1>. QED BY <1>1, LogStep

LEMMA DeliveredLogInvariant == Spec => []LogInv
<1>1. Init => LogInv
  BY LogInitInv DEF Init
<1>. QED BY <1>1, DeliveredLogStep, PTL DEF Spec

(* Each of the variables keeps its type, the log's texts among them.        *)
THEOREM DeliveryTypes == Spec => []TypeOK
<1>1. BuildInv /\ LogInv => TypeOK
  BY DEF BuildInv, LogInv, TypeOK
<1>. QED BY <1>1, DeliveredInvariant, DeliveredLogInvariant, PTL

(* No value of a sensitive field is in the file or in what a panic said,    *)
(* whatever is logged as long as its format announces its values, and       *)
(* wherever a write stops (log.rs: redactar, install_panic_hook).           *)
THEOREM DeliveredSecretsStayOut == Spec => []SecretsStayOut
BY DeliveredLogInvariant, LogInvSafe, PTL

(* And nothing else is lost: while no write has failed, the file tells of   *)
(* every line once and in order (log.rs: SinSecretosWriter::write).         *)
THEOREM DeliveredLogIsWhole == Spec => []LogIsWhole
BY DeliveredLogInvariant, LogInvSafe, PTL
=============================================================================
