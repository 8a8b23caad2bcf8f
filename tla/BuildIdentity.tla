--------------------------- MODULE BuildIdentity ---------------------------
(***************************************************************************)
(* What a binary says it was built from (src/build.rs: build_id,           *)
(* git_provenance, engine_lib; src/src/build_id.rs).                       *)
(*                                                                         *)
(* Actors: whoever works on the repository (external), at any time, during *)
(* a build too; cargo (external), which runs the build script again only   *)
(* if what the script named has changed since it last ran, and otherwise   *)
(* compiles with the answer it has; and the script, which asks git twice.  *)
(* The version in front of the id is Cargo.toml's and left out.            *)
(***************************************************************************)
EXTENDS Naturals, FiniteSets

CONSTANTS
    Branches,
    Machines,       \* what main() of the script finds to link with
    Locks,          \* what Cargo.lock may say of easytier
    Unreadable,     \* a Cargo.lock that cannot be read
    NoTag,          \* Option::None of the tag
    NoLib,          \* Option::None of the tag and of the version
    MaxCommits,     \* bound: commits
    MaxBuilds,      \* bound: builds
    MaxEdits        \* bound: changes of the tree and of the environment

ASSUME MachinesAssumption ==
    Machines \subseteq [os : {"windows", "other"}, arch_known : BOOLEAN,
                        link_search : BOOLEAN, library : BOOLEAN]
ASSUME BuildBoundsAssumption ==
    MaxCommits \in Nat \ {0} /\ MaxBuilds \in Nat /\ MaxEdits \in Nat

Commits == 1..MaxCommits
Detached == "detached"
ASSUME BranchesAssumption == Detached \notin Branches /\ Branches # {}

(* The reference the build was given: a commit, blank, or none at all. *)
Unset == 0
Blank == MaxCommits + 1
References == 0..(MaxCommits + 1)
Unknown == 0
Id == [commit : 0..MaxCommits, dirty : BOOLEAN]

(* Files under .git, and the lock; a branch's own file by its name. *)
Files == {"HEAD", "packed-refs", "Cargo.lock"} \cup Branches
Named == Files \cup {"BUILD_REF"}
ASSUME FilesAssumption == {"HEAD", "packed-refs", "Cargo.lock", "BUILD_REF"} \cap Branches = {}

VARIABLES
    machine,    \* the machine and its environment
    commits,    \* how many commits there are
    lockOf,     \* the lock each of them holds
    on,         \* the branch .git/HEAD names, or Detached
    detachedAt, \* the commit it names then
    refs,       \* the commit of each branch
    loose,      \* the branches that have a file of their own
    packed,     \* whether packed-refs exists
    edited,     \* whether the tree differs from its commit
    lock,       \* the lock in the tree
    ref,        \* KANPACHI_ENGINE_BUILD_REF
    changed,    \* the files changed since the script last began
    pc,         \* of a build: "idle", "head", "status", "link" or "compile"
    tracked,    \* the files the script last named
    ran,        \* whether it has ever finished
    sealed,     \* KANPACHI_ENGINE_BUILD: the id it last computed
    sealedRef,  \* the reference it last saw
    sealedLib,  \* KANPACHI_ENGINE_LIB
    binary,     \* [id, lib] of the last build that ended well, or NoBinary
    builds, edits,
    stirred,    \* history: what moved since this build began: the "head",
                \* the "tree" or the "lock"
    looked      \* history: the commit HEAD was at when the script last began
                \* and its `git status` answered, or Unknown if none did

repo == <<commits, lockOf, on, detachedAt, refs, loose, packed, edited, lock, ref>>
script == <<tracked, ran, sealed, sealedRef, sealedLib>>
history == <<stirred, looked>>
buildVars == <<machine, repo, changed, pc, script, binary, builds, edits, history>>

HeadCommit == IF on \in Branches THEN refs[on] ELSE detachedAt
NoId == [commit |-> Unknown, dirty |-> FALSE]
NoBinary == [id |-> NoId, lib |-> NoLib, made |-> FALSE]

BuildInit ==
    /\ machine \in Machines
    /\ commits = 1 /\ lockOf \in {[c \in Commits |-> l] : l \in Locks}
    /\ on \in Branches \cup {Detached} /\ detachedAt = 1
    /\ refs = [b \in Branches |-> 1]
    /\ loose \in SUBSET Branches /\ packed \in BOOLEAN
    /\ loose \cup {b \in Branches : packed} = Branches
    /\ edited = FALSE /\ lock = lockOf[1]
    /\ ref \in {Unset, Blank, 1}
    /\ changed = {} /\ pc = "idle"
    /\ tracked = {} /\ ran = FALSE
    /\ sealed = NoId /\ sealedRef = Unset /\ sealedLib = NoLib
    /\ binary = NoBinary /\ builds = 0 /\ edits = 0
    /\ stirred = {} /\ looked = Unknown

(***************************************************************************)
(* Whoever works on the repository (external).                             *)
(***************************************************************************)
Touches(files, what) ==
    /\ changed' = changed \cup files
    /\ stirred' = IF pc = "idle" THEN stirred ELSE stirred \cup what
    /\ UNCHANGED <<machine, pc, script, binary, builds, looked>>

EditBound == edits < MaxEdits /\ edits' = edits + 1

(* A source file: not one the script names. *)
Edits ==
    /\ EditBound /\ ~edited
    /\ edited' = TRUE
    /\ Touches({}, {"tree"})
    /\ UNCHANGED <<commits, lockOf, on, detachedAt, refs, loose, packed, lock, ref>>

EditsLock(l) ==
    /\ EditBound /\ l # lock
    /\ edited' = TRUE /\ lock' = l
    /\ Touches({"Cargo.lock"}, {"tree", "lock"})
    /\ UNCHANGED <<commits, lockOf, on, detachedAt, refs, loose, packed, ref>>

Restores ==
    /\ EditBound /\ edited
    /\ edited' = FALSE /\ lock' = lockOf[HeadCommit]
    /\ Touches(IF lock = lockOf[HeadCommit] THEN {} ELSE {"Cargo.lock"}, {"tree", "lock"})
    /\ UNCHANGED <<commits, lockOf, on, detachedAt, refs, loose, packed, ref>>

(* On a branch the branch's file is written, and HEAD itself when detached. *)
CommitsTree ==
    /\ commits < MaxCommits /\ edited
    /\ commits' = commits + 1
    /\ lockOf' = [lockOf EXCEPT ![commits'] = lock]
    /\ IF on \in Branches
         THEN /\ refs' = [refs EXCEPT ![on] = commits']
              /\ loose' = loose \cup {on}
              /\ Touches({on}, {"head", "tree"}) /\ UNCHANGED detachedAt
         ELSE /\ detachedAt' = commits'
              /\ Touches({"HEAD"}, {"head", "tree"}) /\ UNCHANGED <<refs, loose>>
    /\ edited' = FALSE
    /\ UNCHANGED <<on, packed, lock, ref, edits>>

Switches(b, c) ==
    /\ EditBound /\ ~edited
    /\ on' = b
    /\ IF b \in Branches THEN c = refs[b] ELSE c <= commits
    /\ detachedAt' = c
    /\ <<b, c>> # <<on, HeadCommit>>
    /\ lock' = lockOf[c]
    /\ Touches({"HEAD"} \cup IF lock' = lock THEN {} ELSE {"Cargo.lock"}, {"head", "lock"})
    /\ UNCHANGED <<commits, lockOf, refs, loose, packed, edited, ref>>

(* git gc: the branches' own files go. *)
Packs ==
    /\ EditBound
    /\ loose' = {} /\ packed' = TRUE
    /\ Touches({"packed-refs"}, {})
    /\ UNCHANGED <<commits, lockOf, on, detachedAt, refs, edited, lock, ref>>

(* A running build keeps the environment it was given. *)
Exports(r) ==
    /\ pc = "idle"
    /\ EditBound /\ r \in {Unset, Blank} \cup 1..commits /\ r # ref
    /\ ref' = r
    /\ Touches({}, {})
    /\ UNCHANGED <<commits, lockOf, on, detachedAt, refs, loose, packed, edited, lock>>

Works ==
    \/ Edits \/ Restores \/ CommitsTree \/ Packs
    \/ \E l \in Locks : EditsLock(l)
    \/ \E b \in Branches \cup {Detached}, c \in Commits : Switches(b, c)
    \/ \E r \in References : Exports(r)

(***************************************************************************)
(* cargo (external): a file that is missing counts as changed.             *)
(***************************************************************************)
Missing == (Branches \ loose) \cup (IF packed THEN {} ELSE {"packed-refs"})
Stale ==
    \/ ~ran
    \/ "BUILD_REF" \in tracked /\ ref # sealedRef
    \/ tracked \cap (changed \cup Missing) # {}

(* What stirs is of the build that runs. *)
Forgets == stirred' = {} /\ UNCHANGED looked

UsesWhatItHas ==
    /\ pc = "idle" /\ builds < MaxBuilds /\ ~Stale
    /\ builds' = builds + 1 /\ pc' = "compile"
    /\ UNCHANGED <<machine, repo, changed, script, binary, edits, history>>

(***************************************************************************)
(* The script.  It names the files first, reading .git/HEAD for one of     *)
(* them; cargo counts their changes from here.                             *)
(***************************************************************************)
(* Variants to be caught: the symbolic reference alone; the lock is not     *)
(* named.                                                                   *)
TracksHeadOnly == {"BUILD_REF", "HEAD", "packed-refs", "Cargo.lock"}
TracksNoLock == {"BUILD_REF", "HEAD", "packed-refs"} \cup ({on} \cap Branches)

Tracks == {"BUILD_REF", "HEAD", "packed-refs", "Cargo.lock"} \cup ({on} \cap Branches)

(* Variant to be caught: a blank reference counts. *)
ToldEvenBlank == ref # Unset

(* Trimmed, and a blank one is none. *)
Told == ref \in Commits

(* Whenever cargo calls it stale, and at other times too: for the variables *)
(* the linking and the version resource name, which answer nothing here.    *)
RunsScript ==
    /\ pc = "idle" /\ builds < MaxBuilds
    /\ builds' = builds + 1
    /\ changed' = {} /\ tracked' = Tracks /\ ran' = FALSE /\ sealedRef' = ref
    /\ looked' = Unknown /\ UNCHANGED stirred
    /\ IF Told
         THEN pc' = "link" /\ sealed' = [commit |-> ref, dirty |-> FALSE]
         ELSE pc' = "head" /\ UNCHANGED sealed
    /\ UNCHANGED <<machine, repo, sealedLib, binary, edits>>

OnlyId == UNCHANGED <<machine, repo, changed, tracked, ran, sealedRef, sealedLib,
                      binary, builds, edits, stirred>>

NamesHead ==
    /\ pc = "head"
    /\ pc' = "status" /\ sealed' = [commit |-> HeadCommit, dirty |-> FALSE]
    /\ OnlyId /\ UNCHANGED looked

(* No git, or no repository. *)
NamesNothing ==
    /\ pc = "head"
    /\ pc' = "link" /\ sealed' = [commit |-> Unknown, dirty |-> FALSE]
    /\ OnlyId /\ UNCHANGED looked

LooksAtTree ==
    /\ pc = "status"
    /\ pc' = "link" /\ sealed' = [sealed EXCEPT !.dirty = edited]
    /\ OnlyId /\ looked' = HeadCommit

(* unwrap_or(false) *)
StatusFails ==
    /\ pc = "status"
    /\ pc' = "link"
    /\ OnlyId /\ UNCHANGED <<sealed, looked>>

(* The tag it was resolved from, the version otherwise, never a guess. *)
EngineLib(l) ==
    IF l = Unreadable THEN NoLib
    ELSE IF l.tag # NoTag THEN l.tag ELSE l.version

(* main(): a Windows build that finds no Packet.lib panics. *)
CannotLink ==
    /\ machine.os = "windows" /\ ~machine.link_search
    /\ machine.arch_known /\ ~machine.library

(* A script that fails has named nothing: it runs again next time. *)
ScriptPanics ==
    /\ pc = "link" /\ CannotLink
    /\ pc' = "idle" /\ Forgets
    /\ UNCHANGED <<machine, repo, changed, script, binary, builds, edits>>

ReadsLock ==
    /\ pc = "link" /\ ~CannotLink
    /\ pc' = "compile" /\ sealedLib' = EngineLib(lock) /\ ran' = TRUE
    /\ UNCHANGED <<machine, repo, changed, tracked, sealed, sealedRef, binary,
                   builds, edits, history>>

(* env!(): what is sealed into the binary is what the script last said. *)
Compiles ==
    /\ pc = "compile"
    /\ pc' = "idle" /\ binary' = [id |-> sealed, lib |-> sealedLib, made |-> TRUE]
    /\ Forgets
    /\ UNCHANGED <<machine, repo, changed, script, builds, edits>>

(* Or it does not compile. *)
CompileFails ==
    /\ pc = "compile"
    /\ pc' = "idle" /\ Forgets
    /\ UNCHANGED <<machine, repo, changed, script, binary, builds, edits>>

Fetches ==
    /\ pc = "idle" /\ ~machine.library
    /\ machine' = [machine EXCEPT !.library = TRUE]
    /\ UNCHANGED <<repo, changed, pc, script, binary, builds, edits, history>>

Builds ==
    \/ UsesWhatItHas \/ RunsScript \/ NamesHead \/ NamesNothing
    \/ LooksAtTree \/ StatusFails \/ ReadsLock \/ ScriptPanics
    \/ Compiles \/ CompileFails \/ Fetches

BuildNext == Works \/ Builds

BuildSpec == BuildInit /\ [][BuildNext]_buildVars

-----------------------------------------------------------------------------
BuildTypeOK ==
    /\ machine \in [os : {"windows", "other"}, arch_known : BOOLEAN,
                    link_search : BOOLEAN, library : BOOLEAN]
    /\ commits \in Commits /\ lockOf \in [Commits -> Locks]
    /\ on \in Branches \cup {Detached} /\ detachedAt \in 1..commits
    /\ refs \in [Branches -> 1..commits]
    /\ loose \subseteq Branches /\ packed \in BOOLEAN
    /\ edited \in BOOLEAN /\ lock \in Locks /\ ref \in References
    /\ changed \subseteq Files /\ tracked \subseteq Named
    /\ pc \in {"idle", "head", "status", "link", "compile"}
    /\ ran \in BOOLEAN /\ sealed \in Id /\ sealedRef \in References
    /\ builds \in 0..MaxBuilds /\ edits \in 0..MaxEdits
    /\ stirred \subseteq {"head", "tree", "lock"}
    /\ looked \in 0..MaxCommits

(* No build seals the commit of the PREVIOUS one: whether or not the script *)
(* runs in it, and whatever moved before it, a build during which HEAD      *)
(* stands still seals the commit it was told or the one HEAD is at, or none *)
(* (build.rs: build_id, "the exact lie this id exists to kill").            *)
IdNamesCommit ==
    pc = "compile" /\ "head" \notin stirred =>
        sealed.commit \in IF ref \in Commits THEN {ref} ELSE {HeadCommit, Unknown}

(* And it seals the library its own Cargo.lock resolves to (engine_lib).    *)
LibIsLocked == pc = "compile" /\ "lock" \notin stirred => sealedLib = EngineLib(lock)

(* What is said of an id and the script does not always do: a clean one     *)
(* names the very commit whose tree git called clean (build.rs:186-187, the *)
(* provenance "says which exact code produced the binary").  But HEAD is    *)
(* asked for first and the tree looked at afterwards.                       *)
CleanIsThatCommit ==
    pc = "compile" /\ looked # Unknown /\ ~sealed.dirty => sealed.commit = looked
=============================================================================
