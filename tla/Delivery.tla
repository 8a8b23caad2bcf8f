------------------------------ MODULE Delivery ------------------------------
(***************************************************************************)
(* One binary, from the repository to a player's machine.  Anybody may     *)
(* build; what is handed out is what CI builds from a clean checkout with  *)
(* the commit passed in (.github/workflows/build.yml, external).  Once it  *)
(* runs somewhere, the repository it came from is out of the picture.      *)
(***************************************************************************)
EXTENDS BuildIdentity, LogFile

vars == <<buildVars, logVars>>

Init == BuildInit /\ LogInit

Develops == proc = "none" /\ BuildNext /\ UNCHANGED logVars

(* A runner checks out one commit and builds it once. *)
BuiltByCI == binary.made /\ Told /\ builds = 1 /\ edits = 0 /\ commits = 1

Ships == BuiltByCI /\ Launches /\ UNCHANGED buildVars

Runs == LogNext /\ UNCHANGED buildVars

Next == Develops \/ Ships \/ Runs

Spec == Init /\ [][Next]_vars

TypeOK == BuildTypeOK /\ LogTypeOK
=============================================================================
