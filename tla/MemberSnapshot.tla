--------------------------- MODULE MemberSnapshot ---------------------------
(***************************************************************************)
(* What the daemon may take `peers` for: the members of the room and how   *)
(* each is reached, as they were at ONE instant between the question and   *)
(* the answer, or no list at all.  EventPump's re-read of the member list  *)
(* rests on nothing more.                                                  *)
(*                                                                         *)
(* MemberList implements this module; see Snapshot there.                  *)
(***************************************************************************)
CONSTANTS Peers, Paths, NoList

VARIABLES
    members,    \* the network: a path for each member
    call,       \* "idle", "asked" or "read"
    list        \* the list in hand, or NoList

Lists == UNION {[S -> Paths] : S \in SUBSET Peers}

Init ==
    /\ members \in Lists
    /\ call = "idle" /\ list = NoList

Changes ==
    /\ members' \in Lists
    /\ UNCHANGED <<call, list>>

Ask ==
    /\ call = "idle"
    /\ call' = "asked" /\ list' = NoList
    /\ UNCHANGED members

Read ==
    /\ call = "asked"
    /\ call' = "read" /\ list' = members
    /\ UNCHANGED members

Answer ==
    /\ call = "read"
    /\ call' = "idle"
    /\ UNCHANGED <<members, list>>

Fail ==
    /\ call # "idle"
    /\ call' = "idle" /\ list' = NoList
    /\ UNCHANGED members

Spec == Init /\ [][Changes \/ Ask \/ Read \/ Answer \/ Fail]_<<members, call, list>>
=============================================================================
