--------------------------- MODULE CredentialLife ---------------------------
(***************************************************************************)
(* What a credential is to the product: one member's way in.  It is issued *)
(* once, it ends once (revoked, expired, or gone with its room), and what  *)
(* has ended lets nobody in again.                                         *)
(*                                                                         *)
(* Credentials implements this module; see Life there.                     *)
(***************************************************************************)
CONSTANTS Ids, Guests

VARIABLES
    unissued,   \* ids that do not exist yet
    live,       \* ids that let their holder in
    inside      \* [Guests -> SUBSET Ids]: what each guest is inside on

vars == <<unissued, live, inside>>

Init ==
    /\ unissued = Ids /\ live = {}
    /\ inside = [g \in Guests |-> {}]

Issue(c) ==
    /\ c \in unissued
    /\ unissued' = unissued \ {c} /\ live' = live \cup {c}
    /\ UNCHANGED inside

End(ended) ==
    /\ live' = live \ ended
    /\ UNCHANGED <<unissued, inside>>

(* Alone on its credential: whoever was inside on it is put out. *)
Enter(g, c) ==
    /\ c \in live
    /\ inside' = [h \in Guests |-> IF h = g THEN {c} ELSE inside[h] \ {c}]
    /\ UNCHANGED <<unissued, live>>

Leave(out) ==
    /\ inside' = [g \in Guests |-> IF g \in out THEN {} ELSE inside[g]]
    /\ UNCHANGED <<unissued, live>>

Next ==
    \/ \E c \in Ids : Issue(c)
    \/ \E ended \in SUBSET Ids : End(ended)
    \/ \E g \in Guests, c \in Ids : Enter(g, c)
    \/ \E out \in SUBSET Guests : Leave(out)

Spec == Init /\ [][Next]_vars
=============================================================================
