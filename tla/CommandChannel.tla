--------------------------- MODULE CommandChannel ---------------------------
(***************************************************************************)
(* What the daemon is promised on the engine's two pipes: every request    *)
(* gets at most one response, and responses come back in the order the     *)
(* requests were read (src/src/proto.rs, "The shape, and why it is this    *)
(* one").  Nothing is said of when, or of the events in between.           *)
(*                                                                         *)
(* Engine implements this module; see Channel there.                       *)
(***************************************************************************)
EXTENDS Naturals, Sequences

CONSTANT Requests

VARIABLES
    asked,      \* requests the engine has taken off its stdin, in order
    answered    \* requests whose response is complete on its stdout, in order

vars == <<asked, answered>>

Init ==
    /\ asked = <<>>
    /\ answered = <<>>

Ask(n) ==
    /\ \A i \in 1..Len(asked) : asked[i] # n
    /\ asked' = Append(asked, n)
    /\ UNCHANGED answered

(* The next response answers the oldest request without one. *)
Answer ==
    /\ Len(answered) < Len(asked)
    /\ answered' = Append(answered, asked[Len(answered) + 1])
    /\ UNCHANGED asked

Next == Answer \/ \E n \in Requests : Ask(n)

Spec == Init /\ [][Next]_vars
=============================================================================
