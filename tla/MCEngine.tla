------------------------------ MODULE MCEngine ------------------------------
(* The daemon's vocabularies for TLC, each small enough to be exhausted. *)
EXTENDS Engine

RoomStart(cmd, mtu, dir) == [cmd |-> cmd, mtu |-> mtu, log_dir |-> dir]
Plain(cmds) == [cmd : cmds]

(* What moves instances about, settles the log, and asks which room is up. *)
SlotLines ==
    {RoomStart("host", 1200, FALSE), RoomStart("join", NoMtu, FALSE),
     RoomStart("join_rendezvous", NoMtu, TRUE)}
        \cup Plain({"leave", "leave_rendezvous", "peers"})

(* What a diagnosis reports. *)
MtuLines ==
    {RoomStart("host", NoMtu, FALSE), RoomStart("join", 1200, FALSE)}
        \cup Plain({"diagnostics"})

(* What the channel and the way out depend on: a start, a call, and a line   *)
(* that is skipped, one that is refused, and one that ends the reading.      *)
ChannelLines ==
    {RoomStart("host", NoMtu, FALSE)}
        \cup Plain({"peers", "anonymous", "unreadable", "undecodable"})
=============================================================================
