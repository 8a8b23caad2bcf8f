-------------------------- MODULE MCBuildIdentity --------------------------
EXTENDS BuildIdentity

(* A machine without Packet.lib where it is needed, and one that needs none. *)
MCMachines ==
    {[os |-> "windows", arch_known |-> TRUE, link_search |-> FALSE, library |-> FALSE],
     [os |-> "other", arch_known |-> TRUE, link_search |-> FALSE, library |-> FALSE]}

MCLocks == {[tag |-> "v1", version |-> "1"], [tag |-> NoTag, version |-> "1"], Unreadable}
=============================================================================
