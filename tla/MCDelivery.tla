----------------------------- MODULE MCDelivery -----------------------------
EXTENDS Delivery, MCBuildIdentity, TLC

(* Nothing tells one branch from another. *)
MCSymmetry == Permutations(Branches)

(* A Debug of an identity, two values on one line; a value without a        *)
(* separator, and a public line; a name with nothing after it; one name     *)
(* twice; nothing to hide.                                                  *)
MCMessages ==
    {<<Word, ":", Space, Word, "network_secret", ":", Space, Secret, Space,
       "local_private_key", ":", Space, Secret, "=">>,
     <<Word, Space, "credential_secret", Space, Secret, NewLine, Word, "=", Word>>,
     <<"network_secret", NewLine>>,
     <<"credential_secret", "=", Space, Space, Secret, "credential_secret", Secret>>,
     <<Word, "=", Word, NewLine, Word>>}

Accepted ==
    [peers_parse |-> TRUE, ipv4_parses |-> TRUE, credential_parses |-> TRUE,
     keypair_made |-> TRUE, network_name |-> "room", network_secret |-> Secret,
     credential_secret |-> Secret]
MCStartArgs ==
    {Accepted, [Accepted EXCEPT !.ipv4_parses = FALSE],
     [Accepted EXCEPT !.credential_parses = FALSE],
     [Accepted EXCEPT !.keypair_made = FALSE]}

MCUpstreamDefaults == {{}, Capabilities}
=============================================================================
