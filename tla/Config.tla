------------------------------- MODULE Config -------------------------------
(***************************************************************************)
(* The configuration a start command becomes (src/src/config.rs).  Every   *)
(* builder starts from EasyTier's defaults, `defaults` below, and states   *)
(* each capability whatever the default says; a field it cannot parse      *)
(* refuses the whole command.                                              *)
(*                                                                         *)
(* A capability is on or off: a set holds those that are on.  One record   *)
(* of arguments serves the three commands; it keeps what decides the       *)
(* outcome (what parses, the identity, the keys), and a builder that does  *)
(* not read a field has no such field.                                     *)
(***************************************************************************)
CONSTANTS NoSecret,     \* a network identity without a secret
          Refused       \* the builder returned an error

(* What the product never turns on, by who would otherwise decide it. *)
OffByFlag == {"upnp", "exit_node", "magic_dns", "udp_broadcast_relay", "no_tun"}
OffInBase == {"listeners", "mapped_listeners", "exit_nodes", "proxy_cidrs",
              "routes", "socks5_portal", "port_forwards", "credential_file"}
OffInEach == {"dhcp"}
Forbidden == OffByFlag \cup OffInBase \cup OffInEach
OnByFlag == {"bind_device", "private_mode", "encryption"}
Required == OnByFlag \cup {"secure_mode"}
Capabilities == Forbidden \cup Required

Flags(defaults) == (defaults \ OffByFlag) \cup OnByFlag

Base(defaults) == Flags(defaults) \ OffInBase

Node(args, defaults, secret, key) ==
    [name |-> args.network_name, secret |-> secret, key |-> key,
     on |-> (Base(defaults) \ OffInEach) \cup {"secure_mode"}]

Accepts(args) == args.peers_parse /\ args.ipv4_parses

(* A key of this start's own, if one could be made. *)
Secure(args) == args.keypair_made

Host(args, defaults, fresh) ==
    IF Accepts(args) /\ Secure(args) THEN Node(args, defaults, args.network_secret, fresh)
                                     ELSE Refused

Rendezvous(args, defaults, fresh) == Host(args, defaults, fresh)

(* Variants to be caught: the guest is given the room's secret as well; its *)
(* address is left to DHCP.                                                 *)
GuestWithSecret(args, defaults) ==
    IF Accepts(args) /\ args.credential_parses
      THEN Node(args, defaults, args.network_secret, args.credential_secret)
      ELSE Refused
GuestByDhcp(args, defaults) ==
    IF Accepts(args) /\ args.credential_parses
      THEN [Node(args, defaults, NoSecret, args.credential_secret)
               EXCEPT !.on = @ \cup (defaults \cap OffInEach)]
      ELSE Refused

(* A temporary node: the credential is its key, and it holds no secret. *)
Guest(args, defaults) ==
    IF Accepts(args) /\ args.credential_parses
      THEN Node(args, defaults, NoSecret, args.credential_secret)
      ELSE Refused
=============================================================================
