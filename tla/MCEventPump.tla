---------------------------- MODULE MCEventPump ----------------------------
(* The vocabularies of the bus for TLC. *)
EXTENDS EventPump

(* One kind of each translation, and both kinds a wait begins with. *)
OneOfEach == {"PeerAdded", "PeerConnAdded", "PeerRemoved", "ConnectError",
              "TunDeviceReady", "TunDeviceError", "ListenerAdded"}

(* What the member list and the adapter's fate depend on. *)
MembersAndAdapter == {"PeerAdded", "PeerConnAdded", "CredentialChanged",
                      "TunDeviceError"}
=============================================================================
