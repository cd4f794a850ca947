----------------------- MODULE MCSessionStoreAdapter -----------------------
(* Small instances of SessionStoreAdapter. *)
EXTENDS SessionStoreAdapter

OneChannel == {"whole", "delta"}
BothChannels == {"mixed"}
=============================================================================
