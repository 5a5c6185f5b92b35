---------------------------- MODULE MCStateStore ----------------------------
(* Two keys, one of them selected by a prefix; entries that live one tick. *)
EXTENDS StateStore

CONSTANTS k1, k2

MCPrefixes == {{k1}, Keys}

MCTTLs == {-2, 0, 1}
=============================================================================
