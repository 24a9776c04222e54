---------------------------- MODULE MCOpampClient ----------------------------
(* Small instances of OpampClient for TLC.                                 *)
EXTENDS OpampClient

CONSTANTS good, bad, initial, noop, garbage

TwoRemotes == {good, bad}
AnyRemote == {good, bad, initial}
InvalidConfigs == {bad, garbage}
=============================================================================
