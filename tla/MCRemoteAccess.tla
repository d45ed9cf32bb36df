--------------------------- MODULE MCRemoteAccess ---------------------------
(* Small instances of RemoteAccess for TLC.                                *)
EXTENDS RemoteAccess
=============================================================================
