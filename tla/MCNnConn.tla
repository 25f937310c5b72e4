------------------------------ MODULE MCNnConn ------------------------------
(* Small instances of NnConn: one connection, a model value.                *)
EXTENDS NnConn
=============================================================================
