---------------------------- MODULE MCPipeWriter ----------------------------
(***************************************************************************)
(* Two threads send to one client; two messages may wait.                  *)
(***************************************************************************)
EXTENDS PipeWriter

CONSTANTS main, server
MCSenders == {main, server}
=============================================================================
