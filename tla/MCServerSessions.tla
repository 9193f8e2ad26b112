---------------------------- MODULE MCServerSessions ----------------------------
(* The server for TLC: two threads of a worker that ask for permissions.         *)
EXTENDS ServerSessions, TLC

CONSTANTS a1, a2

MCAskers == {a1, a2}
================================================================================
