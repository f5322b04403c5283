-------------------------- MODULE MCDebugSessions --------------------------
(* Small instances of DebugSessions for TLC. *)
EXTENDS DebugSessions

CONSTANTS p1, p2

\* One list per way a session can claim peers: one, both, one of them twice.
MCPeerLists == {<<p1>>, <<p1, p2>>, <<p1, p1>>}
=============================================================================
