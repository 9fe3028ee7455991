----------------------------- MODULE MCPeerSocket ---------------------------
(* An instance of PeerSocket: two calls, with task ids of their own or one     *)
(* between them, over up to three connections.                                 *)
EXTENDS PeerSocket
=============================================================================
