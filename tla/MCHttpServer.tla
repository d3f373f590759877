---------------------------- MODULE MCHttpServer ----------------------------
(* The server with three connections: one callback, and other requests or
   responses beside it. *)
EXTENDS HttpServer

CONSTANTS c1, c2, c3

MCConns == {c1, c2, c3}

=============================================================================
