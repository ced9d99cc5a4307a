----------------------------- MODULE MCService -----------------------------
(***************************************************************************)
(* A small instance of Service: two programs, one webhook request.         *)
(***************************************************************************)
EXTENDS Service

CONSTANTS p1, p2, r1

MCPrograms == {p1, p2}
MCPosts == {r1}
=============================================================================
