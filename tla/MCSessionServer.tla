--------------------------- MODULE MCSessionServer ---------------------------
(***************************************************************************)
(* SessionServer on small instances: its requests are model values.        *)
(***************************************************************************)
EXTENDS SessionServer
=============================================================================
