---------------------------- MODULE MCApiServer ----------------------------
(* ApiServer with one client more than there are slots. *)
EXTENDS ApiServer
=============================================================================
