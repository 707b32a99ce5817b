---------------------------- MODULE ClientProfiles ----------------------------
(***************************************************************************)
(* CLIENT_PROFILES of generator/synthetic_generator.py, as far as the      *)
(* modules about the generator share it.                                   *)
(***************************************************************************)
CONSTANT Client   (* the names of the clients                              *)

=============================================================================
