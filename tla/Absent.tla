-------------------------------- MODULE Absent --------------------------------
(***************************************************************************)
(* Python's None, shared by the modules that Server composes.              *)
(***************************************************************************)
CONSTANT None
=============================================================================
