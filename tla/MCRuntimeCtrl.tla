---------------------------- MODULE MCRuntimeCtrl ----------------------------
(* TLC instance of RuntimeCtrl: three concurrent callers. *)
EXTENDS RuntimeCtrl
=============================================================================
