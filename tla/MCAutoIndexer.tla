---------------------------- MODULE MCAutoIndexer ----------------------------
(***************************************************************************)
(* The instances of AutoIndexerProperties that TLC checks.  A .cfg says    *)
(* what may fail and who may interfere; everything else happens in every   *)
(* instance.                                                               *)
(***************************************************************************)
EXTENDS AutoIndexerProperties

OneTime == {FALSE}
OnSchedule == {TRUE}

Nothing == {}
=============================================================================
