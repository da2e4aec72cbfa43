---------------------------- MODULE PhaseMachine ----------------------------
(***************************************************************************)
(* What status.indexingPhase promises to a user who watches it.  Whoever   *)
(* moves the phase works on a copy of the object that may be older than    *)
(* the object: `views` are the phases that the object and the copies still *)
(* in use show.  A new phase follows an edge from one of them, and a phase *)
(* that no copy shows any more is forgotten for good.  When no older copy  *)
(* is left the phases follow the edges, and Completed and Failed are       *)
(* final.  The object can go away from any phase.                          *)
(***************************************************************************)
VARIABLES phase, views

Edges ==
  { <<"None", "Pending">>,
    <<"Pending", "Scheduled">>, <<"Pending", "Suspended">>,
    <<"Pending", "Running">>, <<"Pending", "Failed">>,
    <<"Scheduled", "Suspended">>, <<"Scheduled", "Running">>,
    <<"Scheduled", "DriftRemediation">>,
    <<"Suspended", "Scheduled">>,
    <<"Running", "Scheduled">>, <<"Running", "Completed">>,
    <<"Running", "Failed">>,
    <<"DriftRemediation", "Pending">> }

Init == phase = "None" /\ views = {"None"}

Advance ==
  /\ phase # "Gone"
  /\ \E view \in views : <<view, phase'>> \in Edges
  /\ views' \subseteq views \cup {phase'}

Forget ==
  /\ phase' = phase
  /\ views' \subseteq views

Vanish ==
  /\ phase' = "Gone"
  /\ views' \subseteq views

Next == Advance \/ Forget \/ Vanish

Spec == Init /\ [][Next]_<<phase, views>>
=============================================================================
