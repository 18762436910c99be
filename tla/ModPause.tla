----------------------------- MODULE ModPause -----------------------------
(***************************************************************************)
(* A module is paused for a set of reasons.  Each comes and goes by        *)
(* itself; only the first and the last change what the module does.        *)
(***************************************************************************)
\* mod_check_pause: the reasons after `why' has begun or ended.
Reasons(old, pause, why) == IF pause THEN old \cup {why} ELSE old \ {why}
Pauses(old, new) == old = {} /\ new # {}
Resumes(old, new) == old # {} /\ new = {}
=============================================================================
