---------------------------- MODULE MCRebootJournal ----------------------------
(* Two runs, so that an aborted one can be rolled over; a retried arm of     *)
(* sbc1 may offer another preflight than the one that was killed.            *)
EXTENDS RebootJournal

CONSTANTS r1, r2, s1, s2, nil

MCRun == {r1, r2}
MCSnapshot == {s1, s2}
MCCollected == [sbc1 |-> {s1, s2}, sbc2 |-> {s1}]
=============================================================================
