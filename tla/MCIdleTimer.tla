---------------------------- MODULE MCIdleTimer ----------------------------
EXTENDS IdleTimer

(* Whether there was a failure the service does not make up for. *)
VARIABLE broken

MCInit == Init /\ broken = FALSE
MCNext == ((Work \/ Miss) /\ UNCHANGED broken) \/ (Break /\ broken' = TRUE)
MCSpec == MCInit /\ [][MCNext]_<<vars, broken>> /\ Fairness

(* Lost webhooks and failed reads of the limit do not keep an idle session   *)
(* from being found; a restart may (main.go 75-118, 158).                    *)
IdleFoundUnlessBroken == [](~broken) => IdleFound

(* Likewise a session that draws power again becomes legal again, unless the *)
(* update that says so fails (main.go 79-90).                                *)
ResumptionUnlessBroken == [](~broken) => ResumptionRestores
=============================================================================
