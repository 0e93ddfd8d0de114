----------------------------- MODULE MCDashboard -----------------------------
(* Instances of Dashboard for TLC: a development build.                    *)
EXTENDS Dashboard

StrictModeMounts == 1 .. 2
=============================================================================
