---------------------------- MODULE MCJobWorkers -----------------------------
(* Instances of JobWorkers for TLC. *)
EXTENDS JobWorkers

CONSTANTS w1, w2, default, mail, audit

\* Two queues the workers pull from, in this order, and one they do not.
MCListed == <<default, mail>>
=============================================================================
