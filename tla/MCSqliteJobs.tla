----------------------------- MODULE MCSqliteJobs ------------------------------
(* Instances of SqliteJobs for TLC: two processes with one worker each.    *)
EXTENDS SqliteJobs, TLC

CONSTANTS p1, p2, w1, w2

MCHost == (w1 :> p1) @@ (w2 :> p2)

\* The first job is mail, the second a report.
MCQueueOf == (1 :> "mail") @@ (2 :> "reports")
OneQueue == (1 :> "mail")

\* Both processes listen for everything; or one of them for mail alone and the
\* other for nothing, so that nobody takes the reports.
Alike == [p \in Process |-> {"mail", "reports"}]
Apart == (p1 :> {"mail"}) @@ (p2 :> {})
MCConfigs == {Alike, Apart}
Mail == {p1 :> {"mail"} @@ p2 :> {"mail"}}
=============================================================================
