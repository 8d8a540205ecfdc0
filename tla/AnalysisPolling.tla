-------------------------- MODULE AnalysisPolling --------------------------
(***************************************************************************)
(* The analysis job as the dashboard of the web edition shows it           *)
(* (leaguepilot-dashboard.tsx): a click shows it as queued, the answer of   *)
(* the analysis route replaces that, and while it counts as active the     *)
(* bootstrap route is asked every four seconds.                            *)
(***************************************************************************)
EXTENDS Naturals, FiniteSets

CONSTANTS
    MaxClicks,   \* how often an analysis is asked for
    MaxLoads     \* bootstrap requests under way at once

Active  == {"queued", "pending", "running"}
Ended   == {"succeeded", "dead-letter"}
NoJob   == "none"

VARIABLES
    job,       \* the job of the analysis asked for last, in the database
    shown,     \* analysisJob: the status the page shows
    loads,     \* how many bootstrap requests are under way
    answers,   \* their answers: the jobs each lists
    asking,    \* the analysis request: "none", "sent", or the status it is answered with
    clicks

pollVars == <<job, shown, loads, answers, asking, clicks>>

-----------------------------------------------------------------------------
\* loadBootstrap, from a timer while the job counts as active, or by the Refresh button.
LoadBootstrap ==
    /\ loads + Cardinality(answers) < MaxLoads
    /\ loads' = loads + 1
    /\ UNCHANGED <<job, shown, answers, asking, clicks>>

Polls == shown \in Active /\ LoadBootstrap

\* What the bootstrap route answers is a profile and a workspace.
BootstrapJobs == {}

ServerAnswers ==
    /\ loads > 0
    /\ loads' = loads - 1
    /\ answers' = answers \cup {BootstrapJobs}
    /\ UNCHANGED <<job, shown, asking, clicks>>

\* An error is shown, and the job stays what it was.
BootstrapFails ==
    /\ loads > 0
    /\ loads' = loads - 1
    /\ UNCHANGED <<job, shown, answers, asking, clicks>>

\* The first job of the answer, if it lists any.
AnswerShown ==
    \E jobs \in answers :
        /\ answers' = answers \ {jobs}
        /\ IF jobs = {} THEN UNCHANGED shown ELSE shown' \in jobs
        /\ UNCHANGED <<job, loads, asking, clicks>>

-----------------------------------------------------------------------------
\* runAnalysis: the buttons of the page are disabled while it shows an active job, that of
\* the context bar while its own rows do.
RunAnalysis ==
    /\ clicks < MaxClicks
    /\ shown \notin Active \/ job \notin Active
    /\ asking = "none"
    /\ clicks' = clicks + 1
    /\ shown' = "queued"
    /\ asking' = "sent"
    /\ UNCHANGED <<job, loads, answers>>

\* The route enqueues a job, or finds the one of the same minute, whatever has become of it.
AnalysisRoute ==
    /\ asking = "sent"
    /\ \/ job' = "queued"
       \/ job # NoJob /\ UNCHANGED job
    /\ asking' = job'
    /\ UNCHANGED <<shown, loads, answers, clicks>>

AnalysisAnswered ==
    /\ asking \notin {"none", "sent"}
    /\ shown' = asking
    /\ asking' = "none"
    /\ UNCHANGED <<job, loads, answers, clicks>>

\* The request is refused, or it or its answer is lost.
AnalysisFails ==
    /\ asking # "none"
    /\ shown' = "failed"
    /\ asking' = "none"
    /\ UNCHANGED <<job, loads, answers, clicks>>

\* The job is claimed, ends, or is queued once more.
JobMoves ==
    /\ \/ job = "queued" /\ job' = "running"
       \/ job = "running" /\ job' \in Ended \cup {"queued"}
    /\ UNCHANGED <<shown, loads, answers, asking, clicks>>

-----------------------------------------------------------------------------
PollInit ==
    /\ job \in {NoJob} \cup Ended
    /\ shown = NoJob
    /\ loads = 1 /\ answers = {}
    /\ asking = "none" /\ clicks = 0

PollNext ==
    \/ LoadBootstrap \/ Polls \/ ServerAnswers \/ BootstrapFails \/ AnswerShown
    \/ RunAnalysis \/ AnalysisRoute \/ AnalysisAnswered \/ AnalysisFails \/ JobMoves

\* Timers fire, not every request fails, and the worker brings every job to an end, as
\* EveryJobSettles says of the queue.
PollFairness ==
    /\ WF_pollVars(Polls) /\ SF_pollVars(ServerAnswers) /\ WF_pollVars(AnswerShown)
    /\ WF_pollVars(AnalysisRoute \/ AnalysisAnswered)
    /\ SF_pollVars(job = "queued" /\ JobMoves)
    /\ SF_pollVars(job = "running" /\ JobMoves /\ job' \in Ended)

PollSpec == PollInit /\ [][PollNext]_pollVars /\ PollFairness

-----------------------------------------------------------------------------
\* A page that shows an analysis as queued or running goes on to show how it ended ("Live
\* status will refresh automatically", leaguepilot-dashboard.tsx:276; "Live job polling |
\* Implemented", docs/WEB_DASHBOARD_HANDOFF.md:300).
AnalysisIsFollowed == shown \in Active ~> shown \notin Active
=============================================================================
