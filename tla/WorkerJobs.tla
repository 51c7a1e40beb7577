------------------------------ MODULE WorkerJobs ------------------------------
(***************************************************************************)
(* The jobs that bring news and LLM reviews into the database              *)
(* (app/workers/jobs.py and tasks.py, news_service.py, decision_engine.py) *)
(* and the requests that call the same services, on top of the event log   *)
(* they report to.                                                         *)
(*                                                                         *)
(* A scheduled job works in a session of its own; its outcome is then a    *)
(* row of the event log, in another session whose failure is only logged.  *)
(* A request answers its caller instead.  Two schedulers may run, one in   *)
(* the web process and one in the worker, and a request may run beside     *)
(* both: nothing serialises them but the database.                         *)
(***************************************************************************)
EXTENDS EventFeed

CONSTANTS
  JobOf,            \* the job each writer runs
  Scheduled,        \* writers that are jobs of a scheduler; the others are requests
  Urls,             \* links of feed entries
  Providers,        \* LLM services considered: "disabled", "answering"
  Sweep,            \* number of symbols of symbol_allowlist, reviewed in turn
  MaxReviews        \* bound: reviews of a behaviour

ASSUME JobsAssumption ==
  /\ JobOf \in [Writers -> {"refresh_news", "llm_review"}]
  /\ Scheduled \subseteq Writers
  /\ Providers \subseteq {"disabled", "answering"}
  /\ Sweep \in Nat \ {0} /\ MaxReviews \in Nat

VARIABLES
  job,              \* where each writer is in its job
  articles,         \* urls of news_articles, a unique column
  provider,         \* what get_llm_service returns under these settings
  answers,          \* reviews the provider answered
  decisions,        \* rows of llm_decisions
  announced         \* rows of event_logs that say llm_decision

jobVars == <<job, articles, provider, answers, decisions, announced>>
jobsVars == <<feedVars, jobVars>>

Idle == [step |-> "idle", outcome |-> "none", new |-> {}, repeated |-> FALSE,
         left |-> 0]

JobsInit ==
  /\ FeedInit
  /\ job = [w \in Writers |-> Idle]
  /\ articles = {}
  /\ provider \in Providers
  /\ answers = 0 /\ decisions = 0
  /\ announced = 0

\* The work of w is over: the outcome is to be reported.
Finish(w, outcome) ==
  job' = [job EXCEPT ![w] =
            [Idle EXCEPT !.step = "report", !.outcome = outcome, !.left = job[w].left]]

-----------------------------------------------------------------------------
\* NewsService.ingest reads the feeds and looks every entry up in the table:
\* those it does not find are new.  An entry is repeated when two feeds, or one,
\* carry its link twice: it is looked up again before its first row is flushed.
FetchNews(w) ==
  /\ JobOf[w] = "refresh_news" /\ job[w].step = "idle"
  /\ \E new \in SUBSET (Urls \ articles), repeated \in BOOLEAN :
       /\ repeated => new # {}
       /\ job' = [job EXCEPT ![w] =
            [Idle EXCEPT !.step = "store", !.new = new, !.repeated = repeated]]
  /\ UNCHANGED <<feedVars, articles, provider, answers, decisions, announced>>

\* The one commit of the ingestion, which the unique url may refuse; a feed
\* or a database that fails raises as well.
StoreNews(w) ==
  /\ job[w].step = "store"
  /\ \/ /\ ~ job[w].repeated /\ job[w].new \cap articles = {}
        /\ articles' = articles \cup job[w].new
        /\ Finish(w, "success")
     \/ /\ articles' = articles
        /\ Finish(w, "error")
  /\ UNCHANGED <<feedVars, provider, answers, decisions, announced>>

-----------------------------------------------------------------------------
\* llm_review_job goes through the allowlist; a request names one symbol.
StartReviews(w) ==
  /\ JobOf[w] = "llm_review" /\ job[w].step = "idle"
  /\ job' = [job EXCEPT ![w] = [Idle EXCEPT !.step = "review",
               !.left = IF w \in Scheduled THEN Sweep ELSE 1]]
  /\ UNCHANGED <<feedVars, articles, provider, answers, decisions, announced>>

\* review_symbol without an answer stores a decision that is not accepted,
\* and goes on to record it in the event log.
ReviewSilently(w) ==
  /\ job[w].step = "review" /\ provider = "disabled"
  /\ answers + decisions < MaxReviews
  /\ decisions' = decisions + 1
  /\ job' = [job EXCEPT ![w].step = "announce"]
  /\ UNCHANGED <<feedVars, articles, provider, answers, announced>>

\* review_symbol with an answer asks the slotted dataclass for its __dict__,
\* which raises before a row is added.
ReviewAnswered(w) ==
  /\ job[w].step = "review" /\ provider = "answering"
  /\ answers + decisions < MaxReviews
  /\ answers' = answers + 1
  /\ Finish(w, "error")
  /\ UNCHANGED <<feedVars, articles, provider, decisions, announced>>

\* The candles, the service or the database fail.
ReviewRaises(w) ==
  /\ job[w].step = "review"
  /\ Finish(w, "error")
  /\ UNCHANGED <<feedVars, articles, provider, answers, decisions, announced>>

-----------------------------------------------------------------------------
\* Mutant: every event of a sweep is said to be a decision.
AnnouncesSweep(w) == job[w].left > 0

\* The row w records is a decision, and not the outcome of its job.
Announces(w) == job[w].step = "announce"

\* After its report: an error ends a sweep, a success goes on to the next symbol.
AfterReport(w) ==
  IF job[w].outcome = "success" /\ job[w].left > 1
  THEN [Idle EXCEPT !.step = "review", !.left = job[w].left - 1]
  ELSE Idle

\* record_event and the flush of the commit that follows it.
RecordEvent(w) ==
  /\ \/ job[w].step = "announce"
     \/ job[w].step = "report" /\ w \in Scheduled
  /\ Flush(w)
  /\ UNCHANGED jobVars

\* The event is committed: a decision's review is done, a report ends the job.
EventStored(w) ==
  /\ Commit(w)
  /\ announced' = IF Announces(w) THEN announced + 1 ELSE announced
  /\ IF job[w].step = "announce"
     THEN Finish(w, "success")
     ELSE job' = [job EXCEPT ![w] = AfterReport(w)]
  /\ UNCHANGED <<articles, provider, answers, decisions>>

\* The event is lost: the review raises, a report is given up with a warning.
EventLost(w) ==
  /\ Rollback(w)
  /\ IF job[w].step = "announce"
     THEN Finish(w, "error")
     ELSE job' = [job EXCEPT ![w] = AfterReport(w)]
  /\ UNCHANGED <<articles, provider, answers, decisions, announced>>

\* A request returns its rows, or status 400.
AnswerRequest(w) ==
  /\ w \notin Scheduled /\ job[w].step = "report"
  /\ job' = [job EXCEPT ![w] = Idle]
  /\ UNCHANGED <<feedVars, articles, provider, answers, decisions, announced>>

\* The process ends in the middle of a job and is started again.
Crash(w) ==
  /\ job[w].step # "idle"
  /\ job' = [job EXCEPT ![w] = Idle]
  /\ \/ Rollback(w)
     \/ assigned[w] = 0 /\ UNCHANGED feedVars
  /\ UNCHANGED <<articles, provider, answers, decisions, announced>>

JobStep(w) ==
  \/ FetchNews(w) \/ StoreNews(w)
  \/ StartReviews(w) \/ ReviewSilently(w) \/ ReviewAnswered(w) \/ ReviewRaises(w)
  \/ RecordEvent(w) \/ EventStored(w) \/ EventLost(w)
  \/ AnswerRequest(w) \/ Crash(w)

JobsNext ==
  \/ \E w \in Writers : JobStep(w)
  \/ ClientNext /\ UNCHANGED jobVars

\* The loop of a connection reads and sends on; jobs and clients owe nothing.
JobsFairness ==
  \A c \in Clients :
    /\ WF_jobsVars(Poll(c) /\ UNCHANGED jobVars)
    /\ WF_jobsVars(SendRow(c) /\ UNCHANGED jobVars)

JobsSpec == JobsInit /\ [][JobsNext]_jobsVars /\ JobsFairness

-----------------------------------------------------------------------------
\* A decision and its event are two commits: the log never announces more
\* decisions than are stored, whatever fails or ends between them
\* (decision_engine.py:85-95).
DecisionsPrecedeEvents ==
  announced + Cardinality({w \in Writers : job[w].step = "announce"}) <= decisions

\* Every row reaches every client that stays connected, unless it was committed
\* late (main.py:127-149).
EventuallyDelivered ==
  \A c \in Clients, n \in Ids :
    n \in rows /\ open[c] ~> n \in sent[c] \cup late \/ ~ open[c]

\* README.md:19 says that the system persists "LLM decisions": a review the
\* provider answered ends with its decision stored (decision_engine.py:62-87).
AnsweredReviewIsStored == answers <= decisions

=============================================================================
