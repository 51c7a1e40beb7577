----------------------------- MODULE MCWorkerJobs -----------------------------
EXTENDS WorkerJobs

CONSTANTS newsJob, newsRequest, llmJob, u1, u2

MCWriters == {newsJob, newsRequest, llmJob}
MCScheduled == {newsJob, llmJob}
MCJobOf == [w \in MCWriters |->
  CASE w \in {newsJob, newsRequest} -> "refresh_news"
    [] w = llmJob -> "llm_review"]
MCEngines == {"sqlite", "postgresql"}
MCProviders == {"disabled", "answering"}

=============================================================================
