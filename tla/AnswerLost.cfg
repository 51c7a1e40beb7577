SPECIFICATION JobsSpec

CONSTANTS
  newsJob = newsJob
  newsRequest = newsRequest
  llmJob = llmJob
  u1 = u1
  u2 = u2
  Writers <- MCWriters
  JobOf <- MCJobOf
  Scheduled <- MCScheduled
  Clients = {c1}
  Engines <- MCEngines
  Providers <- MCProviders
  Batch = 1
  MaxId = 2
  Urls = {u1, u2}
  Sweep = 2
  MaxReviews = 2

INVARIANT AnsweredReviewIsStored
