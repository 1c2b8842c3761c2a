SPECIFICATION FairApplicationSpec
CONSTANTS
  p1 = p1  a1 = a1  a2 = a2  w1 = w1  r1 = r1
  e1 = e1  e2 = e2  h1 = h1  h2 = h2  j1 = j1  j2 = j2  m1 = m1  m2 = m2
  None = None
  Packets = {p1}
  Attempts = {a1, a2}
  Workers = {w1}
  Requests = {r1}
  PostingOf <- OnePosting
  Provider = "managed_browser"
  ApplicantErrs = FALSE
  Outages = TRUE
  InitialStatuses = {"submitting"}
  StopStatuses = {"needs_attention", "ready_for_final_approval"}
  LeaseTTL = 1
  AbandonAfter = 0
  MaxTime = 2
  MaxRuns = 2
  MaxCrashes = 1
  BoundaryTTL = 2
  CloseAge = 1
  MaxLedgerTime = 6
  RecoveryTime = 6
  MaxSenderDeaths = 1
  Sweeps = {e1, e2}
  Handlers = {h1, h2}
  Postings = {j1, j2}
  Messages = {m1, m2}
  MaxDay = 2
  MaxNoticeFaults = 1
  ClassOf <- MailClasses
  ClaimTTL = 1
  MaxMailTime = 3
  MaxMailFaults = 1
INVARIANTS AnswerSticks UnreadableOnlyWhenPressed WithinDailyCap FailureFreesSlot ForwardedOrLeft OneCopy
PROPERTIES AuthorizedResolves ResultFolds ReceiptResolves
CHECK_DEADLOCK FALSE
