SPECIFICATION Spec
CONSTANTS
  p1 = p1  p2 = p2  a1 = a1  a2 = a2  a3 = a3  w1 = w1  w2 = w2  r1 = r1  r2 = r2
  None = None
  Packets = {p1, p2}
  Attempts = {a1, a2}
  Workers = {w1, w2}
  Requests = {}
  PostingOf <- OnePosting
  Provider = "managed_browser"
  ApplicantErrs = FALSE
  Outages = TRUE
  InitialStatuses = {"submitting"}
  StopStatuses = {"needs_attention"}
  LeaseTTL = 1
  AbandonAfter = 0
  MaxTime = 2
  MaxRuns = 1
  MaxCrashes = 0
SYMMETRY Interchangeable
INVARIANTS NoDoubleFiling FiledNeverClosed FilingInv
PROPERTIES ConfirmedStaysShown KeepsPromise
CHECK_DEADLOCK FALSE
