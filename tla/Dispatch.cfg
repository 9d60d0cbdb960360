SPECIFICATION TriedSpec
CONSTANTS
  Tickets = {t1, t2}
  LabelSets = {{"task"}, {"task", "research"}}
  Parents = {FALSE}
  BranchLines = {"shared"}
  Blockers = {t1}
  MaxRuns = 3
  MaxSweeps = 1
INVARIANTS TypeOK NoTicketIsForgotten WorkIsNotForReview
PROPERTY EveryRunEnds
CHECK_DEADLOCK FALSE
