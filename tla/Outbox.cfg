CONSTANTS
  Events = {e1, e2}
  Workers = {w1, w2}
  NoWorker = NoWorker
  BatchSize = 2
  MaxAttempts = 2
  MaxEnds = 1
SPECIFICATION FairSpec
INVARIANTS TypeOK AttemptsAreAccountedFor
PROPERTIES NotificationIsNotSleptOn ImplementsEventRelay EveryEventIsSettled
