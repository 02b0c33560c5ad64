SPECIFICATION FairSpec
CONSTANTS
  Publishers = {p1, p2}
  Waiters = {w}
  None = none
  MaxContent = 2
INVARIANT TypeOK
INVARIANT NoMissedRefresh
INVARIANT NoStrandedQuery
PROPERTY ClientCatchesUp
PROPERTY QueriesAnswered
