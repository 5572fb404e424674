CONSTANTS
  a = a
  t = t
  nil = nil
  g1 = g1
  g2 = g2
  Nil = nil
  Queries <- MCQueries
  Callers <- MCCallers
  MaxWrites = 1
  MaxResets = 1
SPECIFICATION FairSpec
INVARIANT RowsAgree
INVARIANT ShownAsAsked
INVARIANT ResetWins
PROPERTY LoadEnds
