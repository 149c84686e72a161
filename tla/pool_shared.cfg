\* Reads and writes in any mix, twice as many as there are connections, dropped
\* at any point.
SPECIFICATION FairSpec
CONSTANTS
  Calls = {c1, c2, c3, c4}
  PoolSize = 2
INVARIANTS NoStall
PROPERTY Answered
