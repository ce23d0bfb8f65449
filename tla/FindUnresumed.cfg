SPECIFICATION Spec
CONSTANTS
  q1 = q1
  q2 = q2
  a = a
  b = b
  Queries = {q1, q2}
  Names = {a, b}
  Plans <- MCPlans
  Hooks <- MCHooks
  Changed = {"none", "good", "bad"}
  Parent = parent
  Odd = odd
  None = none
  Makers = {k1, k2, k3}
  Sessions = {s1, s2}
  Messages = {u1, u2}
  Nobody = nobody
  Rows = {1, 2, 3, 4}
  Born <- MCBorn
  Sizes = {1, 2}
  AtStart <- MCAtStart
  Filters <- MCFilters
  MaxWrites = 2
  Handlers = {h1, h2, h3}
  Served = {s1, s2}
INVARIANT ContinuesItsSession
CHECK_DEADLOCK FALSE
