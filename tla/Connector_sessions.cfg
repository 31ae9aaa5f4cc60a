SPECIFICATION Spec
CONSTANTS
  c1 = c1  c2 = c2  c3 = c3
  a = a  b = b
  s1 = s1  s2 = s2  s3 = s3
  q1 = q1  q2 = q2
  Callers = {c1, c2}
  Ids = {a, b}
  Sessions = {s1, s2}
  Sql = {q1}
  Cap = 1
  MaxAnswer = 2
  Silent = {}
  None = None
SYMMETRY Symmetry
PROPERTIES
  RefinesTable
  PublishedAfterProbe
  CompleteReply
INVARIANTS
  TableInv
  OwnAnswer
  HandlesCounted
