SPECIFICATION Spec
CONSTANTS
  Emails = {m1}
  Requests = {q1, q2, q3, q4}
  Tokens = {t1, t2, t3, t4}
  None = None
CHECK_DEADLOCK FALSE
SYMMETRY Symmetry
INVARIANTS
  TypeOK
  ReplacedIsRevoked
  LiveTokensCounted
  SessionKept
PROPERTIES
  OverForGood
