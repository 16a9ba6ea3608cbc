SPECIFICATION Spec
CONSTANTS
  q1 = q1
  q2 = q2
  i1 = i1
  i2 = i2
  v1 = v1
  p1 = p1
  p2 = p2
  k1 = k1
  k2 = k2
  Proc = {q1, q2}
  Id = {i1}
  Value = {v1}
  Peer = {p1}
  Pass = {k1}
  Faults = {}
  Nil = Nil
  Torn = Torn
INVARIANTS
  EmptyReadAnswers
