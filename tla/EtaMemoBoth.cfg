SPECIFICATION MemoSpec
CONSTANTS
  b1 = b1
  b2 = b2
  b3 = b3
  t1 = t1
  t2 = t2
  z1 = z1
  z2 = z2
  Coef <- MCCoef
  Terms <- MCTerms
  Zetas <- MCZeta
  Kinds <- Both
INVARIANTS CommittedIsRead
