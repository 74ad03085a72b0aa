SPECIFICATION Spec
CONSTANTS
  h = h
  k = k
  f = f
  r = r
  q = q
  t = t
  u = u
  v = v
  e = e
  B = B
  C = C
  E = E
  Own = Own
  Alternate = Alternate
  Main = Main
  Labels = {h, k, f, r, q}
  Statics = {t, u, v, e}
  Blocks = {B, C, E}
  StateBlocks = {E}
  Programs <- Small
  MaxDepth = 2
INVARIANTS
  TypeOK
  Transparent
PROPERTIES
  StateNeverReverted
CHECK_DEADLOCK FALSE
