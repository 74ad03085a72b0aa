SPECIFICATION Spec
CONSTANTS
  f = f
  g = g
  h = h
  a = a
  b = b
  p = p
  q = q
  mfh = mfh
  mg = mg
  mab = mab
  mp = mp
  mq = mq
  Routines = {f, g, h}
  Areas = {a, b}
  Calls = {p, q}
  Modules = {mfh, mg, mab, mp, mq}
  Cases <- AreasOnly
INVARIANTS
  LinksOnce
CHECK_DEADLOCK FALSE
