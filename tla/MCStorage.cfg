\* Every family: whole programs without interrupts, with --isr-safe, with one
\* interrupt function, and separate compilation.
CONSTANTS
  Main = main
  f = f
  g = g
  h = h
  NoFunction = none
  Functions = {main, f, g, h}
  Programs <- Families
  Values = {0, 1}
  Junk = 0
  MaxDepth = 5
CHECK_DEADLOCK FALSE
SPECIFICATION Spec
INVARIANTS TypeOK RegionsApart NothingDeadEntered
  OverwrittenOnlyIfWarned
PROPERTIES AllocationEnds ImplementsAutomatic
