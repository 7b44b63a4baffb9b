SPECIFICATION Spec
CONSTANTS
  k0 = k0
  t1 = t1
  t2 = t2
  t3 = t3
  K = K
  u1 = u1
  u2 = u2
  Slots = 4
  Junk = Junk
  NULL = NULL
  Thread <- MCThread4
  Task <- MCTask3
  kernel_thread = k0
  kernel_task = K
  Calls <- CallsOfAll
SYMMETRY Others
INVARIANTS TypeOK   NewTaskIffOther NullOnlyAtBoot 
