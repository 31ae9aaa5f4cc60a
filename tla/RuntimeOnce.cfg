SPECIFICATION RuntimeSpec
CONSTANTS
  Threads = {t1, t2, t3}
  Runtimes = {r1, r2, r3, r4}
  NoRuntime = NoRuntime
INVARIANT
  OneRuntime
