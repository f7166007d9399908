\* A slot flush starts while a command is suspended in CallChangeCallbacks
\* on a snapshot's big_value_mu_: one snapshot, one command fiber, one
\* flush of k2's slot, both keys in the last bucket.
CONSTANTS
  k1 = k1  k2 = k2  c1 = c1  c2 = c2  s1 = s1  s2 = s2  v1 = v1  v2 = v2  fl = fl
  Keys = {k1, k2}
  Vals = {v1}
  NoVal = NoVal
  None = None
  NB = 2
  Home <- MCHomeLast
  Snapshots = {s1}
  Cmds = {c1}
  MaxOps = 2
  StartWaitsLatch = TRUE
  Flushes = {fl}
  FlushKeys = {k2}
SPECIFICATION Spec
INVARIANT FlushSlotsComplete
