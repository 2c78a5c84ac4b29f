\* Three drivers of two keys, call_tool's loop cut to two attempts; the errors of
\* k1's tool may hide an effect, those of k2's do not.
CONSTANTS
  Callers = {c1, c2, c3}
  Keys = {k1, k2}
  MaxRetries = 2
  MaxEffects = 2
  Ambiguous = {k1}
SPECIFICATION FairSpec
INVARIANTS
  EffectAtMostOnce
  FailedMeansNoEffect
PROPERTIES
  OrphanNeverRefired
  ImplementsWriteOnce
  CallReturns
