SPECIFICATION FairSpec
CONSTANTS
  tcp = tcp
  auto = auto
  typo = typo
  t1 = t1
  t2 = t2
  r1 = r1
  r2 = r2
  N = 2
  Labels = {tcp, auto}
  LabelOf <- MCLabelOf
  Unknown = {}
  Socketed = {1}
  StallAfter = 1
  ProbeGrace = 1
  Cooldown = 1
  Lag = 1
  Ticks = {t1, t2}
  Rounds = {r1, r2}
  MaxSent = 1
INVARIANTS
  OneOfEach
  NoneForgotten
PROPERTIES
  OnlySilentRecycled
  FrozenIsRecycled
  FailedIsRetried
