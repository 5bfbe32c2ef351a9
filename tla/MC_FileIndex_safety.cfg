CONSTANTS
  a = a
  t = t
  g = g
  Files = {a, t, g}
  HiddenName = {}
  SkipExt = {t}
  MaxVer = 2
  MaxScans = 2
SPECIFICATION Spec
INVARIANT TypeOK
\* Once the last refresh is done and no one writes, the node simply idles.
CHECK_DEADLOCK FALSE
