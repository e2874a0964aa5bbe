\* Five archives: with a broken question, with a duplicate and unsafe entries, with a
\* damaged entry, too large for the limit on downloads and no benchmark, and one with
\* nothing wrong; five examples and samples of up to four.
CONSTANTS
  Contents = {"v1", "v2", "unsafe", "damaged", "huge", "truncated"}
  Zips = {"v1", "v2", "unsafe", "damaged", "huge"}
  ValidZips = {"v1", "v2", "unsafe", "huge"}
  Fitting = {"v1", "v2", "unsafe", "damaged", "truncated"}
  Extractable = {"v1", "v2", "damaged"}
  Splits <- MCSplits
  Bad = Bad
  Limits = {0, 2, Unlimited}
  Unlimited = Unlimited
  Truncated = "truncated"
  NoFile = NoFile
  None = None
  Pool = {1, 2, 3, 4, 5}
  entailed = entailed
  contradicted = contradicted
  unknown = unknown
  Labels = {entailed, contradicted, unknown}
  LabelOrders <- MCLabelOrders
  LabelRank <- MCLabelRank
  MaxSize = 4
  Twins = {2, 3}
  Shown = {1}
  Altered = Altered
  Missing = Missing
  Refused = Refused
SPECIFICATION Spec
INVARIANTS
  DataIsWhole
  SampleIgnoresArrival
\* A sample, once drawn, is the end.
CHECK_DEADLOCK FALSE
