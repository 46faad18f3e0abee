CONSTANTS
  x1 = x1
  x2 = x2
  w1 = w1
  w2 = w2
  o1 = o1
  None = None
  Exports = {x1}
  Workers = {w1, w2}
  Ops = {o1}
  Attempts = 3
  MaxFaults = 4
SPECIFICATION FairSpec
INVARIANTS
  IInv
  DownloadFindsFile
  ExportCoversRequest
PROPERTIES
  EveryExportSettles
