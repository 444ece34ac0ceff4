CONSTANTS
  p1 = p1
  p2 = p2
  s1 = s1
  s2 = s2
  None = None
  Procs = {p1, p2}
  Sources = {s1, s2}
  Ops <- OneWriter
  MaxAdds = 1
  MaxCrashes = 1
  MaxFaults = 0
SPECIFICATION FairSpec
PROPERTIES Refines RequestsEnd
