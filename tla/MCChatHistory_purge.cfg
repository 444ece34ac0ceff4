CONSTANTS
  None = None
  third = third
  ToolProjects = {x3}
  Procs = {p1, p2}
  Projects = {x1, x2}
  Sessions = {c1, c2}
  Messages = {m1, m2}
  ReportRows = {1, 2}
  Sources = {s1, s2}
  Repos = {s1}
  ReportSources = {s1}
  Blank = Blank
  MaxLog = 3
  MaxMessages = 4
  MaxFaults = 1
  MaxCrashes = 1
SPECIFICATION AllSpec
SYMMETRY Symmetry
PROPERTY DropOrphansNothing
