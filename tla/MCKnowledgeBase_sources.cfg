CONSTANTS
  changing = changing
  named = named
  upload = upload
  Procs = {p1, p2}
  Urls = {changing, named, upload}
  Files = {upload}
  OldUrls = {changing}
  Named = {named}
  Versions <- MCVersions
  Corpora <- MCCorpora
  MaxFaults = 1
  MaxCrashes = 1
  MaxMishaps = 1
SPECIFICATION Spec
SYMMETRY ProcSymmetry
INVARIANTS TypeOK  OneIdPerUrl
  
