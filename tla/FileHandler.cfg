CONSTANTS
  fs = fs
  www = www
  docs = docs
  page = page
  other = other
  a = a
  b = b
  Workers = {w1, w2}
  Requests <- SomeRequests
  Keys <- SomeKeys
  Dirs = {fs, www, docs}
  Files = {page, other}
  Root = www
  Entry <- Tree
  Home <- Places
  LeadingDot = {".."}
  HoldsDotDot = {".."}
  DefaultFile = "index"
  Contents <- SomeContents
  Data <- WithBeginnings
  SizeOf <- FileSizes
  MaxSize = 2
  TTL = 1
  NoEntry = noentry
  MaxFileSize = 2
  CacheFileLimit = 3
  RequestSecs = 1
  MaxChanges = 2
  Absent = absent
  NoPath = nopath
SPECIFICATION FSpec
SYMMETRY Symmetry
VIEW View
INVARIANTS FileTypeOK StalenessBound ServedFromRoot OverrunBound
