CONSTANTS
  u1 = u1  u2 = u2  u3 = u3
  same = same  broken = broken
  i1 = i1  i2 = i2  i3 = i3  again = again  x1 = x1
  Uploads = {u1, u2}
  Contents = {same}
  ContentOf <- MCContentOf
  StartJobs = {i1, i2, again}
  CancelJobs = {x1}
  UploadOf <- MCUploadOf
  ImportOf <- MCImportOf
  Unreadable = {}
  Bulky = {i2}
  Slots = {1, 2}
  MaxRequests = 3
  MaxCrashes = 1
SPECIFICATION FairSpec
INVARIANTS InputsAreKept OneFate SourcesAreStored SuccessIsComplete
PROPERTIES  RequestsAreAnswered
CHECK_DEADLOCK FALSE
