\* A temporary exam and an invigilation record with attachments of one digest.
SPECIFICATION FairSpec
CONSTANTS
  ca = ca
  cb = cb
  oe = oe
  or = or
  ia = ia
  ib = ib
  d1 = d1
  d2 = d2
  Client = {ca, cb}
  Worker = {w1, w2}
  Owner = {oe, or}
  Record = {or}
  Temp = {oe}
  Works <- MCApart
  Item = {ia, ib}
  Digest = {d1, d2}
  DigestOf <- MCDigestOf
  First <- MCFirst
  Kinds = {"post", "delete"}
  Cap = 1
  MaxId = 6
  MaxRequests = 3
  MaxCrash = 1
INVARIANTS
  FileKept
  ListsMatch
PROPERTIES
  Settles
CHECK_DEADLOCK FALSE
