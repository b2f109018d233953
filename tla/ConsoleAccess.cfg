SPECIFICATION FairSpec
CONSTANTS
  Users = {u1, u2}
  Tokens = {t1, t2}
  Flows = {d1}
  Requests = {r1, r2}
  Nobody = Nobody
  MaxAdded = 2
INVARIANTS
  SessionsAreAdmins
  AccountHasToken
  AddedOnce
PROPERTIES
  PollingEnds
