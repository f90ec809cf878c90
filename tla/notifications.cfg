SPECIFICATION FairSpec
CONSTANTS
  alice = alice  n1 = n1  w1 = w1  w2 = w2
  Users = {alice}  NoUser = NoUser
  Notices = {n1}
  Recipient <- AliceOnly
  Channels = {"LINE"}
  Accounts = {L1}  EmailAddress = EmailAddress
  Codes = {c1, c2}
  Workers = {w1, w2}  Nobody = Nobody
  MaxAttempts = 2  BatchSize = 1
  Producers = {p1}
  CodeCalls = {k1}
  MaxFaults = 1
INVARIANTS SendsBounded
PROPERTIES SettledNoticesStay NoStaleRecipient  EveryNoticeSettles
CHECK_DEADLOCK FALSE
