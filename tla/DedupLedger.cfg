SPECIFICATION FairSpec
CONSTANTS
  r1 = r1
  r2 = r2
  r3 = r3
  k1 = k1
  post = post
  share = share
  bad = bad
  NoKey = NoKey
  Requests = {r1, r2}
  Keys = {k1}
  Bodies = {post, share, bad}
  Malformed = {bad}
  Uploads = {share}
  MaxIncarnations = 2
INVARIANTS
  TypeOK
  AtMostOneEffect
  FaithfulReplay
  RepliesTrue
  EveryReservationOwned
PROPERTIES
  RecordedIsFinal
  EveryRequestAnswered
CHECK_DEADLOCK FALSE
