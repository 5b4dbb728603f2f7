SPECIFICATION FairSpec
CONSTANTS
  None = None
  Never = Never
  Site = {ce1, ce2}
  Ttl = {1, 2}
  MaxPosts = 2
  MaxTime = 3
INVARIANT NothingComesBack
PROPERTY EntriesExpire
