CONSTANTS
  PcAt <- ShortGuest
  MaxInsnCnts = {0, 2}
  MayRefuse = TRUE
SPECIFICATION Spec
CHECK_DEADLOCK FALSE
INVARIANTS TypeOK TracepointsFaithful ReplyMatchesCommand NoCommandLost
PROPERTY SessionEnds
