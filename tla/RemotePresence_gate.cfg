SPECIFICATION FairSpec
CONSTANTS
  Remote = {"ann", "bob"}
  Link = {"annsLink"}
  Owner <- OwnerOf
  Page = {"annsPage"}
  Via <- ViaLink
  MaxFaults = 1
INVARIANT TypeOK
INVARIANT ToldWhenReady
PROPERTY NextRunWaits
PROPERTY RunsWhenReady
PROPERTY NoGhost
CHECK_DEADLOCK FALSE
