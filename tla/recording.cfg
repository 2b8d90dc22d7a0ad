SPECIFICATION FairSpec
CONSTANTS
  Topics = {"odom"}
  Wanted = {"odom"}
  Offered <- McOffered
  RotateAt = 2
  MaxSize = 2
  MaxFiles = 3
INVARIANTS
  TypeOK
  PublishersHeard
  DiskBounded
PROPERTIES
  Discovered
