SPECIFICATION FairSpec
CONSTANTS
  w1 = w1
  w2 = w2
  Row = {w1, w2}
  Inode = {i1, i2, i3}
  Mail <- Block
  Template <- ScanAndPipe
  MaxTimeouts = 1
  None = None
INVARIANTS
  WholeMail
  NeverStuck
  DoneMeansDelivered
PROPERTIES DeliveryEnds
