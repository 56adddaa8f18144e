SPECIFICATION LiveSpec
CONSTANTS
  c1 = c1  c2 = c2  c3 = c3  k1 = k1  k2 = k2  noKid = noKid
  Calls <- ThreeCalls
  Kids <- TwoKids
  NoKid <- noKid
  Kid <- Asked
  Entries <- Rotation
INVARIANTS TypeOK PublishedKidFound
PROPERTIES CallsReturn
