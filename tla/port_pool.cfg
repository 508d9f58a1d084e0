SPECIFICATION PoolSpec
CONSTANTS
  s1 = s1
  s2 = s2
  s3 = s3
  Nobody = Nobody
  Sessions <- MCThree
  Width = 6
  Ranges <- MCRanges
SYMMETRY MCSymmetry
INVARIANTS
  Exclusive
  NoPortLost
