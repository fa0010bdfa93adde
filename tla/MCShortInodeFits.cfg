CONSTANTS
    Width = 3
    SHORT_INODE_MAX <- MCMax
    SHORT_INODE_UNMAPPED = 2
    Inodes = {2, 3, 4, 10, 13, 17}
    HashVal <- MCHashVal
SPECIFICATION FairSpec
INVARIANTS TypeOK LruInverse UnusedAreOldest HashInverse Injective
PROPERTIES Stable WalkReturns LruSpec
