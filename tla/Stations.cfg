SPECIFICATION Spec
CONSTANTS
    Width = 256
    ChangeTime = 30
    Proximity = 100
    Feeds <- MCFeeds
    BucketCounts = {5, 7}
INVARIANTS
    StationsOfOneName
