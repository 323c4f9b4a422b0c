SPECIFICATION FairSpec
CONSTANTS
    Tags = {"v2", "2", "v3", "nightly"}
    LP_VERSION = "running"
    Zero = "0.0.0"
    None = "none"
    NoRank = norank
    Rank <- MCRank
    MaxPending = 2
 
PROPERTY ClicksSettle
