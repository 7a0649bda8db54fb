SPECIFICATION StaFairSpec
CONSTANT MAXIMUM_RETRY = 5
PROPERTY LostLinkIsRetried
