SPECIFICATION FeedSpec
CONSTANTS
    b1 = b1
    b2 = b2
    b3 = b3
    Screen <- MCScreen
    MaxFailures = 0
    MaxLosses = 0
PROPERTY SubscribersGetAFeed
