SPECIFICATION FeedSpec
CONSTANTS
    b1 = b1
    b2 = b2
    b3 = b3
    Screen <- MCScreen
    MaxFailures = 2
    MaxLosses = 2
INVARIANT IdleWhenUnwatched
INVARIANT ResyncAfterLoss
PROPERTY LostFeedComesBack
