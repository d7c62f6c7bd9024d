CONSTANTS
    i1 = i1
    i2 = i2
    Key <- MCKey
    Traffic <- MCTraffic
    TrendTicks = 3
    RateTicks = 2
    ChannelCap = 2
SPECIFICATION FairSpec
INVARIANTS TypeOK TrendsAligned EveryFlowNamed
PROPERTIES FollowsDaemon
