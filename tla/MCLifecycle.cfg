CONSTANTS
    N = 3
    MaxCallbacks = 2
    MaxRequests = 2
SPECIFICATION FairSpec
INVARIANTS TypeOK ServicesOutlivePlugins LaterPluginsFirst RequestsSeeLivePlugins EveryPluginBroughtDown
PROPERTY RunEnds
