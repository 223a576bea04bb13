SPECIFICATION MCSpec
CONSTANTS
    MaxEvents = 3
    Libraries = {"lib"}
    Names <- MCNames
    Locations <- MCLocations
    Configurations <- MCConfigurations
    Requests <- MCRequests
    MaxGenerates = 2
INVARIANT ServersAreSound
INVARIANT PackagesAreSound
INVARIANT ProjectIsSound
PROPERTY SpecsOnlyWhereConfigured
PROPERTY LatestIsServed
CHECK_DEADLOCK FALSE
