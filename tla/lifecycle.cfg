SPECIFICATION Spec
CONSTANTS
    Deployments <- MCDeployments
    Letters <- MCLetters
    Requests = {r1, r2}
    MaxStatements = 2
    MaxBoots = 2
INVARIANTS TypeOK LayersKept SoundToServe ChartMeansItsFile RangeCoversColumns GracefulExit TokensAcrossRestarts
PROPERTIES StartsServing ShutdownEnds
CHECK_DEADLOCK FALSE
