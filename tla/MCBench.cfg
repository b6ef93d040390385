CONSTANTS
    bench = bench
    ui = ui
    NoId = NoId
    NoAnswer = NoAnswer
    Ok = Ok
    Pool = {1, 2}
    Clients = {bench, ui}
    Harness = bench
    Capacity = 3
    Count = 4
    MinWarmup = 1
    Plans <- MCPlans
    Versions <- MCVersions
    MaxDeaths = 1
SPECIFICATION BenchSpec
INVARIANTS OneHolder RttIsOwn StatsFollow TrackIsScenario HangsOnRecycledOnly VersionIsOneRun
