CONSTANTS
    p1 = p1
    p2 = p2
    ca = ca
    cb = cb
    Broken = Broken
    NoFile = NoFile
    Default = Default
    Providers <- TwoProviders
    Probed <- FirstProvider
    Autostart <- TwoProviders
    Policy <- Policies
    Configs <- TwoConfigs
    Names <- BothOrOne
SPECIFICATION FairSpec
INVARIANTS
    ProvidersTracked
PROPERTIES
    LkgLostOnlyToRace
    SettlesInTheEnd
