SPECIFICATION Spec
CONSTANTS
    Scope <- MCScope
    Wildcard = "*"
    NoMatch = "nobody"
    MaxAlternatives = 3
    Model = {"m1", "m2", "m3"}
    Yaml <- MCYaml
    Proxies = {"router"}
    Fallbacks = {}
    YamlScope <- MCYamlScope
    YamlLimits <- MCYamlLimits
    DBNames = {"dbkey"}
    DBScope <- MCDBScope
    Inline <- MCInline
    DBRows <- MCDBRows
    Healths <- MCHealths
    Callers <- MCCallers
    MaxChanges = 1
    Global = Global
    InlineRef = InlineRef
    NoList = NoList
INVARIANTS
    RegistryAgrees
    ScopesGuard
PROPERTIES
    Converges
