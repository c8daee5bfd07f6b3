SPECIFICATION RegistrySpec
CONSTANTS
    MaxHandles = 2
    CompactAt = 2
    Ttl = 1
    VersionModulus = 16
    Touches = TRUE
    MaxInserts = 4
INVARIANT
    NeverAliases
