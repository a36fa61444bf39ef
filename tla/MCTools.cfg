SPECIFICATION Spec
CONSTANTS
    None = None
    lamp = lamp
    blind = blind
    garage = garage
    script = script
    kitchen = kitchen
    hall = hall
    door = door
    routine = routine
    lampword = lampword
    a1 = a1
    a2 = a2
    d1 = d1
    Entities = {lamp, blind, garage, script}
    DomainOf <- HomeDomainOf
    ObjectOf <- HomeObjectOf
    CriticalDomains = {"lock"}
    CriticalCoverClasses = {"garage"}
    ElevatedDomains = {"cover", "script"}
    Cover = "cover"
    ReflexDomains = {"light", "script"}
    ReflexConfig <- Config
    MaxListed = 2
    Homes <- TheHomes
    RegEntries <- HomeEntries
    Devices = {d1}
    Areas = {a1, a2}
    AreaNames <- HomeNames
    StateAttrs <- HomeAttrs
    Catalogs <- HomeCatalogs
    WordsOf <- HomeWords
    MaxChanges = 2
    MaxDrops = 1
INVARIANTS TypeOK IndexCurrent ManifestCurrent ToolsFollowCatalog WellAimed OffersWork RiskCoversKnown
CHECK_DEADLOCK FALSE
