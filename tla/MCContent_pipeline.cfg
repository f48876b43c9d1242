SPECIFICATION Spec
CONSTANTS
    DropSources <- Sources
    Ranks = {1, 2}
    RowKeyLimit = 3
    NameMax = 2
    LevelCap = 5
    CountMax = 65535
    PercentMax = 100
    ScriptTexts <- ScriptSources
    MaxTime = 60
    SplashTime = 30
    ItemSources <- ItemTables
    MaxDepth = 2
    Archives <- ArchiveChoices
    Caches <- CacheChoices
    Thread = {"t1", "t2"}
    Attempts = 3
    MaxTools = 2
    Profiles <- ProfileChoices
    PlayerId <- Warrior
    DogId <- WildDog
    MaxLength = 20
    PinnedArea = "area"
    PinnedWave = "wave"
    PinnedTerminal <- Terminal
    PinnedSphere = "sphere"
    Reactions <- McReactions
    Invulnerable <- McInvulnerable
    Revision = {1, 2, 3}
    Gameplay <- GameplayChoice
    GeometryOf <- GeometryChoice
    Glb = {"actor", "sword"}
    Target = {"windows", "web"}
    Projects <- ProjectChoices
    Candidates <- CandidateChoices
    MayReuse = TRUE
    MaxRuns = 4
    MaxInstalls = 1
    Shipments <- ShipmentChoices
    WarriorId = "warrior"
    DogMob = "dog"
    FirstSword = "sword"
    FixedPath <- Paths
    ItemPaths = {"s", "s11", "s12"}
    SwordPower = 13
    LastStrike = "last"
    EffectSources <- SourceChoices
    Damages <- DamageChoices
    Asset <- AssetNames
    BlendOf <- McBlends
    FileOf <- McFiles
    TextureOf <- McTextures
    Layers <- McLayers
    FrameCount = 3
    PinnedShape <- McShape
    PinnedAt <- McAt
    PinnedAlpha <- McAlpha
    Full = 4
    MaxGeometries = 3
    MaxFrames = 4
    MaxVertices = 3
    MaxIndices = 6
    MaxTextureVertices = 3
    MaxScriptMeshes = 2
    MaxTimeEvents = 2
    EffectWorks <- WorkChoices
    MaxPerMotion = 2
INVARIANTS DropsAreTheTables BlocksAreBraces CatalogIsSelected CachedIsPinned
    BuildIsPlayable ReleaseIsOneBuild ManifestIsWhole ShippedEffectsAreWhole
CHECK_DEADLOCK FALSE
