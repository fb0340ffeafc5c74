SPECIFICATION Spec
CONSTANTS
    Nothing = Nothing  Unknown = Unknown  Damaged = Damaged
    Nobody = Nobody  NoCall = NoCall  Bad = Bad
    Files = {setup}  Digests = {d1, d2}  MaxReplaced = 2  MaxChecks = 3
    MaxCalls = 3
    Retentions = {0, 1, 2}  Units = {b, gb}  MaxEdits = 3  MaxWriteFailures = 2
    MiniRanges = {day, month}  MaxRequests = 2  MaxEvents = 1
    MaxDay = 2  MaxQueries = 3  MaxMoves = 2  MaxFailures = 1
    Apps = {app, proxy}  MaxOps = 2  MaxFaults = 2
    Avatars = {x, y, z}  Keys = {k, l}  PageLimit = 1  HostLimit = 1  MaxPages = 2
    Dates = {1, 2}  LastTime = 1  Proxies = {proxy}  Clients = {app, other}  MaxUsage = 3
    MaxWrites = 3  MaxImports = 2
    MaxActs = 3  Saves = {s1, s2}  MaxChanges = 1
    MaxDialogs = 2
    Themes = {gnome, custom, hicolor}  hicolor = hicolor  ScanLimit = 2  MaxThemes = 2
    MaxCandidates = 1  MoreCandidates = 1  MaxSize = 1  MaxDesktopFiles = 3
    Processes = {p}  Networks = {n}  MaxCaptured = 3
INVARIANTS
    TypeOK DownloadsVerified HandoverHonoured ExitWasAgreed  WindowsFollow
    MoveKeepsLoginStart SelectionStands LimitedIsListed AvatarsServed RowsAddUp 
\* Every component stops at its bounds: no more edits, requests, packets or faults.
CHECK_DEADLOCK FALSE
