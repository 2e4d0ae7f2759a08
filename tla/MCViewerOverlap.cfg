SPECIFICATION FairViewerSpec
CONSTANTS
    exe = exe
    site = site
    apk = apk
    bomb = bomb
    coff = coff
    noise = noise
    image = image
    page = page
    draft = draft
    bad = bad
    setup = setup
    manifest = manifest
    raw = raw
    None = None
    Files = {exe, site, apk, noise}
    Items = {page, bad, setup}
    Inputs <- MCInputs
    Entries <- MCEntries
    Magic <- MCMagic
    Named <- MCNamed
    Links <- MCLinks
    Broken <- MCBroken
    Accepts <- MCAccepts
    Empty = {}
    Zips <- MCZips
    Refused <- MCRefused
    Oversize = {noise}
    Tickets = {1, 2}
    Faults = {"read"}
INVARIANT EntriesMatchArchive
INVARIANT ReadingMeansWaiting
PROPERTY ReasonIsAboutTheBytes
PROPERTY ReadingEnds
