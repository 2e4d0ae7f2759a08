SPECIFICATION FairViewerSpec
CONSTANTS
    exe = exe
    site = site
    apk = apk
    bomb = bomb
    coff = coff
    noise = noise
    image = image
    page = page
    draft = draft
    bad = bad
    setup = setup
    manifest = manifest
    raw = raw
    None = None
    Files = {exe, site, apk, bomb, coff}
    Items = {image, page, draft, bad, setup, manifest, raw}
    Inputs <- MCInputs
    Entries <- MCEntries
    Magic <- MCMagic
    Named <- MCNamed
    Links <- MCLinks
    Broken <- MCBroken
    Accepts <- MCAccepts
    Empty = {}
    Zips <- MCZips
    Refused <- MCRefused
    Oversize = {}
    Tickets = {1}
    Faults = {"read", "trap"}
INVARIANT ViewerTypeOK
INVARIANT BlobOnlyWhileShown
PROPERTY ViewerFollowsMark
PROPERTY KeepsPromise
