CONSTANTS
    NSlots = 2
    Maps = {"control_map", "owner_map"}
    MaxGen = 2
    None = None
    d1 = d1
    d2 = d2
    i = i
    u = u
SPECIFICATION AllSpec
INVARIANTS AllTypeOK ForeignKept Recoverable PublishedIsWhole LinksAccounted
PROPERTIES Exclusive MayRunAgain ManifestInOrder CommitsOnce AppliedIsServed RecordsSurvive
