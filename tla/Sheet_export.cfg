\* Two payments, one row by hand, one trouble, both modes.
SPECIFICATION FairSpec
CONSTANTS
    None = None
    k1 = k1
    k2 = k2
    Runs = {r1}
    Modes = {"upsert", "replace"}
    MaxId = 2
    Ids <- MCIds
    KeyOf <- MCKeyOf
    Vals = {"old", "new"}
    Height = 9
    GapLimit = 1
    Before <- MCBefore
    MaxChange = 1
    MaxHand = 1
    MaxTrouble = 1
INVARIANTS TypeOK LastExportShown UpsertClean ReplaceExact
PROPERTIES HandInBlockKept SheetCatchesUp
