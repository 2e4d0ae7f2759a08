SPECIFICATION Spec
CONSTANTS
    Programs <- AllPrograms
    Careful <- CarefulScripts
    Rebuilders <- RebuildingScripts
    Apart <- ScriptsApart
    Pictures <- ScriptPictures
    MaxClock = 3
INVARIANT CorpusTypeOK
INVARIANT ProbeTellsTheCorpus
INVARIANT OneReadingElsewhere
INVARIANT PublishedAreChecked
INVARIANT RebuildingNeverSticks
CHECK_DEADLOCK FALSE
