SPECIFICATION FairSpec
CONSTANT Size = 2
INVARIANTS
    LoadedWasSent
    PatchBeforeRom
    ReadyUnlessCutShort
PROPERTY CopyAndUploadEnd
