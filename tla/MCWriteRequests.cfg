SPECIFICATION Spec
CONSTANTS
    Blank = Blank
    FolderWords = {inbox, archive}
    DefaultWord = inbox
    UIDs = {0, 1}
    FlagWords = {seen, flagged, deleted}
    AllowedWords = {seen, flagged}
    AddressWords = {ann, bob}
    MaxList = 2
    MaxRecipients = 2
INVARIANTS
    FrozenIsExecuted
    MoveChangesFolder
    FlagsAsAsked
    BccOnlyInEnvelope
CHECK_DEADLOCK FALSE
