SPECIFICATION FairSpec
CONSTANTS
    MaxCommits = 2
    MaxOpen = 2
INVARIANTS TypeOK NothingMissing OneRecordPerPreview ReceiptOfNewest
PROPERTIES RecordsWhatWasCollected CancelGetsOut
CHECK_DEADLOCK FALSE
