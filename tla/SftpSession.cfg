SPECIFICATION FairSession
CONSTANTS
    Channels = {t1, f1}
    Ssh = {t1}
    File = f1
    None = None
    Ids = {a, b}
    Sizes = {0, 2}
INVARIANTS OpenIsRegistered SweeperWatches DownloadAnsweredOnce  NoTransferOutlivesSocket AnsweredUnlessCancelled
PROPERTIES EstablishedSessionEnds TransfersAreServed
CHECK_DEADLOCK FALSE
