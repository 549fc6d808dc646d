SPECIFICATION FairSpec
CONSTANTS
    Channels = {t1}
    Ssh = {t1}
PROPERTIES SocketCloseDiscards
CHECK_DEADLOCK FALSE
