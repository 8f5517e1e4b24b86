SPECIFICATION FairSpec
CONSTANTS
    Main = main
    Nobody = nobody
    Thread = {main, a, b}
    Sender = {}
    Ops = {"detach", "create_detached"}
    AtexitSpawns = 0
PROPERTY LastExitEndsProcess
