SPECIFICATION Spec
CONSTANTS
    Main = main
    Nobody = nobody
    Thread = {main, a, b}
    Sender = {}
    Ops = {"detach", "decimate"}
    AtexitSpawns = 0
INVARIANT FreeAssertion
