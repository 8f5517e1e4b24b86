SPECIFICATION Spec
CONSTANTS
    Main = main
    Nobody = nobody
    Thread = {main, a, b}
    Sender = {s}
    Ops = {"detach_self", "create_detached", "decimate", "orphan"}
    AtexitSpawns = 1
INVARIANT NoUseAfterFree
SYMMETRY Symmetry
