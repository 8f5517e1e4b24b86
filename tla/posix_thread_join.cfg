SPECIFICATION Spec
CONSTANTS
    Main = main
    Nobody = nobody
    Thread = {main, a, b}
    Sender = {}
    Ops = {"join", "detach_self", "create_detached", "cancel_all", "kill", "orphan"}
    AtexitSpawns = 0
INVARIANT TypeOK
INVARIANT NoUseAfterFree
INVARIANT FreeAssertion
INVARIANT OrphanAssertion
INVARIANT HandlesValid
INVARIANT ZombiesLast
PROPERTY LegalTransitions
SYMMETRY Symmetry
