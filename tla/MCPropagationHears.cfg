SPECIFICATION Spec
CONSTANTS
    listener = listener
    deaf = deaf
    noroute = noroute
    newcomer = newcomer
    Hosts = {listener, deaf}
    Listening = {listener}
    Unroutable = {}
    Table = {listener, deaf}
CHECK_DEADLOCK FALSE
INVARIANT EveryListenerHears
