SPECIFICATION FairSpec
CONSTANTS
    listener = listener
    deaf = deaf
    noroute = noroute
    newcomer = newcomer
    Hosts = {listener, deaf, noroute, newcomer}
    Listening = {listener, newcomer}
    Unroutable = {noroute}
    Table = {listener, deaf, noroute}
CHECK_DEADLOCK FALSE
INVARIANTS TypeOK WholeMessages
PROPERTY Finishes
