CONSTANTS
    ping = ping
    load = load
    stop = stop
    Clients <- MCClients
    Verb <- MCVerb
    Path <- MCPath
    Cut <- MCCut
    Pieces <- MCPieces
    InitialPath = "initial"
SPECIFICATION FairSpec
INVARIANT ServerInv
PROPERTIES NothingAfterStop LoadExact QueueMoves
CHECK_DEADLOCK FALSE
