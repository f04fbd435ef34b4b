SPECIFICATION Spec
CONSTANTS
    Nil = Nil
    NoMap = NoMap
    Lower <- MCLower
    Mentions <- MCMentions
    LengthOf <- MCLengthOf
    ClassRank <- MCClassRank
    Devices <- MCDevices
    Fields = {"idle"}
    Locals <- MCLocals
    Remotes <- MCRemotes
    Orders <- MCOrders
    Handlers = {h1}
    Reloader = reloader
    MaxPublishes = 1
CHECK_DEADLOCK FALSE
INVARIANT NoLeftovers
