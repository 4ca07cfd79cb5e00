\* Two runs of one chat, with nested holds and heartbeats, of which one hangs.
CONSTANTS
    c1 = c1
    None = None
    Runs = {r1, r2}
    Chats = {c1}
    ChatOf <- SharedChat
    MaxDepth = 2
    MaxHung = 1
    Capacity = 1
    Lease = 1
    Beat = 1
    Slack = 0
SPECIFICATION FairSpec
INVARIANTS
    Exclusive
    RefcountExact
    RenewedNotReclaimed
PROPERTIES
    HungFreed
