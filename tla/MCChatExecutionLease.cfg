CONSTANTS
    Chats = {c1, c2}
    Revisions = {r1}
    ChatTarget = chat
    MaxId = 3
    MaxClones = 2
SPECIFICATION Spec
SYMMETRY Symmetry
INVARIANTS
    TypeOK
    HeldLeaseIsActive
    LeasedChatHasOwner
    DirtyIsOwnProtection
PROPERTY
    NoWriteUnderGeneration
CHECK_DEADLOCK FALSE
