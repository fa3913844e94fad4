CONSTANTS
    Parts <- SomeParts
    Messages <- SomeMessages
    Damages <- SomeDamages
    MaxNumber = 3
    max_payload = 2
    Capacity = 4
    MaxFrames = 2
    MaxDamage = 1
SPECIFICATION LiveSpec
CHECK_DEADLOCK FALSE
INVARIANT DeliveredAsSent
INVARIANT BufferBounded
INVARIANT RefusalHasCause
INVARIANT TypeOK
PROPERTY FramesArrive
