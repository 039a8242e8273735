\* Everything delivered and nothing left to publish is a legitimate end.
CHECK_DEADLOCK FALSE
SPECIFICATION FairSpec
CONSTANTS
    Events = {e1, e2}
    DirectMessages = {e1}
    Relays = {i1}
    NoopConsumers = {n1}
    DMConsumers = {k1, k2}
    NoEvent = none
    maxDeliveryTries = 2
    MaxCopies = 1
    MaxEvents = 1
INVARIANTS
    NoEventLost
PROPERTIES
    ConsumedOnceSent
    EveryEventSettles
