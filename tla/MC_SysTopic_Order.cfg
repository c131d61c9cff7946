\* The events of one client, published by tasks spawned per event.
CONSTANTS
    k1 = k1
    k2 = k2
    Client = {k1}
    MaxRounds = 1
SPECIFICATION Spec
PROPERTY EventsInOrder
