SPECIFICATION Spec
CONSTANTS
    Senders = {egress, timer, ingress}
    Ingress = ingress
    Dsts = {d1, d2, d3}
    Routed = {d1, d2}
    QLen = 3
    MaxPackets = 3
    MaxFails = 1
INVARIANTS NeverSentTwice QueueInOrder HandlerBounded
PROPERTY EveryDeferredLeaves
