SPECIFICATION Spec
CONSTANTS
    w1 = w1
    w2 = w2
    w3 = w3
    w4 = w4
    Workers = {w1, w2, w3, w4}
    Modes = {"notify", "spin", "cv"}
    Barriers = 2
    MaxVisits = 5
INVARIANT CountIsBack
PROPERTIES ImplementsRendezvous EverybodyFinishes
