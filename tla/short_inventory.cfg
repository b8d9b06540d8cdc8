SPECIFICATION Spec
CONSTANTS
    Cards = {c1, c2}
    Uvm = 510
    OtherRows <- SomeRows
    Guests = {1, 2, 3, 4}
    Meta = 6
    Smi = 2
    Modprobe = 6
    Budget = 12
    Poll = 2
    LockWait = 1
    MaxMoves = 3
INVARIANTS NeverSmaller
