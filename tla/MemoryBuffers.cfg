\* Texts of one and two bytes and a buffer that grows twice.  A write through
\* null, or outside the buffer, ends the program.
SPECIFICATION Spec
CONSTANTS
    Plain = {a}
    Stop = Stop
    Nul = Nul
    Junk = Junk
    FirstSizes = {0, 2}
    DefaultSize = 1
    Limits = {0, 3}
    NewSizes = {1, 3}
    MaxSize = 4
    MaxTaken = 4
    MaxText = 2
    Wrap = 16
CHECK_DEADLOCK FALSE
INVARIANT DataIsAccepted
PROPERTY RefusedMeansFull
