CONSTANTS
 Writer = {w1}
 Destination = destination
 PackageMax = 1
 ComponentMax = 2
 Gui = {g1}
 MaxIdentity = 3
 MaxForeign = 1
 NoMaximum = none
 Width = {2, 4}
 Height = {2, 4}
 BarWidth = 1
 Padding = 1
 Minimum = 1
 MaxColumns = 2
 Text = 6
 Card = 3
 Threshold = 2
 MaxTurns = 2
 MaxY = 3
SPECIFICATION Spec
INVARIANT FillsCanvas
CHECK_DEADLOCK FALSE
