\* Overlapping checks of the cpu and edits of its monitor.
SPECIFICATION Spec
CONSTANTS
    p1 = p1
    p2 = p2
    g1 = g1
    g2 = g2
    None = None
    Providers = {p1, p2}
    Checks = {g1, g2}
    Thresholds = {0, 55, 101}
    Boot <- MCBoot
    MaxTicks = 5
SYMMETRY Symmetric
INVARIANTS TypeOK LoadIsSeen
