\* A sketch joins, scans, leaves and starts again, with DHCP or with its own
\* address, on a network that comes and goes.
CONSTANTS
    ADDRESS = 1
    MaxEvents = 3
    MaxOwed = 2
SPECIFICATION FairSpec
INVARIANTS TypeOK StatusTrue AddressTrue
PROPERTY SetupEnds
CHECK_DEADLOCK FALSE
