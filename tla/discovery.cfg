CONSTANTS
    Tasks = {t1, t2}
    Addresses = {a1, a2}
    NoAddress = NoAddress
SPECIFICATION DiscoverySpec
INVARIANTS BeaconFollows TxtFollows
PROPERTY CommandsReturn
