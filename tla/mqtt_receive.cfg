CONSTANTS
    Radix = 2
    BufSize = 6
    Lengths = {2, 3, 4}
    MQTT_PINGRESP_TIMEOUT_MS = 1
    PACKET_TX_TIMEOUT_MS = 2
    PACKET_RX_TIMEOUT_MS = 3
    TimeMod = 4
    MaxPackets = 2
SPECIFICATION ReceiveSpec
INVARIANTS StreamIntact RoomToReceive
PROPERTY EveryPacketHanded
