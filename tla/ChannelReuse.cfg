\* A second connection after the first broke inside a response.
SPECIFICATION ChannelSpec
CONSTANTS
  Header = 2
  Packet = {5}
  Initial = 4
  Big = 7
  MaxMessages = 1
  MaxConnections = 2
INVARIANTS BytesOfCurrentMessage
CHECK_DEADLOCK FALSE
