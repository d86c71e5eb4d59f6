SPECIFICATION RingsSpec
CONSTANTS
  KB_BUFFER_SIZE = 3
  SERIAL_RX_RING_SIZE = 2
  FIFO_DEPTH = 1
  Scancodes <- OneFunctionKey
  Bytes = {"x", "y"}
  Calls = {"input_wait_event"}
PROPERTIES
  KeysKept
  
  WaitReturns
