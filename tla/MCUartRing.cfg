SPECIFICATION Spec
CONSTANTS
    UART_RX_BUF_SIZE = 4
    INDEX_RANGE = 8
    CHAR_MAX = 255
    Byte = {0, 127, 128, 255}
INVARIANT
    TypeOK
PROPERTY
    ImplementsFifo
