SPECIFICATION Spec
CONSTANTS
    Byte = {1, 2}
    RingSize = 3
PROPERTIES
    QueueSpec
