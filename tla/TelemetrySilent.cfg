\* One fault, then agent, controller and service run on.
CONSTANTS
    WordBase = 16
    NS_PER_SEC = 2
    MAX_PAYLOAD = 64
    JOINT_NAMES <- MCJointNames
    NoFrame = NoFrame
    HB_REQUESTS = 1
    HB_RESPONSES = 1
    FrameNos = 4
    SOCKET_BUFFER = 1
    FRAME_CHANNEL = 2
    ACK_CHANNEL = 1
    MaxFaults = 1
SPECIFICATION OperationFairSpec
PROPERTIES
    TelemetryResumes
\* A robot whose agent has ended is at rest.
CHECK_DEADLOCK FALSE
