SPECIFICATION Spec
CONSTANTS
    PlatformReasons = {"service_withdrawn"}
    MaxFrames = 2
PROPERTY CloseEndsTheWait
CHECK_DEADLOCK FALSE
