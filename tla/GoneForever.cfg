SPECIFICATION LockSpec
CONSTANTS
    Devices = {pc, deck}
    PLAN_TTL = 1
    MaxUploads = 1
PROPERTIES
    AskersGetThrough
