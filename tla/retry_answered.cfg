SPECIFICATION Spec
CONSTANTS
    Sessions = {s1}
    MaxResumes = 1
    MaxWaits = 3
    Moves = {"gate", "crash"}
    MaxTicks = 1
PROPERTIES
    DueWaitIsAnswered
    StopSticks
