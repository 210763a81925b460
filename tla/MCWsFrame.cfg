SPECIFICATION Spec
CONSTANTS
    Frames <- MCFrames
    Losses = {0, 1, 4, 5, 9}
    Trails = {1, 5}
    AnswerLens = {0, 1, 125, 126, 127, 128, 255, 256, 511, 1029, 1030}
    MAX_MSG_LEN = 1024
    SEND_DATA_LEN_MAX = 1034
INVARIANTS DecodeIsRight PacketIsRight
