\* Three levels a side with one order each, one level a side with two, no depths
\* to sample, and no volume to draw.
SPECIFICATION Spec
CONSTANTS
    Configs <- Usual
    MaxGap = 2
    MaxU32 = 9
INVARIANTS Accepted DeepDrawsDefined SlotsAgree NothingEmpty PictureMatchesFeed
CHECK_DEADLOCK FALSE
