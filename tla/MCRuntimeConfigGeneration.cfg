\* Two loads at once number their views alike.
CONSTANTS
    l1 = l1
    l2 = l2
    w1 = w1
    w2 = w2
    Loader = {l1, l2}
    Writer = {w1, w2}
    MaxPolls = 1
    MaxVersion = 3
    Invalid = {2}
    MaxGeneration = 3
SPECIFICATION Spec
CHECK_DEADLOCK FALSE
PROPERTIES
    GenerationIncreases
