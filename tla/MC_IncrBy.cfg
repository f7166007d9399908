\* INCR/INCRBY/DECR/DECRBY at width 4 over every stored value and argument.
CONSTANTS
    absent = absent
    str = str
    list = list
    W = 4
    Absent = absent
    Str = str
    List = list
    notint = notint
    NotInt = notint
SPECIFICATION Spec
PROPERTIES
    IncrNeverWraps
    IncrOverflowExact
