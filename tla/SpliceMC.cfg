CONSTANTS
    email = email
    secret = secret
    plain = plain
    Length = 4
    Category <- MCCategory
    Always <- MCAlways
    Plain = plain
    Finds <- MCFinds
SPECIFICATION Spec
CHECK_DEADLOCK FALSE
INVARIANT TypeOK
INVARIANT ResultRestores
INVARIANT LongestIsReplaced
INVARIANT NoMatchUntouched
