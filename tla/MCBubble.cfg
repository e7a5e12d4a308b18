SPECIFICATION Spec
CONSTANTS
    Names = {"firstName", "email"}
    Strings = {empty, url}
    ValidURLs = {url}
    Absent = absent
    NotAString = notAString
    Empty = empty
    MaxUsers = 2
INVARIANTS TrapsOnlyOnMissingName ReadsBackTheDocument
