SPECIFICATION FairSpec
CONSTANTS
    Message = {m1}
    Server = {s1, s2}
    None = None
PROPERTIES
    PostsEnd
