CONSTANTS
    Handlers = {h1, h2}
    Clients = {c1}
    Contents <- TwoContents
    NoContent = NoContent
    OtherPosts <- TypedPosts
    NoNote = NoNote
    NoPage = NoPage
    NoRequest = NoRequest
    MaxTokens = 3
    MaxAdds = 1
    MaxTime = 0
    Asked = {"EditNote", "DeleteNote", "PasteBinNote"}
    Typed = {"EditNote"}
    CrashAnytime = TRUE
    a = a
    b = b
SPECIFICATION MCFairSpec
INVARIANTS
    TypeOK
    ActsOnOwnOrEmptyToken
    LoneTokenValid
    StaleTokenRefused
PROPERTIES
    
    Answered
