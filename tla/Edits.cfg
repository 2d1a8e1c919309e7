CONSTANTS
    Handlers = {h1, h2}
    Clients = {c1, c2}
    Contents <- TwoContents
    NoContent = NoContent
    OtherPosts <- TypedPosts
    NoNote = NoNote
    NoPage = NoPage
    NoRequest = NoRequest
    MaxTokens = 3
    MaxAdds = 2
    MaxTime = 1
    Asked = {"EditNote", "DeleteNote"}
    Typed = {"DeleteNote"}
    CrashAnytime = FALSE
    a = a
    b = b
SPECIFICATION MCSpec
SYMMETRY ContentSymmetry
VIEW NoTokenHistory
INVARIANT AddedBeforeChanged
PROPERTIES
    DeletesShownNote
    ImplementsStore
