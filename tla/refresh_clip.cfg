SPECIFICATION RefreshSpec
CONSTANTS
    rear = rear
    mid = mid
    fore = fore
    Null = Null
    Windows <- MCWindows
    Stacks <- SomeStacks
    Backed = {rear, mid, fore}
    SizeOf <- Sizes3
    Places <- Places3
    Contents <- Contents3
    Chars = {"space", "narrow", "wide"}
    Space = "space"
    CharWidth <- WidthOfChar
    CharBytes <- BytesOfChar
    Attrs = {rear, mid, fore}
    DefaultAttr = "default"
    Clients <- TheTerminal
PROPERTIES ShowsForemost
