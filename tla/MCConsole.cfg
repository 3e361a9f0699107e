SPECIFICATION ConsoleSpec
CONSTANTS
    SCREEN_WIDTH = 4
    SCREEN_HEIGHT = 3
    MAX_LENGTH = 5
    Glyph = {"a", "A", "*", " ", "p", "q", ">"}
    Blank = " "
    Mask = "*"
    Key <- MCKey
    scancode_to_ascii <- MCPlain
    scancode_to_ascii_shift <- MCShifted
    Shift = {"left", "right"}
    Prompts <- MCPrompts
    Texts <- MCTexts
    Heading <- MCHeading
    OptionRow <- MCOptionRow
    Option <- MCOption
    Marker = ">"
INVARIANTS
    ConsoleTypeOK
    LineOnScreen
    BlankAfterCursor
    ShiftFollowsKeys
    MenuShowsChoice
PROPERTIES
    ImplementsLineEditor
