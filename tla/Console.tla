------------------------------- MODULE Console -------------------------------
(***************************************************************************)
(* Keyboard and screen of EphemeralOS: the scan codes and the Shift state  *)
(* of src/drivers/keyboard.c, the line editing of keyboard_getline and of  *)
(* the two keyboard_getline_password (src/kernel/kernel.c and              *)
(* src/installer/installer.c), and the cursor, wrapping and scrolling of   *)
(* src/drivers/screen.c.                                                   *)
(*                                                                         *)
(* The program is the installer, the login or the shell: it prints text,   *)
(* clears the screen, prints a prompt and reads a line, or shows the menu  *)
(* at the end of the installation (show_continue_menu in kernel.c).  One   *)
(* action is one character printed or one scan code read from the          *)
(* controller.  Colours are left out, and so are the codes that change     *)
(* nothing (releases, prefixes, keys outside the table).  Left out too are *)
(* the Shift codes a keyboard sends on its own after a prefix, around      *)
(* Print Screen and, under Num Lock, the arrows: keyboard_getchar skips    *)
(* the prefix and takes them for a Shift key.                              *)
(***************************************************************************)
EXTENDS Integers, Sequences

CONSTANTS
    SCREEN_WIDTH,           \* columns (80)
    SCREEN_HEIGHT,          \* rows (25)
    MAX_LENGTH,             \* size of the line buffer (64 or 256)
    Glyph,                  \* the characters 32 to 126
    Blank,                  \* the one of an empty cell
    Mask,                   \* the one echoed for a password
    Key,                    \* keys with an entry in the tables
    scancode_to_ascii,      \* their characters
    scancode_to_ascii_shift,
    Shift,                  \* the Shift keys
    Prompts,                \* what the program prints before it reads
    Texts,                  \* what else it prints
    Heading,                \* lines of the menu, with their rows: [row, text]
    OptionRow,              \* the rows of its two options (24 and 25)
    Option,                 \* their texts
    Marker                  \* what stands before the selected one

NewLine == "newline"
Backspace == "backspace"
Char == Glyph \cup {NewLine, Backspace}
Row == 0 .. SCREEN_HEIGHT - 1
Column == 0 .. SCREEN_WIDTH - 1
Cells == SCREEN_WIDTH * SCREEN_HEIGHT
LastRow == SCREEN_WIDTH * (SCREEN_HEIGHT - 1)
Cell == 0 .. Cells - 1

ASSUME ScreenAssumption ==
    /\ SCREEN_WIDTH \in Nat \ {0}
    /\ SCREEN_HEIGHT \in Nat \ {0}
    /\ MAX_LENGTH \in Nat \ {0}

ASSUME CharAssumption ==
    /\ {Blank, Mask} \subseteq Glyph
    /\ {NewLine, Backspace} \cap Glyph = {}
    /\ scancode_to_ascii \in [Key -> Char]
    /\ scancode_to_ascii_shift \in [Key -> Char]

\* A prompt has no end of line in it, and with the longest line it leaves a
\* row of the screen free (640 of 2000 characters at most in the code).
ASSUME PromptAssumption ==
    /\ Prompts \subseteq Seq(Glyph)
    /\ Texts \subseteq Seq(Glyph \cup {NewLine})
    /\ \A text \in Prompts : Len(text) + MAX_LENGTH - 1 <= LastRow

\* The first option is on the last row, the second on a row the screen does not
\* have; together they take 16 of its columns.
ASSUME MenuAssumption ==
    /\ Heading \in Seq([row : Nat, text : Seq(Glyph)])
    /\ OptionRow \in [0 .. 1 -> Nat]
    /\ OptionRow[0] = SCREEN_HEIGHT - 1 /\ OptionRow[1] >= SCREEN_HEIGHT
    /\ Option \in [0 .. 1 -> Seq(Glyph)] /\ Marker \in Glyph
    /\ Len(Option[0]) + Len(Option[1]) + 2 < SCREEN_WIDTH

VARIABLES
    video,          \* the characters of the text screen
    cursor_x, cursor_y,
    shift_pressed,
    held,           \* history: the Shift keys that are down
    mode,           \* what the program does: Mode
    prompt,         \* what it printed before it reads
    out,            \* what it has yet to print
    buffer,         \* the characters stored; index is their number
    pending,        \* lines of the menu it has yet to print
    selected        \* the option of the menu

Mode == {"run", "line", "password", "menu", "menu_release"}

screen == <<video, cursor_x, cursor_y>>
keyboard == <<shift_pressed, held>>
menu == <<pending, selected>>
program == <<mode, prompt, out, buffer, menu>>
consoleVars == <<screen, keyboard, program>>
-----------------------------------------------------------------------------
(* screen.c                                                                *)

Position == cursor_y * SCREEN_WIDTH + cursor_x

Written(c) == [video EXCEPT ![Position] = c]
\* Mutant: the last row is left as it was.
ScrolledUncleared(cells) ==
    [i \in Cell |-> IF i < LastRow THEN cells[i + SCREEN_WIDTH] ELSE cells[i]]
Scrolled(cells) ==
    [i \in Cell |-> IF i < LastRow THEN cells[i + SCREEN_WIDTH] ELSE Blank]

\* The cursor goes to the next row; scroll_down moves the picture instead when
\* there is none.
NextRow(cells) ==
    /\ cursor_x' = 0
    /\ \/ /\ cursor_y + 1 >= SCREEN_HEIGHT
          /\ cursor_y' = SCREEN_HEIGHT - 1
          /\ video' = Scrolled(cells)
       \/ /\ cursor_y + 1 < SCREEN_HEIGHT
          /\ cursor_y' = cursor_y + 1
          /\ video' = cells

screen_print_char(c) ==
    \/ /\ c = NewLine
       /\ NextRow(video)
    \/ /\ c # NewLine /\ cursor_x + 1 >= SCREEN_WIDTH
       /\ NextRow(Written(c))
    \/ /\ c # NewLine /\ cursor_x + 1 < SCREEN_WIDTH
       /\ video' = Written(c)
       /\ cursor_x' = cursor_x + 1
       /\ UNCHANGED cursor_y

\* Mutant: at the left margin the cursor stays, as for a printed '\b'.
BackspaceInRow ==
    /\ cursor_x' = (IF cursor_x > 0 THEN cursor_x - 1 ELSE 0)
    /\ UNCHANGED cursor_y
    /\ video' = [video EXCEPT ![cursor_y * SCREEN_WIDTH + cursor_x'] = Blank]
screen_backspace ==
    /\ \/ /\ cursor_x > 0
          /\ cursor_x' = cursor_x - 1
          /\ UNCHANGED cursor_y
       \/ /\ cursor_x = 0 /\ cursor_y > 0
          /\ cursor_x' = SCREEN_WIDTH - 1
          /\ cursor_y' = cursor_y - 1
       \/ /\ cursor_x = 0 /\ cursor_y = 0
          /\ UNCHANGED <<cursor_x, cursor_y>>
    /\ video' = [video EXCEPT ![cursor_y' * SCREEN_WIDTH + cursor_x'] = Blank]

screen_clear ==
    /\ video' = [i \in Cell |-> Blank]
    /\ cursor_x' = 0
    /\ cursor_y' = 0

screen_set_row(row) ==
    /\ IF row < SCREEN_HEIGHT
       THEN cursor_y' = row /\ cursor_x' = 0
       ELSE UNCHANGED <<cursor_x, cursor_y>>
    /\ UNCHANGED video
-----------------------------------------------------------------------------
\* kernel_main clears the screen and initialises the keyboard first.
ConsoleInit ==
    /\ video = [i \in Cell |-> Blank]
    /\ cursor_x = 0 /\ cursor_y = 0
    /\ shift_pressed = FALSE
    /\ held = {}
    /\ mode = "run"
    /\ prompt = << >> /\ out = << >> /\ buffer = << >>
    /\ pending = << >> /\ selected = 0

(* The program, between two lines                                          *)

Ready == mode = "run" /\ out = << >>

Say(text) ==
    /\ Ready
    /\ out' = text
    /\ UNCHANGED <<screen, keyboard, mode, prompt, buffer, menu>>

Clear ==
    /\ Ready
    /\ screen_clear
    /\ UNCHANGED <<keyboard, program>>

AskFor(kind, text) ==
    /\ Ready
    /\ mode' = kind
    /\ prompt' = text
    /\ out' = text
    /\ buffer' = << >>
    /\ UNCHANGED <<screen, keyboard, menu>>

\* One turn of screen_print.
PrintNext ==
    /\ out # << >>
    /\ screen_print_char(Head(out))
    /\ out' = Tail(out)
    /\ UNCHANGED <<keyboard, mode, prompt, buffer, menu>>

(* keyboard_getchar                                                        *)

Reading == mode \in {"line", "password"} /\ out = << >>

ShiftDown(key) ==
    /\ Reading
    /\ shift_pressed' = TRUE
    /\ held' = held \cup {key}
    /\ UNCHANGED <<screen, program>>

\* The release of either key clears the one flag.  Mutant: the code of one of
\* the releases is missing.
ClearsShiftOfOne(key) == key = CHOOSE k \in Shift : TRUE
ClearsShift(key) == TRUE
ShiftUp(key) ==
    /\ Reading
    /\ key \in held
    /\ shift_pressed' = (shift_pressed /\ ~ ClearsShift(key))
    /\ held' = held \ {key}
    /\ UNCHANGED <<screen, program>>

getchar(key) ==
    IF shift_pressed THEN scancode_to_ascii_shift[key] ELSE scancode_to_ascii[key]

(* keyboard_getline and keyboard_getline_password                          *)

EchoAlways(c) == c                      \* mutant: a password is shown
Echo(c) == IF mode = "password" THEN Mask ELSE c

Enter(key) ==
    /\ Reading
    /\ getchar(key) = NewLine
    /\ screen_print_char(NewLine)
    /\ mode' = "run"
    /\ UNCHANGED <<keyboard, prompt, out, buffer, menu>>

Erase(key) ==
    /\ Reading
    /\ getchar(key) = Backspace
    /\ buffer # << >>
    /\ buffer' = SubSeq(buffer, 1, Len(buffer) - 1)
    /\ screen_backspace
    /\ UNCHANGED <<keyboard, mode, prompt, out, menu>>

\* A full buffer takes no more.
HasRoomForEnd == Len(buffer) < MAX_LENGTH       \* mutant: no room for the end
HasRoom == Len(buffer) < MAX_LENGTH - 1
Store(key) ==
    /\ Reading
    /\ getchar(key) \in Glyph
    /\ HasRoom
    /\ buffer' = Append(buffer, getchar(key))
    /\ screen_print_char(Echo(getchar(key)))
    /\ UNCHANGED <<keyboard, mode, prompt, out, menu>>

(* show_continue_menu                                                      *)

Drawn(option, choice) ==
    (IF option = choice THEN <<Marker>> ELSE <<Blank>>) \o Option[option]
Options(choice) ==
    <<[row |-> OptionRow[0], text |-> Drawn(0, choice)],
      [row |-> OptionRow[1], text |-> Drawn(1, choice)]>>

OpenMenu ==
    /\ Ready
    /\ mode' = "menu"
    /\ selected' = 0
    /\ pending' = Heading \o Options(0)
    /\ UNCHANGED <<screen, keyboard, prompt, out, buffer>>

\* screen_set_row and the start of screen_print.
DrawLine ==
    /\ out = << >> /\ pending # << >>
    /\ screen_set_row(Head(pending).row)
    /\ out' = Head(pending).text
    /\ pending' = Tail(pending)
    /\ UNCHANGED <<keyboard, mode, prompt, buffer, selected>>

InMenu == mode = "menu" /\ out = << >> /\ pending = << >>

\* Left and up select the first, right and down the second; both are drawn
\* again.  Mutant: only the one that is selected now is.
RedrawsSelected(choice) == <<Options(choice)[choice + 1]>>
Redraws(choice) == Options(choice)
Arrow(choice) ==
    /\ InMenu
    /\ selected' = choice
    /\ pending' = Redraws(choice)
    /\ UNCHANGED <<screen, keyboard, mode, prompt, out, buffer>>

MenuEnter ==
    /\ InMenu
    /\ mode' = "menu_release"
    /\ UNCHANGED <<screen, keyboard, prompt, out, buffer, menu>>

\* After the release kernel_main clears the screen and keyboard_init runs, at
\* once or, if it has shut down, when it is started next.
MenuReturn ==
    /\ mode = "menu_release"
    /\ mode' = "run"
    /\ screen_clear
    /\ shift_pressed' = FALSE
    /\ UNCHANGED <<held, prompt, out, buffer, menu>>

-----------------------------------------------------------------------------
Program == \/ \E text \in Texts : Say(text)
           \/ Clear
           \/ \E kind \in {"line", "password"}, text \in Prompts : AskFor(kind, text)
           \/ OpenMenu

Typist == \/ \E key \in Shift : ShiftDown(key) \/ ShiftUp(key)
          \/ \E key \in Key : Enter(key) \/ Erase(key) \/ Store(key)
          \/ \E choice \in 0 .. 1 : Arrow(choice)
          \/ MenuEnter \/ MenuReturn

ConsoleNext == Program \/ PrintNext \/ DrawLine \/ Typist

ConsoleSpec == ConsoleInit /\ [][ConsoleNext]_consoleVars

-----------------------------------------------------------------------------
(* Properties                                                              *)

(***************************************************************************)
(* The type invariant: the cursor stays on the screen, where every write   *)
(* to video memory is, and the line leaves room for its end in the buffer. *)
(***************************************************************************)
ConsoleTypeOK ==
    /\ video \in [Cell -> Glyph]
    /\ cursor_x \in Column /\ cursor_y \in Row
    /\ shift_pressed \in BOOLEAN /\ held \subseteq Shift
    /\ mode \in Mode
    /\ prompt \in Seq(Glyph) /\ out \in Seq(Glyph \cup {NewLine})
    /\ buffer \in Seq(Glyph) /\ Len(buffer) < MAX_LENGTH
    /\ pending \in Seq([row : Nat, text : Seq(Glyph)]) /\ selected \in 0 .. 1

\* What should stand before the cursor while a line is asked for and read.
Printed == SubSeq(prompt, 1, Len(prompt) - Len(out))
Echoed == [k \in 1 .. Len(buffer) |-> Echo(buffer[k])]
Expected == Printed \o Echoed

\* The last n cells before the cursor.
Before(n) == [k \in 1 .. n |-> video[Position - n + k - 1]]

(***************************************************************************)
(* keyboard_getline edits the buffer and the screen separately, and the    *)
(* screen wraps, scrolls and steps back over row ends: at every key what   *)
(* stands before the cursor is the prompt and then the line, so that       *)
(* Backspace never eats the prompt and what Enter hands over is what was   *)
(* seen, and nothing is left of what was erased.                           *)
(***************************************************************************)
LineOnScreen ==
    mode \in {"line", "password"} =>
        /\ Len(Expected) <= Position
        /\ Before(Len(Expected)) = Expected

BlankAfterCursor ==
    mode \notin {"menu", "menu_release"} =>
        \A i \in Cell : i >= Position => video[i] = Blank

(***************************************************************************)
(* One flag stands for two Shift keys and is changed by six scan codes:    *)
(* upper case is typed only while a Shift key is down.  (The converse does *)
(* not hold: of two keys held, the first released clears the flag.  Nor is *)
(* it so for the prefixed Shift codes that the model leaves out.)          *)
(***************************************************************************)
ShiftFollowsKeys == shift_pressed => held # {}

(***************************************************************************)
(* show_continue_menu puts its lines on rows 20 to 27 of a screen of 25:   *)
(* screen_set_row ignores the last three, what is printed there scrolls    *)
(* the picture, and the second option lands behind the first.  When a key  *)
(* is awaited the last row still begins with both options, of which the    *)
(* one that ENTER would return has the marker.                             *)
(***************************************************************************)
MenuShowsChoice ==
    InMenu \/ mode = "menu_release" =>
        LET row == Drawn(0, selected) \o Drawn(1, selected)
        IN  \A k \in 1 .. Len(row) : video[LastRow + k - 1] = row[k]

Visible == IF Reading THEN Before(Len(prompt) + Len(buffer)) ELSE << >>

Editor == INSTANCE LineEditor WITH
    Limit <- MAX_LENGTH - 1,
    asking <- Reading,
    masked <- mode = "password",
    line <- buffer,
    visible <- Visible

(***************************************************************************)
(* Keyboard, buffer and screen implement the editing of one line, where    *)
(* what the user sees is read off video memory.                            *)
(***************************************************************************)
ImplementsLineEditor == Editor!EditorSpec

=============================================================================
