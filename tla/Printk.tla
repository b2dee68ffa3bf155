------------------------------- MODULE Printk -------------------------------
(***************************************************************************)
(* kernel/printk.c: text on the screen.  A screen is the video memory with  *)
(* its rows from 0 on, one more than are visible, and the cursor.  Colours  *)
(* are left out.                                                            *)
(***************************************************************************)
EXTENDS Vsnprintf

CONSTANTS
    COLUMN, LINE,       \* 80 and 25 in the code
    PRINTK_SIZE         \* of the buffers in printk and panic, 1024 in the code

BLANK == 32
NEWLINE == 10
RETURN == 13
BlankRow == [x \in 0..COLUMN - 1 |-> BLANK]

\* The row below the visible ones is as the BIOS left it, blank.
clear_screen == [video |-> [y \in 0..LINE |-> BlankRow], x |-> 0, y |-> 0]

put_char_at(screen, line, column, c) == [screen EXCEPT !.video[line][column] = c]

\* scroll_up that takes a row less with it (mutant).
scroll_up_short(screen) ==
    IF screen.y < LINE THEN screen
    ELSE [screen EXCEPT !.video = [y \in 0..LINE |-> IF y < LINE - 1 THEN @[y + 1] ELSE @[y]],
                        !.y = LINE - 1]

\* memcpy of LINE rows, from the second one on.
scroll_up(screen) ==
    IF screen.y < LINE THEN screen
    ELSE [screen EXCEPT !.video = [y \in 0..LINE |-> IF y < LINE THEN @[y + 1] ELSE @[y]],
                        !.y = LINE - 1]

put_char(screen, c) ==
    LET full == screen.x + 1 >= COLUMN IN
    scroll_up(
        CASE c = NEWLINE -> [screen EXCEPT !.x = 0, !.y = @ + 1]
          [] c = RETURN  -> [screen EXCEPT !.x = 0]
          [] OTHER       -> [put_char_at(screen, screen.y, screen.x, c)
                               EXCEPT !.x = IF full THEN 0 ELSE @ + 1,
                                      !.y = IF full THEN @ + 1 ELSE @])

\* printk with the text that vsnprintf made of its arguments.
print_string(screen, str) ==
    LET shown[n \in 0..Len(str)] == IF n = 0 THEN screen ELSE put_char(shown[n - 1], str[n])
    IN shown[Len(str)]

-----------------------------------------------------------------------------
(* What the screen should show: the end of an endless sheet of paper.       *)

\* A sheet has the rows 0 to last, and x and y say where the next character goes.
NextRow(p) ==
    LET last == IF p.y = p.last THEN p.last + 1 ELSE p.last
    IN  [rows |-> [y \in 0..last |-> IF y <= p.last THEN p.rows[y] ELSE BlankRow], last |-> last,
         y |-> p.y + 1, x |-> 0]

Write(p, c) ==
    LET ink == [p EXCEPT !.rows[p.y][p.x] = c] IN
    CASE c = NEWLINE -> NextRow(p)
      [] c = RETURN  -> [p EXCEPT !.x = 0]
      [] OTHER       -> IF p.x = COLUMN - 1 THEN NextRow(ink) ELSE [ink EXCEPT !.x = @ + 1]

Paper(old, str) ==
    LET visible == [y \in 0..LINE - 1 |-> old.video[y]]
        paper[n \in 0..Len(str)] ==
            IF n = 0 THEN [rows |-> visible, last |-> LINE - 1, y |-> old.y, x |-> old.x]
            ELSE Write(paper[n - 1], str[n])
    IN paper[Len(str)]

\* The visible rows are the last ones of the paper, with the cursor at its place.
IsEndOfPaper(old, new, str) ==
    LET paper == Paper(old, str)
        above == paper.last + 1 - LINE
    IN  /\ \A y \in 0..LINE - 1 : new.video[y] = paper.rows[above + y]
        /\ new.x = paper.x /\ new.y = paper.y - above
=============================================================================
