----------------------------- MODULE MCTerminal -----------------------------
(* An instance of Terminal for TLC: keys with one, two, four and six bytes, *)
(* a screen of 3 columns and 2 lines, and 7 characters for printk.          *)
EXTENDS Terminal

MCKeys == {KEY_A, KEY_LSHIFT, KEY_RCTRL, KEY_CAPS_LOCK, KEY_NUM_LOCK, KEY_KP_7, KEY_DELETE,
           KEY_PRINT_SCREEN, KEY_PAUSE}

Dir(flags, width, conv, arg) == [flags |-> flags, width |-> width, conv |-> conv, arg |-> arg]

\* "%-4s%3d" and "%p\n%0-5d", whose ends do not fit, and "\r% 04x%c".
MCBootMessages ==
    {<<Dir(<<"-">>, 4, "s", <<97, 98>>), Dir(<<>>, 3, "d", -128)>>,
     <<Dir(<<>>, 0, "p", 255), Literal(NEWLINE), Dir(<<"0", "-">>, 5, "d", 12)>>,
     <<Literal(RETURN), Dir(<<" ", "0">>, 4, "x", 171), Dir(<<>>, 0, "c", 99)>>}

MCStrings == {<<97, 98, NEWLINE, 99>>}

\* panic("%u"); the handlers print an address or an error code.
MCReasons == {<<Dir(<<>>, 0, "u", 200)>>}
MCDesc == <<101, NEWLINE>>
=============================================================================
