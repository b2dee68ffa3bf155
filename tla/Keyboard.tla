----------------------------- MODULE Keyboard -----------------------------
(***************************************************************************)
(* The scan code decoder of kernel/keyboard.c, as functions of the bytes in *)
(* the controller's buffer and of key_states.  Of each class of keys that   *)
(* the code treats alike one or two are here.  A KEY_STATE_ bit is the key  *)
(* it stands for, key_states a set of such keys.                            *)
(***************************************************************************)
EXTENDS Integers, Sequences

KEY_A == 97
KEY_1 == 49
KEY_CAPS_LOCK == \h2001
KEY_LSHIFT == \h2002
KEY_LCTRL == \h2003
KEY_LALT == \h2005
KEY_RSHIFT == \h2006
KEY_RCTRL == \h2007
KEY_RALT == \h2009
KEY_PRINT_SCREEN == \h200A
KEY_SCROLL_LOCK == \h200B
KEY_PAUSE == \h200C
KEY_HOME == \h200E
KEY_DELETE == \h2010
KEY_NUM_LOCK == \h2013
KEY_KP_0 == \h4000
KEY_KP_7 == \h4007
KEY_KP_9 == \h4009
KEY_KP_ASTERISK == \h400B
KEY_KP_DOT == \h400F
KEY_UNKNOWN == \h4010

Held == {KEY_LSHIFT, KEY_RSHIFT, KEY_LCTRL, KEY_RCTRL, KEY_LALT, KEY_RALT}
Locks == {KEY_NUM_LOCK, KEY_CAPS_LOCK, KEY_SCROLL_LOCK}

make2key(code) ==
    CASE code = \h02 -> KEY_1           [] code = \h1D -> KEY_LCTRL
      [] code = \h1E -> KEY_A           [] code = \h2A -> KEY_LSHIFT
      [] code = \h36 -> KEY_RSHIFT      [] code = \h37 -> KEY_KP_ASTERISK
      [] code = \h38 -> KEY_LALT        [] code = \h3A -> KEY_CAPS_LOCK
      [] code = \h45 -> KEY_NUM_LOCK    [] code = \h46 -> KEY_SCROLL_LOCK
      [] code = \h47 -> KEY_KP_7        [] OTHER -> KEY_UNKNOWN

\* The code after E0.  Print Screen is E0 2A E0 37, and E0 B7 E0 AA when it is
\* released; the break code of Home is E0 C7, so that nothing is known of it.
e0_prefix_scan_to_key_code(code) ==
    LET low == IF code > \h80 THEN code - \h80 ELSE code
        print_screen == {\h2A, \hB7}
    IN  [key_code |-> CASE code \in print_screen -> KEY_PRINT_SCREEN
                        [] code \in {\h47, \h97} -> KEY_HOME
                        [] low = \h1D -> KEY_RCTRL
                        [] low = \h38 -> KEY_RALT
                        [] low = \h53 -> KEY_DELETE
                        [] OTHER -> KEY_UNKNOWN,
         is_break |-> code > \h80,
         bytes |-> IF code \in print_screen THEN 4 ELSE 2]

\* The bytes of Pause read like other keys (mutant).
scan_to_key_code_no_e1(buffer) ==
    LET code == buffer[1] IN
    CASE code \in 1..\h58 ->
            [key_code |-> make2key(code), is_break |-> FALSE, bytes |-> 1]
      [] code \in \h81..\hD8 ->
            [key_code |-> make2key(code - \h80), is_break |-> TRUE, bytes |-> 1]
      [] code = \hE0 -> e0_prefix_scan_to_key_code(buffer[2])
      [] OTHER -> [key_code |-> KEY_UNKNOWN, is_break |-> FALSE, bytes |-> 1]

\* keyboard_handler up to update_key_states: what the next bytes of the buffer
\* say, and how many of them were read.
scan_to_key_code(buffer) ==
    LET code == buffer[1] IN
    CASE code \in 1..\h58 ->
            [key_code |-> make2key(code), is_break |-> FALSE, bytes |-> 1]
      [] code \in \h81..\hD8 ->
            [key_code |-> make2key(code - \h80), is_break |-> TRUE, bytes |-> 1]
      [] code = \hE0 -> e0_prefix_scan_to_key_code(buffer[2])
      [] code = \hE1 -> [key_code |-> KEY_PAUSE, is_break |-> FALSE, bytes |-> 6]
      [] OTHER -> [key_code |-> KEY_UNKNOWN, is_break |-> FALSE, bytes |-> 1]

\* A lock key flips its state when it is pressed, a modifier has it while held.
update_key_states(states, key, is_break) ==
    CASE key \in Locks /\ ~is_break ->
            IF key \in states THEN states \ {key} ELSE states \cup {key}
      [] key \in Held -> IF is_break THEN states \ {key} ELSE states \cup {key}
      [] OTHER -> states

\* The data byte of the command that set_leds sends.
set_leds(states) ==
    (IF KEY_SCROLL_LOCK \in states THEN 1 ELSE 0) + (IF KEY_NUM_LOCK \in states THEN 2 ELSE 0)
        + (IF KEY_CAPS_LOCK \in states THEN 4 ELSE 0)

\* The key code handler is called: for keys pressed, and for the keypad only
\* while Num Lock is on.
is_reported(states, key, is_break) ==
    ~is_break /\ (key \in KEY_KP_0..KEY_KP_DOT => KEY_NUM_LOCK \in states)
=============================================================================
