------------------------------ MODULE Console ------------------------------
(***************************************************************************)
(* kernel/console.c: from a key and the modifiers to a character of 16     *)
(* bits, ASCII in the low byte and modifiers in the high one; and the      *)
(* consumer that kernel/start.c installs.                                  *)
(***************************************************************************)
EXTENDS Keyboard

CTRL(c) == c + \h8000
SHIFT(c) == c + \h4000
ALT(c) == c + \h2000

Upper(c) == c - 32
LowerCase == 97..122
UpperCase == 65..90

\* What Shift makes of a character: digits, ` - = \ [ ] ; ' , . / have another
\* one, the rest keeps its code and gets the modifier.
Shifted(c) ==
    CASE c = 48 -> 41   [] c = 49 -> 33   [] c = 50 -> 64   [] c = 51 -> 35   [] c = 52 -> 36
      [] c = 53 -> 37   [] c = 54 -> 94   [] c = 55 -> 38   [] c = 56 -> 42   [] c = 57 -> 40
      [] c = 96 -> 126  [] c = 45 -> 95   [] c = 61 -> 43   [] c = 92 -> 124  [] c = 91 -> 123
      [] c = 93 -> 125  [] c = 59 -> 58   [] c = 39 -> 34   [] c = 44 -> 60   [] c = 46 -> 62
      [] c = 47 -> 63   [] OTHER -> SHIFT(c)

is_shift_set(states) == states \cap {KEY_LSHIFT, KEY_RSHIFT} # {}
is_ctrl_set(states) == states \cap {KEY_LCTRL, KEY_RCTRL} # {}
is_alt_set(states) == states \cap {KEY_LALT, KEY_RALT} # {}

apply_modify_keys(c, states) ==
    LET caps == IF KEY_CAPS_LOCK \in states /\ c \in LowerCase THEN Upper(c) ELSE c
        shift == IF is_shift_set(states) THEN Shifted(caps) ELSE caps
        ctrl == IF is_ctrl_set(states) THEN CTRL(shift) ELSE shift
    IN IF is_alt_set(states) THEN ALT(ctrl) ELSE ctrl

\* 0 when there is no character for the key.
console_key_code_handler(states, key) ==
    CASE key < 256 -> apply_modify_keys(key, states)
      [] key \in KEY_KP_0..KEY_KP_9 -> (key % 256) + 48
      [] key = KEY_KP_ASTERISK -> 42
      [] key = KEY_DELETE -> \h7F
      [] OTHER -> 0

\* The consumer showing what it gets (mutant).
test_console_char_consumer_plain(c) == c % 256

\* What test_console_char_consumer puts on the screen.
test_console_char_consumer(c) ==
    CASE c \in SHIFT(97)..SHIFT(122) -> (c % 256) - 32
      [] c \in SHIFT(65)..SHIFT(90) -> (c % 256) + 32
      [] OTHER -> c % 256
=============================================================================
