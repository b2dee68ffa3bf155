----------------------------- MODULE Terminal -----------------------------
(***************************************************************************)
(* The keyboard and the screen in use: somebody types, the controller      *)
(* raises IRQ1, kernel/pic.c and kernel/keyboard.c handle it and show what *)
(* was typed, and processes print.  The handler and system calls run with  *)
(* interrupts off; keys are pressed and released at any time, also while   *)
(* the handler empties the buffer.                                         *)
(*                                                                         *)
(* The keyboard and its controller are external.  They have the bytes of a *)
(* key ready at once, as the handler expects, which reads those after the  *)
(* first without looking whether they are there; and they send E0 2A for   *)
(* Print Screen only.                                                      *)
(***************************************************************************)
EXTENDS Console, Printk

CONSTANTS
    Keys,           \* the keys of the keyboard
    Lines,          \* lines of the PIC, IRQ1 among them
    EchoLine,       \* where the consumer shows a key, 17 in the code
    BootMessages, Strings, Reasons,     \* what is printed at boot, by processes, by exceptions
    Desc,           \* the text panic adds
    MaxDown,        \* bound: keys held at the same time
    MaxPending,     \* bound: bytes in the buffer when somebody types on
    MaxPrints       \* bound: calls of printk

IRQ1 == 1

\* The keys of which MakeCode has the bytes.
KeyCodes ==
    Held \cup Locks \cup {KEY_A, KEY_1, KEY_PRINT_SCREEN, KEY_PAUSE, KEY_HOME, KEY_DELETE, KEY_KP_7,
                         KEY_KP_ASTERISK}

ASSUME KeysAssumption == Keys \subseteq KeyCodes
ASSUME LinesAssumption == IRQ1 \in Lines
ASSUME BoundsAssumption == MaxDown \in Nat /\ MaxPending \in Nat \ {0} /\ MaxPrints \in Nat
ASSUME TextAssumption ==
    /\ \A fmt \in BootMessages \cup Reasons : IsFormat(fmt)
    /\ \A str \in Strings \cup {Desc} : str \in Seq(Int)
    /\ UINT_MOD \in Nat \ {0}
ASSUME ScreenAssumption ==
    COLUMN \in Nat \ {0} /\ LINE \in Nat /\ EchoLine \in 0..LINE - 1 /\ PRINTK_SIZE \in Nat

VARIABLES
    buffer,         \* bytes that the controller has for the kernel
    leds,           \* the LEDs that are lit
    key_states,
    imr, irr, isr,  \* the PIC: lines masked, requested, in service
    cpu,            \* "boot", "ready", "user", "irq" or "halt"
    screen,
    out,            \* the last call of vsnprintf: format, size and result
    prints,
    down, locks,    \* keys held; lock keys whose make code was sent an odd number of times
    typed           \* characters typed and not shown yet

keyboard == <<buffer, leds, down, locks, typed>>
pic == <<imr, irr, isr>>
text == <<screen, out, prints>>
vars == <<keyboard, key_states, pic, cpu, text>>

-----------------------------------------------------------------------------
(* The keyboard.                                                           *)

ACK == \hFA

MakeCode(key) ==
    CASE key = KEY_A -> <<\h1E>>            [] key = KEY_1 -> <<\h02>>
      [] key = KEY_LSHIFT -> <<\h2A>>       [] key = KEY_RSHIFT -> <<\h36>>
      [] key = KEY_LCTRL -> <<\h1D>>        [] key = KEY_RCTRL -> <<\hE0, \h1D>>
      [] key = KEY_LALT -> <<\h38>>         [] key = KEY_RALT -> <<\hE0, \h38>>
      [] key = KEY_CAPS_LOCK -> <<\h3A>>    [] key = KEY_NUM_LOCK -> <<\h45>>
      [] key = KEY_SCROLL_LOCK -> <<\h46>>  [] key = KEY_KP_7 -> <<\h47>>
      [] key = KEY_KP_ASTERISK -> <<\h37>>  [] key = KEY_HOME -> <<\hE0, \h47>>
      [] key = KEY_DELETE -> <<\hE0, \h53>>
      [] key = KEY_PRINT_SCREEN -> <<\hE0, \h2A, \hE0, \h37>>
      [] key = KEY_PAUSE -> <<\hE1, \h1D, \h45, \hE1, \h9D, \hC5>>

BreakCode(key) ==
    IF key = KEY_PRINT_SCREEN THEN <<\hE0, \hB7, \hE0, \hAA>>
    ELSE [MakeCode(key) EXCEPT ![Len(MakeCode(key))] = @ + \h80]

\* The LEDs that the data byte of the command lights.
Lit(data) == {key \in Locks : (data \div (CASE key = KEY_SCROLL_LOCK -> 1
                                            [] key = KEY_NUM_LOCK -> 2
                                            [] key = KEY_CAPS_LOCK -> 4)) % 2 = 1}

\* The characters a typist expects: Shift and Caps Lock change the case, but
\* not together, nor Shift with Ctrl or Alt.
Expected(key) ==
    LET shift == is_shift_set(down) /\ ~is_ctrl_set(down) /\ ~is_alt_set(down)
        caps == KEY_CAPS_LOCK \in locks
    IN  CASE key = KEY_A -> IF shift # caps THEN <<65>> ELSE <<97>>
          [] key = KEY_1 -> IF is_shift_set(down) THEN <<33>> ELSE <<49>>
          [] key = KEY_KP_7 -> IF KEY_NUM_LOCK \in locks THEN <<55>> ELSE <<>>
          [] key = KEY_KP_ASTERISK -> IF KEY_NUM_LOCK \in locks THEN <<42>> ELSE <<>>
          [] key = KEY_DELETE -> <<\h7F>>
          [] OTHER -> <<>>

\* The controller has bytes for the kernel: the first one raises IRQ1.
Send(bytes) ==
    /\ buffer' = buffer \o bytes
    /\ irr' = IF buffer = <<>> THEN irr \cup {IRQ1} ELSE irr

Listening == cpu # "boot" /\ Len(buffer) < MaxPending

\* A key goes down, or is held and repeats.
press(key) ==
    /\ Listening
    /\ IF key \in down THEN key # KEY_PRINT_SCREEN ELSE Cardinality(down) < MaxDown
    /\ Send(MakeCode(key))
    /\ down' = IF key = KEY_PAUSE THEN down ELSE down \cup {key}
    /\ locks' = (locks \cup ({key} \cap Locks)) \ (locks \cap {key})
    /\ typed' = typed \o Expected(key)
    /\ UNCHANGED <<leds, key_states, imr, isr, cpu, text>>

release(key) ==
    /\ Listening
    /\ key \in down
    /\ Send(BreakCode(key))
    /\ down' = down \ {key}
    /\ UNCHANGED <<leds, locks, typed, key_states, imr, isr, cpu, text>>

-----------------------------------------------------------------------------
(* The screen.                                                             *)

\* printk, by code that runs with interrupts off.
printk(fmt) ==
    /\ prints < MaxPrints
    /\ prints' = prints + 1
    /\ LET result == vsnprintf(PRINTK_SIZE, fmt) IN
       /\ out' = [size |-> PRINTK_SIZE, fmt |-> fmt, result |-> result]
       /\ screen' = print_string(screen, result.str)

String(str) == [flags |-> <<>>, width |-> 0, conv |-> "s", arg |-> str]
Literal(c) == [flags |-> <<>>, width |-> 0, conv |-> "lit", arg |-> c]

boot_message(fmt) ==
    /\ cpu = "boot"
    /\ printk(fmt)
    /\ UNCHANGED <<keyboard, key_states, pic, cpu>>

sys_prints(str) ==
    /\ cpu = "user"
    /\ printk(<<String(str)>>)
    /\ UNCHANGED <<keyboard, key_states, pic, cpu>>

\* With interrupts off, for good.
panic(fmt) ==
    /\ printk(<<String(vsnprintf(PRINTK_SIZE, fmt).str), Literal(NEWLINE), Literal(NEWLINE),
                String(Desc)>>)
    /\ cpu' = "halt"

\* A process causes an exception: every handler calls panic with its own text.
excep_handle(fmt) ==
    /\ cpu = "user"
    /\ panic(fmt)
    /\ UNCHANGED <<keyboard, key_states, pic>>

-----------------------------------------------------------------------------
(* Booting and handling interrupts.                                        *)

pic_enable_irq(irq_line) == imr' = imr \ {irq_line}
pic_send_eoi(irq_line) == isr' = isr \ {irq_line}

\* pic_initialize has masked all lines, clear_screen has run; the LEDs are as
\* the BIOS left them.
Init ==
    /\ buffer = <<>> /\ leds \in SUBSET (Keys \cap Locks) /\ down = {} /\ locks = {} /\ typed = <<>>
    /\ key_states = {}
    /\ imr = Lines /\ irr = {} /\ isr = {}
    /\ cpu = "boot"
    /\ screen = clear_screen
    /\ out = [size |-> 0, fmt |-> <<>>, result |-> vsnprintf(0, <<>>)]
    /\ prints = 0

\* kbd_initialize: the self test has been answered, the LEDs go off, and the
\* answers to the command stay in the buffer; pic_register_isr unmasks the line.
kbd_initialize ==
    /\ cpu = "boot"
    /\ key_states' = {}
    /\ leds' = Lit(set_leds({}))
    /\ Send(<<ACK, ACK>>)
    /\ pic_enable_irq(IRQ1)
    /\ cpu' = "ready"
    /\ UNCHANGED <<down, locks, typed, isr, text>>

\* test_install_keyboard, then scheduler() enters user mode.
scheduler ==
    /\ cpu = "ready"
    /\ cpu' = "user"
    /\ UNCHANGED <<keyboard, key_states, pic, text>>

\* The CPU takes the interrupt.
interrupt ==
    /\ cpu = "user"
    /\ IRQ1 \in (irr \ imr) \ isr
    /\ irr' = irr \ {IRQ1} /\ isr' = isr \cup {IRQ1}
    /\ cpu' = "irq"
    /\ UNCHANGED <<keyboard, key_states, imr, text>>

\* One round of keyboard_handler.  The answers to set_leds come before or after
\* what is still in the buffer.
keyboard_handler ==
    LET scan == scan_to_key_code(buffer)
        rest == SubSeq(buffer, scan.bytes + 1, Len(buffer))
        states == update_key_states(key_states, scan.key_code, scan.is_break)
        c == console_key_code_handler(states, scan.key_code)
    IN  /\ cpu = "irq" /\ buffer # <<>>
        /\ key_states' = states
        /\ IF states \cap Locks # key_states \cap Locks
           THEN /\ leds' = Lit(set_leds(states))
                /\ buffer' \in {<<ACK, ACK>> \o rest, rest \o <<ACK, ACK>>}
           ELSE UNCHANGED leds /\ buffer' = rest
        /\ irr' = IF buffer' = <<>> THEN irr ELSE irr \cup {IRQ1}
        /\ IF is_reported(states, scan.key_code, scan.is_break) /\ c # 0
           THEN /\ screen' = put_char_at(screen, EchoLine, 0, test_console_char_consumer(c))
                /\ typed' = SubSeq(typed, 2, Len(typed))
           ELSE UNCHANGED <<screen, typed>>
        /\ UNCHANGED <<down, locks, imr, isr, cpu, out, prints>>

\* The end of pic_interrupt without pic_send_eoi (mutant).
pic_interrupt_no_eoi ==
    /\ cpu = "irq" /\ buffer = <<>>
    /\ cpu' = "user"
    /\ UNCHANGED <<keyboard, key_states, pic, text>>

\* The loop of keyboard_handler ends, pic_interrupt sends EOI, and iret.
pic_interrupt ==
    /\ cpu = "irq" /\ buffer = <<>>
    /\ pic_send_eoi(IRQ1)
    /\ cpu' = "user"
    /\ UNCHANGED <<keyboard, key_states, imr, irr, text>>

Next ==
    \/ \E key \in Keys : press(key) \/ release(key)
    \/ \E fmt \in BootMessages : boot_message(fmt)
    \/ kbd_initialize \/ scheduler
    \/ interrupt \/ keyboard_handler \/ pic_interrupt
    \/ \E str \in Strings : sys_prints(str)
    \/ \E fmt \in Reasons : excep_handle(fmt)

Spec == Init /\ [][Next]_vars

\* Boot goes on, an interrupt that can be taken is taken, and the handler runs.
FairSpec == Spec /\ WF_vars(kbd_initialize) /\ WF_vars(scheduler)
                 /\ WF_vars(interrupt) /\ WF_vars(keyboard_handler) /\ WF_vars(pic_interrupt)

-----------------------------------------------------------------------------
(* Properties.                                                             *)

\* Whenever the handler has caught up with the typist, key_states has exactly
\* the modifiers that are held and the locks that are on, the LEDs say the same,
\* and every character typed was shown: no byte of a longer sequence, and no
\* answer to a command, was taken for a key.
StatesMatch ==
    cpu \in {"user", "irq"} /\ buffer = <<>> =>
        /\ key_states = (down \cap Held) \cup locks
        /\ leds = locks
        /\ typed = <<>>

\* What the handler shows is the character that was typed, for the modifiers at
\* the time it was typed, however far behind the handler is.
EchoIsTyped ==
    [][cpu = "irq" /\ (screen' # screen \/ Len(typed') < Len(typed)) =>
          typed # <<>> /\ screen'.video[EchoLine][0] = typed[1]]_vars

\* The interrupt comes again after each time it was handled: a modifier that is
\* pressed is noticed unless it is released before.
PressNoticed ==
    \A key \in Keys \cap Held :
        key \in down ~> key \in key_states \/ key \notin down \/ cpu = "halt"

\* stdio.h on vsnprintf, for what printk and panic make of it.
Formatted == IsFormatted(out.size, out.fmt, out.result)

\* What is printed appears at the cursor, and rows that scroll away make room for
\* rows that are blank: the screen is the end of an endless sheet of paper.
ScreenIsPaper ==
    [][prints' # prints => IsEndOfPaper(screen, screen', out'.result.str)]_vars
=============================================================================
