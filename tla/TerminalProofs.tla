--------------------------- MODULE TerminalProofs ---------------------------
(***************************************************************************)
(* Proofs about Terminal: however far the handler is behind the typist,    *)
(* it takes each key for what it was, and the screen is the end of what    *)
(* was printed.                                                            *)
(***************************************************************************)
EXTENDS Terminal, NatFacts, SequenceTheorems

-----------------------------------------------------------------------------
(* What the bytes of a key do.                                             *)

States == Held \cup Locks

\* The characters for a key that is pressed while states are in force.
Chars(states, key) ==
    LET shift == is_shift_set(states) /\ ~is_ctrl_set(states) /\ ~is_alt_set(states)
    IN  CASE key = KEY_A -> IF shift # (KEY_CAPS_LOCK \in states) THEN <<65>> ELSE <<97>>
          [] key = KEY_1 -> IF is_shift_set(states) THEN <<33>> ELSE <<49>>
          [] key = KEY_KP_7 -> IF KEY_NUM_LOCK \in states THEN <<55>> ELSE <<>>
          [] key = KEY_KP_ASTERISK -> IF KEY_NUM_LOCK \in states THEN <<42>> ELSE <<>>
          [] key = KEY_DELETE -> <<\h7F>>
          [] OTHER -> <<>>

\* What the bytes by at the front of the buffer stand for: from the states s they
\* lead to the states z and to the characters ch.
IsAck(by, s, ch, z) == by = <<ACK>> /\ z = s /\ ch = <<>>

IsMake(key, by, s, ch, z) ==
    by = MakeCode(key) /\ z = update_key_states(s, key, FALSE) /\ ch = Chars(s, key)

IsBreak(key, by, s, ch, z) ==
    by = BreakCode(key) /\ z = update_key_states(s, key, TRUE) /\ ch = <<>>

IsEvent(by, s, ch, z) ==
    \/ IsAck(by, s, ch, z)
    \/ \E key \in KeyCodes : IsMake(key, by, s, ch, z)
    \/ \E key \in KeyCodes \ {KEY_PAUSE} : IsBreak(key, by, s, ch, z)

\* What a round of keyboard_handler shows.
Echo(z, key, is_break) ==
    LET c == console_key_code_handler(z, key)
    IN  IF is_reported(z, key, is_break) /\ c # 0 THEN <<test_console_char_consumer(c)>> ELSE <<>>

\* A round that finds by at the front of the buffer does with it what it stands for.
Handled(b, by, s, ch, z) ==
    LET scan == scan_to_key_code(b)
    IN  /\ scan.bytes = Len(by) /\ update_key_states(s, scan.key_code, scan.is_break) = z
        /\ Echo(z, scan.key_code, scan.is_break) = ch

KeyNumbers ==
    /\ KEY_A = 97 /\ KEY_1 = 49
    /\ KEY_CAPS_LOCK = 8193 /\ KEY_LSHIFT = 8194 /\ KEY_LCTRL = 8195 /\ KEY_LALT = 8197
    /\ KEY_RSHIFT = 8198 /\ KEY_RCTRL = 8199 /\ KEY_RALT = 8201 /\ KEY_PRINT_SCREEN = 8202
    /\ KEY_SCROLL_LOCK = 8203 /\ KEY_PAUSE = 8204 /\ KEY_HOME = 8206 /\ KEY_DELETE = 8208
    /\ KEY_NUM_LOCK = 8211 /\ KEY_KP_0 = 16384 /\ KEY_KP_7 = 16391 /\ KEY_KP_9 = 16393
    /\ KEY_KP_ASTERISK = 16395 /\ KEY_KP_DOT = 16399 /\ KEY_UNKNOWN = 16400

\* The numbers of the keys.
LEMMA Numbers == KeyNumbers
  BY DEF KeyNumbers, KEY_A, KEY_1, KEY_CAPS_LOCK, KEY_LSHIFT, KEY_LCTRL, KEY_LALT, KEY_RSHIFT,
         KEY_RCTRL, KEY_RALT, KEY_PRINT_SCREEN, KEY_SCROLL_LOCK, KEY_PAUSE, KEY_HOME, KEY_DELETE,
         KEY_NUM_LOCK, KEY_KP_0, KEY_KP_7, KEY_KP_9, KEY_KP_ASTERISK, KEY_KP_DOT, KEY_UNKNOWN

\* What the keys send when they go down and when they come up.
MakeCodes ==
    /\ MakeCode(KEY_A) = <<30>>
    /\ MakeCode(KEY_1) = <<2>>
    /\ MakeCode(KEY_LSHIFT) = <<42>>
    /\ MakeCode(KEY_RSHIFT) = <<54>>
    /\ MakeCode(KEY_LCTRL) = <<29>>
    /\ MakeCode(KEY_RCTRL) = <<224, 29>>
    /\ MakeCode(KEY_LALT) = <<56>>
    /\ MakeCode(KEY_RALT) = <<224, 56>>
    /\ MakeCode(KEY_CAPS_LOCK) = <<58>>
    /\ MakeCode(KEY_NUM_LOCK) = <<69>>
    /\ MakeCode(KEY_SCROLL_LOCK) = <<70>>
    /\ MakeCode(KEY_KP_7) = <<71>>
    /\ MakeCode(KEY_KP_ASTERISK) = <<55>>
    /\ MakeCode(KEY_HOME) = <<224, 71>>
    /\ MakeCode(KEY_DELETE) = <<224, 83>>
    /\ MakeCode(KEY_PRINT_SCREEN) = <<224, 42, 224, 55>>
    /\ MakeCode(KEY_PAUSE) = <<225, 29, 69, 225, 157, 197>>

BreakCodes ==
    /\ BreakCode(KEY_A) = <<158>>
    /\ BreakCode(KEY_1) = <<130>>
    /\ BreakCode(KEY_LSHIFT) = <<170>>
    /\ BreakCode(KEY_RSHIFT) = <<182>>
    /\ BreakCode(KEY_LCTRL) = <<157>>
    /\ BreakCode(KEY_RCTRL) = <<224, 157>>
    /\ BreakCode(KEY_LALT) = <<184>>
    /\ BreakCode(KEY_RALT) = <<224, 184>>
    /\ BreakCode(KEY_CAPS_LOCK) = <<186>>
    /\ BreakCode(KEY_NUM_LOCK) = <<197>>
    /\ BreakCode(KEY_SCROLL_LOCK) = <<198>>
    /\ BreakCode(KEY_KP_7) = <<199>>
    /\ BreakCode(KEY_KP_ASTERISK) = <<183>>
    /\ BreakCode(KEY_HOME) = <<224, 199>>
    /\ BreakCode(KEY_DELETE) = <<224, 211>>
    /\ BreakCode(KEY_PRINT_SCREEN) = <<224, 183, 224, 170>>

\* The codes of the keys that MakeCode gives, in decimal.
LEMMA MakeBytes == MakeCodes
  BY Numbers DEF KeyNumbers, MakeCodes, MakeCode

\* A break code is the make code with bit 7 of its last byte set.
LEMMA LastByte ==
    ASSUME NEW a \in Int, NEW b \in Int
    PROVE  /\ [<<a>> EXCEPT ![Len(<<a>>)] = @ + 128] = <<a + 128>>
           /\ [<<a, b>> EXCEPT ![Len(<<a, b>>)] = @ + 128] = <<a, b + 128>>
  OBVIOUS

\* The codes that BreakCode gives.
LEMMA BreakBytes == BreakCodes
  <1>1. BreakCode(KEY_PRINT_SCREEN) = <<224, 183, 224, 170>>
    BY DEF BreakCode
  <1>2. ASSUME NEW key, NEW a \in Int, NEW b \in Int, key # KEY_PRINT_SCREEN
        PROVE  /\ MakeCode(key) = <<a>> => BreakCode(key) = <<a + 128>>
               /\ MakeCode(key) = <<a, b>> => BreakCode(key) = <<a, b + 128>>
    <2> DEFINE m == MakeCode(key)
    <2>1. BreakCode(key) = [m EXCEPT ![Len(m)] = @ + 128]
      BY <1>2 DEF BreakCode
    <2> HIDE DEF m
    <2>2. m = <<a>> => BreakCode(key) = <<a + 128>>
      BY <2>1, LastByte
    <2>3. m = <<a, b>> => BreakCode(key) = <<a, b + 128>>
      BY <2>1, LastByte
    <2> QED
      BY <2>2, <2>3 DEF m
  <1>3. BreakCode(KEY_A) = <<158>>
    BY <1>2, MakeBytes, Numbers DEF MakeCodes, KeyNumbers
  <1>4. BreakCode(KEY_1) = <<130>>
    BY <1>2, MakeBytes, Numbers DEF MakeCodes, KeyNumbers
  <1>5. BreakCode(KEY_LSHIFT) = <<170>>
    BY <1>2, MakeBytes, Numbers DEF MakeCodes, KeyNumbers
  <1>6. BreakCode(KEY_RSHIFT) = <<182>>
    BY <1>2, MakeBytes, Numbers DEF MakeCodes, KeyNumbers
  <1>7. BreakCode(KEY_LCTRL) = <<157>>
    BY <1>2, MakeBytes, Numbers DEF MakeCodes, KeyNumbers
  <1>8. BreakCode(KEY_RCTRL) = <<224, 157>>
    BY <1>2, MakeBytes, Numbers DEF MakeCodes, KeyNumbers
  <1>9. BreakCode(KEY_LALT) = <<184>>
    BY <1>2, MakeBytes, Numbers DEF MakeCodes, KeyNumbers
  <1>10. BreakCode(KEY_RALT) = <<224, 184>>
    BY <1>2, MakeBytes, Numbers DEF MakeCodes, KeyNumbers
  <1>11. BreakCode(KEY_CAPS_LOCK) = <<186>>
    BY <1>2, MakeBytes, Numbers DEF MakeCodes, KeyNumbers
  <1>12. BreakCode(KEY_NUM_LOCK) = <<197>>
    BY <1>2, MakeBytes, Numbers DEF MakeCodes, KeyNumbers
  <1>13. BreakCode(KEY_SCROLL_LOCK) = <<198>>
    BY <1>2, MakeBytes, Numbers DEF MakeCodes, KeyNumbers
  <1>14. BreakCode(KEY_KP_7) = <<199>>
    BY <1>2, MakeBytes, Numbers DEF MakeCodes, KeyNumbers
  <1>15. BreakCode(KEY_KP_ASTERISK) = <<183>>
    BY <1>2, MakeBytes, Numbers DEF MakeCodes, KeyNumbers
  <1>16. BreakCode(KEY_HOME) = <<224, 199>>
    BY <1>2, MakeBytes, Numbers DEF MakeCodes, KeyNumbers
  <1>17. BreakCode(KEY_DELETE) = <<224, 211>>
    BY <1>2, MakeBytes, Numbers DEF MakeCodes, KeyNumbers
  <1> QED
    BY <1>1, <1>3, <1>4, <1>5, <1>6, <1>7, <1>8, <1>9, <1>10, <1>11, <1>12, <1>13, <1>14, <1>15,
       <1>16, <1>17 DEF BreakCodes

\* Scanning by the first byte.
LEMMA ScanByte ==
    ASSUME NEW code \in Int, NEW b2 \in Seq(Int)
    PROVE  /\ code \in 1..88 => scan_to_key_code(<<code>> \o b2) =
                [key_code |-> make2key(code), is_break |-> FALSE, bytes |-> 1]
           /\ code \in 129..216 => scan_to_key_code(<<code>> \o b2) =
                [key_code |-> make2key(code - 128), is_break |-> TRUE, bytes |-> 1]
           /\ code = 250 => scan_to_key_code(<<code>> \o b2) =
                [key_code |-> KEY_UNKNOWN, is_break |-> FALSE, bytes |-> 1]
  <1>1. (<<code>> \o b2)[1] = code
    OBVIOUS
  <1> DEFINE b == <<code>> \o b2
  <1> HIDE DEF b
  <1>2. b[1] = code
    BY <1>1 DEF b
  <1>3. code \in 1..88 => scan_to_key_code(b) =
            [key_code |-> make2key(code), is_break |-> FALSE, bytes |-> 1]
    <2> SUFFICES ASSUME code \in 1..88
                 PROVE  scan_to_key_code(b) =
                            [key_code |-> make2key(code), is_break |-> FALSE, bytes |-> 1]
      OBVIOUS
    <2>1. b[1] \in 1..88 /\ b[1] \notin 129..216 /\ b[1] # 224 /\ b[1] # 225
      BY <1>2
    <2> QED
      BY <1>2, <2>1 DEF scan_to_key_code
  <1>4. code \in 129..216 => scan_to_key_code(b) =
            [key_code |-> make2key(code - 128), is_break |-> TRUE, bytes |-> 1]
    <2> SUFFICES ASSUME code \in 129..216
                 PROVE  scan_to_key_code(b) =
                            [key_code |-> make2key(code - 128), is_break |-> TRUE, bytes |-> 1]
      OBVIOUS
    <2>1. b[1] \notin 1..88 /\ b[1] \in 129..216 /\ b[1] # 224 /\ b[1] # 225
      BY <1>2
    <2> QED
      BY <1>2, <2>1 DEF scan_to_key_code
  <1>5. code = 250 => scan_to_key_code(b) =
            [key_code |-> KEY_UNKNOWN, is_break |-> FALSE, bytes |-> 1]
    BY <1>2 DEF scan_to_key_code
  <1> QED
    BY <1>3, <1>4, <1>5 DEF b

\* What scan_to_key_code does after E0 and after E1.
LEMMA ScanPrefix ==
    ASSUME NEW b
    PROVE  /\ b[1] = 224 => scan_to_key_code(b) = e0_prefix_scan_to_key_code(b[2])
           /\ b[1] = 225 => scan_to_key_code(b) =
                [key_code |-> KEY_PAUSE, is_break |-> FALSE, bytes |-> 6]
  <1>1. b[1] = 224 => scan_to_key_code(b) = e0_prefix_scan_to_key_code(b[2])
    BY DEF scan_to_key_code
  <1>2. b[1] = 225 => scan_to_key_code(b) =
            [key_code |-> KEY_PAUSE, is_break |-> FALSE, bytes |-> 6]
    BY DEF scan_to_key_code
  <1> QED
    BY <1>1, <1>2

\* What a scan of b finds.
IsScan(scan, key, is_break, n) ==
    scan.key_code = key /\ scan.is_break = is_break /\ scan.bytes = n

Finds(b, key, is_break, n) == IsScan(scan_to_key_code(b), key, is_break, n)

\* The record that scan_to_key_code returns, from its fields.
LEMMA ScanIs ==
    ASSUME NEW key, NEW is_break, NEW n
    PROVE  IsScan([key_code |-> key, is_break |-> is_break, bytes |-> n], key, is_break, n)
  BY DEF IsScan

\* The code after E0.
LEMMA AfterE0 ==
    /\ IsScan(e0_prefix_scan_to_key_code(29), KEY_RCTRL, FALSE, 2)
    /\ IsScan(e0_prefix_scan_to_key_code(157), KEY_RCTRL, TRUE, 2)
    /\ IsScan(e0_prefix_scan_to_key_code(56), KEY_RALT, FALSE, 2)
    /\ IsScan(e0_prefix_scan_to_key_code(184), KEY_RALT, TRUE, 2)
    /\ IsScan(e0_prefix_scan_to_key_code(83), KEY_DELETE, FALSE, 2)
    /\ IsScan(e0_prefix_scan_to_key_code(211), KEY_DELETE, TRUE, 2)
    /\ IsScan(e0_prefix_scan_to_key_code(71), KEY_HOME, FALSE, 2)
    /\ IsScan(e0_prefix_scan_to_key_code(199), KEY_UNKNOWN, TRUE, 2)
    /\ IsScan(e0_prefix_scan_to_key_code(42), KEY_PRINT_SCREEN, FALSE, 4)
    /\ IsScan(e0_prefix_scan_to_key_code(183), KEY_PRINT_SCREEN, TRUE, 4)
  <1>1. ASSUME NEW code \in Int
        PROVE  /\ (code > 128) = TRUE => e0_prefix_scan_to_key_code(code).is_break = TRUE
               /\ (code > 128) = FALSE => e0_prefix_scan_to_key_code(code).is_break = FALSE
    <2>1. e0_prefix_scan_to_key_code(code).is_break = (code > 128)
      BY Zenon DEF e0_prefix_scan_to_key_code
    <2> QED
      BY <2>1, Zenon
  <1>2. IsScan(e0_prefix_scan_to_key_code(29), KEY_RCTRL, FALSE, 2)
    <2>1. /\ e0_prefix_scan_to_key_code(29).key_code = KEY_RCTRL
          /\ e0_prefix_scan_to_key_code(29).bytes = 2
      BY DEF e0_prefix_scan_to_key_code
    <2>2. (29 > 128) = FALSE /\ 29 \in Int
      OBVIOUS
    <2>3. e0_prefix_scan_to_key_code(29).is_break = FALSE
      BY <1>1, <2>2, Zenon
    <2> QED
      BY <2>1, <2>3, Zenon DEF IsScan
  <1>3. IsScan(e0_prefix_scan_to_key_code(157), KEY_RCTRL, TRUE, 2)
    <2>1. /\ e0_prefix_scan_to_key_code(157).key_code = KEY_RCTRL
          /\ e0_prefix_scan_to_key_code(157).bytes = 2
      BY DEF e0_prefix_scan_to_key_code
    <2>2. (157 > 128) = TRUE /\ 157 \in Int
      OBVIOUS
    <2>3. e0_prefix_scan_to_key_code(157).is_break = TRUE
      BY <1>1, <2>2, Zenon
    <2> QED
      BY <2>1, <2>3, Zenon DEF IsScan
  <1>4. IsScan(e0_prefix_scan_to_key_code(56), KEY_RALT, FALSE, 2)
    <2>1. /\ e0_prefix_scan_to_key_code(56).key_code = KEY_RALT
          /\ e0_prefix_scan_to_key_code(56).bytes = 2
      BY DEF e0_prefix_scan_to_key_code
    <2>2. (56 > 128) = FALSE /\ 56 \in Int
      OBVIOUS
    <2>3. e0_prefix_scan_to_key_code(56).is_break = FALSE
      BY <1>1, <2>2, Zenon
    <2> QED
      BY <2>1, <2>3, Zenon DEF IsScan
  <1>5. IsScan(e0_prefix_scan_to_key_code(184), KEY_RALT, TRUE, 2)
    <2>1. /\ e0_prefix_scan_to_key_code(184).key_code = KEY_RALT
          /\ e0_prefix_scan_to_key_code(184).bytes = 2
      BY DEF e0_prefix_scan_to_key_code
    <2>2. (184 > 128) = TRUE /\ 184 \in Int
      OBVIOUS
    <2>3. e0_prefix_scan_to_key_code(184).is_break = TRUE
      BY <1>1, <2>2, Zenon
    <2> QED
      BY <2>1, <2>3, Zenon DEF IsScan
  <1>6. IsScan(e0_prefix_scan_to_key_code(83), KEY_DELETE, FALSE, 2)
    <2>1. /\ e0_prefix_scan_to_key_code(83).key_code = KEY_DELETE
          /\ e0_prefix_scan_to_key_code(83).bytes = 2
      BY DEF e0_prefix_scan_to_key_code
    <2>2. (83 > 128) = FALSE /\ 83 \in Int
      OBVIOUS
    <2>3. e0_prefix_scan_to_key_code(83).is_break = FALSE
      BY <1>1, <2>2, Zenon
    <2> QED
      BY <2>1, <2>3, Zenon DEF IsScan
  <1>7. IsScan(e0_prefix_scan_to_key_code(211), KEY_DELETE, TRUE, 2)
    <2>1. /\ e0_prefix_scan_to_key_code(211).key_code = KEY_DELETE
          /\ e0_prefix_scan_to_key_code(211).bytes = 2
      BY DEF e0_prefix_scan_to_key_code
    <2>2. (211 > 128) = TRUE /\ 211 \in Int
      OBVIOUS
    <2>3. e0_prefix_scan_to_key_code(211).is_break = TRUE
      BY <1>1, <2>2, Zenon
    <2> QED
      BY <2>1, <2>3, Zenon DEF IsScan
  <1>8. IsScan(e0_prefix_scan_to_key_code(71), KEY_HOME, FALSE, 2)
    <2>1. /\ e0_prefix_scan_to_key_code(71).key_code = KEY_HOME
          /\ e0_prefix_scan_to_key_code(71).bytes = 2
      BY DEF e0_prefix_scan_to_key_code
    <2>2. (71 > 128) = FALSE /\ 71 \in Int
      OBVIOUS
    <2>3. e0_prefix_scan_to_key_code(71).is_break = FALSE
      BY <1>1, <2>2, Zenon
    <2> QED
      BY <2>1, <2>3, Zenon DEF IsScan
  <1>9. IsScan(e0_prefix_scan_to_key_code(199), KEY_UNKNOWN, TRUE, 2)
    <2>1. /\ e0_prefix_scan_to_key_code(199).key_code = KEY_UNKNOWN
          /\ e0_prefix_scan_to_key_code(199).bytes = 2
      BY DEF e0_prefix_scan_to_key_code
    <2>2. (199 > 128) = TRUE /\ 199 \in Int
      OBVIOUS
    <2>3. e0_prefix_scan_to_key_code(199).is_break = TRUE
      BY <1>1, <2>2, Zenon
    <2> QED
      BY <2>1, <2>3, Zenon DEF IsScan
  <1>10. IsScan(e0_prefix_scan_to_key_code(42), KEY_PRINT_SCREEN, FALSE, 4)
    <2>1. /\ e0_prefix_scan_to_key_code(42).key_code = KEY_PRINT_SCREEN
          /\ e0_prefix_scan_to_key_code(42).bytes = 4
      BY DEF e0_prefix_scan_to_key_code
    <2>2. (42 > 128) = FALSE /\ 42 \in Int
      OBVIOUS
    <2>3. e0_prefix_scan_to_key_code(42).is_break = FALSE
      BY <1>1, <2>2, Zenon
    <2> QED
      BY <2>1, <2>3, Zenon DEF IsScan
  <1>11. IsScan(e0_prefix_scan_to_key_code(183), KEY_PRINT_SCREEN, TRUE, 4)
    <2>1. /\ e0_prefix_scan_to_key_code(183).key_code = KEY_PRINT_SCREEN
          /\ e0_prefix_scan_to_key_code(183).bytes = 4
      BY DEF e0_prefix_scan_to_key_code
    <2>2. (183 > 128) = TRUE /\ 183 \in Int
      OBVIOUS
    <2>3. e0_prefix_scan_to_key_code(183).is_break = TRUE
      BY <1>1, <2>2, Zenon
    <2> QED
      BY <2>1, <2>3, Zenon DEF IsScan
  <1> QED
    BY <1>2, <1>3, <1>4, <1>5, <1>6, <1>7, <1>8, <1>9, <1>10, <1>11

\* A scan takes the bytes by, whatever follows them, for this key.
Sends(by, key, is_break) ==
    /\ by \in Seq(Int) /\ Len(by) \in Nat \ {0}
    /\ \A b2 \in Seq(Int) : Finds(by \o b2, key, is_break, Len(by))

\* Keys with one byte.
LEMMA SendsOne ==
    ASSUME NEW code \in 1..88, NEW up \in Int, up = code + 128
    PROVE  Sends(<<code>>, make2key(code), FALSE) /\ Sends(<<up>>, make2key(code), TRUE)
  <1>1. code \in Int /\ up \in 129..216 /\ up - 128 = code
    OBVIOUS
  <1>2. ASSUME NEW b2 \in Seq(Int)
        PROVE  Finds(<<code>> \o b2, make2key(code), FALSE, 1)
    <2>1. scan_to_key_code(<<code>> \o b2) =
              [key_code |-> make2key(code), is_break |-> FALSE, bytes |-> 1]
      BY <1>1, ScanByte
    <2> QED
      BY <2>1, ScanIs, Zenon DEF Finds
  <1>3. ASSUME NEW b2 \in Seq(Int)
        PROVE  Finds(<<up>> \o b2, make2key(code), TRUE, 1)
    <2>1. scan_to_key_code(<<up>> \o b2) =
              [key_code |-> make2key(up - 128), is_break |-> TRUE, bytes |-> 1]
      BY <1>1, ScanByte
    <2>2. make2key(up - 128) = make2key(code)
      BY <1>1, Zenon
    <2> QED
      BY <2>1, <2>2, ScanIs, Zenon DEF Finds
  <1>4. /\ <<code>> \in Seq(Int) /\ Len(<<code>>) = 1 /\ <<up>> \in Seq(Int) /\ Len(<<up>>) = 1
        /\ 1 \in Nat \ {0}
    OBVIOUS
  <1> QED
    BY <1>2, <1>3, <1>4, Zenon DEF Sends

\* Keys with E0 and one more byte, and Print Screen with two pairs.
LEMMA SendsMore ==
    ASSUME NEW code \in Int, NEW key, NEW is_break, NEW d \in Int, NEW e \in Int
    PROVE  /\ IsScan(e0_prefix_scan_to_key_code(code), key, is_break, 2) =>
                Sends(<<224, code>>, key, is_break)
           /\ IsScan(e0_prefix_scan_to_key_code(code), key, is_break, 4) =>
                Sends(<<224, code, d, e>>, key, is_break)
  <1>1. ASSUME NEW b2 \in Seq(Int), NEW n,
               IsScan(e0_prefix_scan_to_key_code(code), key, is_break, n)
        PROVE  /\ Finds(<<224, code>> \o b2, key, is_break, n)
               /\ Finds(<<224, code, d, e>> \o b2, key, is_break, n)
    <2> DEFINE p == <<224, code>> \o b2
               q == <<224, code, d, e>> \o b2
    <2>1. p[1] = 224 /\ p[2] = code /\ q[1] = 224 /\ q[2] = code
      OBVIOUS
    <2> HIDE DEF p, q
    <2>2. /\ scan_to_key_code(p) = e0_prefix_scan_to_key_code(code)
          /\ scan_to_key_code(q) = e0_prefix_scan_to_key_code(code)
      BY <2>1, ScanPrefix
    <2>3. Finds(p, key, is_break, n) /\ Finds(q, key, is_break, n)
      BY <1>1, <2>2, Zenon DEF Finds
    <2> QED
      BY <2>3 DEF p, q
  <1>2. /\ <<224, code>> \in Seq(Int) /\ Len(<<224, code>>) = 2
        /\ <<224, code, d, e>> \in Seq(Int) /\ Len(<<224, code, d, e>>) = 4
        /\ 2 \in Nat \ {0} /\ 4 \in Nat \ {0}
    OBVIOUS
  <1> QED
    BY <1>1, <1>2, Zenon DEF Sends

\* Pause has six bytes, which scan_to_key_code takes at once.
LEMMA SendsPause == Sends(<<225, 29, 69, 225, 157, 197>>, KEY_PAUSE, FALSE)
  <1> DEFINE by == <<225, 29, 69, 225, 157, 197>>
  <1>1. ASSUME NEW b2 \in Seq(Int) PROVE Finds(by \o b2, KEY_PAUSE, FALSE, 6)
    <2>1. (by \o b2)[1] = 225
      OBVIOUS
    <2> HIDE DEF by
    <2>2. scan_to_key_code(by \o b2) = [key_code |-> KEY_PAUSE, is_break |-> FALSE, bytes |-> 6]
      BY <2>1, ScanPrefix
    <2> QED
      BY <2>2, ScanIs, Zenon DEF Finds
  <1>2. by \in Seq(Int) /\ Len(by) = 6 /\ 6 \in Nat \ {0}
    OBVIOUS
  <1> HIDE DEF by
  <1>3. Sends(by, KEY_PAUSE, FALSE)
    BY <1>1, <1>2, Zenon DEF Sends
  <1> QED
    BY <1>3 DEF by

\* The answer to a command.
LEMMA SendsAck == Sends(<<ACK>>, KEY_UNKNOWN, FALSE)
  <1> DEFINE by == <<ACK>>
  <1>0. ACK = 250 /\ ACK \in Int
    BY DEF ACK
  <1>1. ASSUME NEW b2 \in Seq(Int) PROVE Finds(by \o b2, KEY_UNKNOWN, FALSE, 1)
    <2>1. scan_to_key_code(by \o b2) = [key_code |-> KEY_UNKNOWN, is_break |-> FALSE, bytes |-> 1]
      BY <1>0, ScanByte, Zenon
    <2> HIDE DEF by
    <2> QED
      BY <2>1, ScanIs, Zenon DEF Finds
  <1>2. by \in Seq(Int) /\ Len(by) = 1 /\ 1 \in Nat \ {0}
    BY <1>0
  <1> HIDE DEF by
  <1>3. Sends(by, KEY_UNKNOWN, FALSE)
    BY <1>1, <1>2, Zenon DEF Sends
  <1> QED
    BY <1>3 DEF by

\* The keys of one byte, and those of two that are known when they come up.
OneByte(key, code, up) ==
    /\ code \in 1..88 /\ up \in Int /\ up = code + 128 /\ make2key(code) = key
    /\ MakeCode(key) = <<code>> /\ BreakCode(key) = <<up>>

TwoBytes(key, code, up) ==
    /\ code \in Int /\ up \in Int /\ MakeCode(key) = <<224, code>> /\ BreakCode(key) = <<224, up>>
    /\ IsScan(e0_prefix_scan_to_key_code(code), key, FALSE, 2)
    /\ IsScan(e0_prefix_scan_to_key_code(up), key, TRUE, 2)

\* The keys with one byte, or with E0 and one more, and their break codes.
LEMMA ShortKeys ==
    ASSUME NEW key \in KeyCodes \ {KEY_PAUSE, KEY_PRINT_SCREEN, KEY_HOME}
    PROVE  \E code, up : OneByte(key, code, up) \/ TwoBytes(key, code, up)
  <1>0. /\ 29 \in Int /\ 157 \in Int /\ 56 \in Int /\ 184 \in Int /\ 83 \in Int /\ 211 \in Int
    OBVIOUS
  <1>1. OneByte(KEY_A, 30, 158)
    BY MakeBytes, BreakBytes DEF OneByte, MakeCodes, BreakCodes, make2key
  <1>2. OneByte(KEY_1, 2, 130)
    BY MakeBytes, BreakBytes DEF OneByte, MakeCodes, BreakCodes, make2key
  <1>3. OneByte(KEY_LSHIFT, 42, 170)
    BY MakeBytes, BreakBytes DEF OneByte, MakeCodes, BreakCodes, make2key
  <1>4. OneByte(KEY_RSHIFT, 54, 182)
    BY MakeBytes, BreakBytes DEF OneByte, MakeCodes, BreakCodes, make2key
  <1>5. OneByte(KEY_LCTRL, 29, 157)
    BY MakeBytes, BreakBytes DEF OneByte, MakeCodes, BreakCodes, make2key
  <1>6. OneByte(KEY_LALT, 56, 184)
    BY MakeBytes, BreakBytes DEF OneByte, MakeCodes, BreakCodes, make2key
  <1>7. OneByte(KEY_CAPS_LOCK, 58, 186)
    BY MakeBytes, BreakBytes DEF OneByte, MakeCodes, BreakCodes, make2key
  <1>8. OneByte(KEY_NUM_LOCK, 69, 197)
    BY MakeBytes, BreakBytes DEF OneByte, MakeCodes, BreakCodes, make2key
  <1>9. OneByte(KEY_SCROLL_LOCK, 70, 198)
    BY MakeBytes, BreakBytes DEF OneByte, MakeCodes, BreakCodes, make2key
  <1>10. OneByte(KEY_KP_7, 71, 199)
    BY MakeBytes, BreakBytes DEF OneByte, MakeCodes, BreakCodes, make2key
  <1>11. OneByte(KEY_KP_ASTERISK, 55, 183)
    BY MakeBytes, BreakBytes DEF OneByte, MakeCodes, BreakCodes, make2key
  <1>12. TwoBytes(KEY_RCTRL, 29, 157)
    BY <1>0, MakeBytes, BreakBytes, AfterE0, Zenon DEF TwoBytes, MakeCodes, BreakCodes
  <1>13. TwoBytes(KEY_RALT, 56, 184)
    BY <1>0, MakeBytes, BreakBytes, AfterE0, Zenon DEF TwoBytes, MakeCodes, BreakCodes
  <1>14. TwoBytes(KEY_DELETE, 83, 211)
    BY <1>0, MakeBytes, BreakBytes, AfterE0, Zenon DEF TwoBytes, MakeCodes, BreakCodes
  <1> QED
    BY <1>1, <1>2, <1>3, <1>4, <1>5, <1>6,
       <1>7, <1>8, <1>9, <1>10, <1>11,
       <1>12, <1>13, <1>14 DEF KeyCodes, Held, Locks

\* A scan takes the bytes of a key that goes down for that key, and those of one
\* that comes up; of Home nothing is known then.
LEMMA SendsKey ==
    ASSUME NEW key \in KeyCodes
    PROVE  /\ Sends(MakeCode(key), key, FALSE)
           /\ key # KEY_PAUSE =>
                Sends(BreakCode(key), IF key = KEY_HOME THEN KEY_UNKNOWN ELSE key, TRUE)
  <1>1. ASSUME NEW code, NEW up, OneByte(key, code, up)
        PROVE  Sends(MakeCode(key), key, FALSE) /\ Sends(BreakCode(key), key, TRUE)
    <2>1. Sends(<<code>>, make2key(code), FALSE) /\ Sends(<<up>>, make2key(code), TRUE)
      BY <1>1, SendsOne DEF OneByte
    <2> QED
      BY <1>1, <2>1, Zenon DEF OneByte
  <1>2. ASSUME NEW code, NEW up, TwoBytes(key, code, up)
        PROVE  Sends(MakeCode(key), key, FALSE) /\ Sends(BreakCode(key), key, TRUE)
    <2>1. Sends(<<224, code>>, key, FALSE) /\ Sends(<<224, up>>, key, TRUE)
      BY <1>2, SendsMore, ZenonT(30) DEF TwoBytes
    <2> QED
      BY <1>2, <2>1, Zenon DEF TwoBytes
  <1>3. CASE key = KEY_HOME
    <2>1. MakeCode(key) = <<224, 71>> /\ BreakCode(key) = <<224, 199>>
      BY <1>3, MakeBytes, BreakBytes DEF MakeCodes, BreakCodes
    <2>2. Sends(<<224, 71>>, key, FALSE) /\ Sends(<<224, 199>>, KEY_UNKNOWN, TRUE)
      <3>1. 71 \in Int /\ 199 \in Int
        OBVIOUS
      <3> QED
        BY <1>3, <3>1, AfterE0, SendsMore, ZenonT(30)
    <2> QED
      BY <1>3, <2>1, <2>2, Zenon
  <1>4. CASE key = KEY_PRINT_SCREEN
    <2>1. MakeCode(key) = <<224, 42, 224, 55>> /\ BreakCode(key) = <<224, 183, 224, 170>>
      BY <1>4, MakeBytes, BreakBytes DEF MakeCodes, BreakCodes
    <2>2. Sends(<<224, 42, 224, 55>>, key, FALSE) /\ Sends(<<224, 183, 224, 170>>, key, TRUE)
      <3>1. 42 \in Int /\ 224 \in Int /\ 55 \in Int /\ 183 \in Int /\ 170 \in Int
        OBVIOUS
      <3>2. Sends(<<224, 42, 224, 55>>, KEY_PRINT_SCREEN, FALSE)
        <4>1. IsScan(e0_prefix_scan_to_key_code(42), KEY_PRINT_SCREEN, FALSE, 4)
          BY AfterE0
        <4> QED
          BY <3>1, <4>1, SendsMore, ZenonT(30)
      <3>3. Sends(<<224, 183, 224, 170>>, KEY_PRINT_SCREEN, TRUE)
        <4>1. IsScan(e0_prefix_scan_to_key_code(183), KEY_PRINT_SCREEN, TRUE, 4)
          BY AfterE0
        <4> QED
          BY <3>1, <4>1, SendsMore, ZenonT(30)
      <3> QED
        BY <1>4, <3>2, <3>3, Zenon
    <2>3. key # KEY_HOME
      BY <1>4, Numbers DEF KeyNumbers
    <2> QED
      BY <2>1, <2>2, <2>3, Zenon
  <1>5. CASE key = KEY_PAUSE
    <2>1. MakeCode(key) = <<225, 29, 69, 225, 157, 197>>
      BY <1>5, MakeBytes DEF MakeCodes
    <2> QED
      BY <1>5, <2>1, SendsPause, Zenon
  <1>6. CASE key \notin {KEY_PAUSE, KEY_PRINT_SCREEN, KEY_HOME}
    <2>1. PICK code, up : OneByte(key, code, up) \/ TwoBytes(key, code, up)
      BY <1>6, ShortKeys
    <2>2. Sends(MakeCode(key), key, FALSE) /\ Sends(BreakCode(key), key, TRUE)
      BY <1>1, <1>2, <2>1
    <2> QED
      BY <1>6, <2>2
  <1> QED
    BY <1>3, <1>4, <1>5, <1>6

\* What the modifiers make of a letter and of a digit, and what is shown of it.
Modified(c, shift, ctrl, alt) ==
    c + (IF shift THEN 16384 ELSE 0) + (IF ctrl THEN 32768 ELSE 0) + (IF alt THEN 8192 ELSE 0)

\* apply_modify_keys, for a letter.
LEMMA ModifiedLetter ==
    ASSUME NEW s
    PROVE  apply_modify_keys(97, s) =
               Modified(IF KEY_CAPS_LOCK \in s THEN 65 ELSE 97, is_shift_set(s), is_ctrl_set(s),
                        is_alt_set(s))
  <1>1. Shifted(65) = 65 + 16384 /\ Shifted(97) = 97 + 16384
    BY DEF Shifted, SHIFT
  <1>2. 97 \in LowerCase /\ Upper(97) = 65
    BY DEF LowerCase, Upper
  <1> QED
    BY <1>1, <1>2 DEF apply_modify_keys, Modified, CTRL, ALT

\* apply_modify_keys, for a digit.
LEMMA ModifiedDigit ==
    ASSUME NEW s
    PROVE  apply_modify_keys(49, s) =
               Modified(IF is_shift_set(s) THEN 33 ELSE 49, FALSE, is_ctrl_set(s), is_alt_set(s))
  <1>1. Shifted(49) = 33
    BY DEF Shifted
  <1>2. 49 \notin LowerCase
    BY DEF LowerCase
  <1> QED
    BY <1>1, <1>2 DEF apply_modify_keys, Modified, CTRL, ALT

\* What test_console_char_consumer shows of a character with its modifiers.
LEMMA Consumed ==
    ASSUME NEW c \in {33, 49, 65, 97}, NEW shift \in BOOLEAN, NEW ctrl \in BOOLEAN,
           NEW alt \in BOOLEAN, shift => c \in {65, 97}
    PROVE  /\ Modified(c, shift, ctrl, alt) \in Nat \ {0}
           /\ test_console_char_consumer(Modified(c, shift, ctrl, alt)) =
                IF shift /\ ~ctrl /\ ~alt THEN (IF c = 65 THEN 97 ELSE 65) ELSE c
  <1> DEFINE m == Modified(c, shift, ctrl, alt)
  <1>1. m \in Int /\ m > 0 /\ m % 256 = c
    BY DEF Modified
  <1>2. m \in 16481..16506 <=> shift /\ ~ctrl /\ ~alt /\ c = 97
    BY DEF Modified
  <1>3. m \in 16449..16474 <=> shift /\ ~ctrl /\ ~alt /\ c = 65
    BY DEF Modified
  <1> HIDE DEF m
  <1>4. test_console_char_consumer(m) =
            IF m \in 16481..16506 THEN (m % 256) - 32
            ELSE IF m \in 16449..16474 THEN (m % 256) + 32 ELSE m % 256
    BY <1>1 DEF test_console_char_consumer, SHIFT
  <1>5. test_console_char_consumer(m) =
            IF shift /\ ~ctrl /\ ~alt THEN (IF c = 65 THEN 97 ELSE 65) ELSE c
    BY <1>1, <1>2, <1>3, <1>4
  <1> QED
    BY <1>1, <1>5 DEF m

\* Keys that are no modifiers leave the states alone.
LEMMA OtherKeys ==
    ASSUME NEW s, NEW key, key \notin States, NEW is_break
    PROVE  update_key_states(s, key, is_break) = s
  BY Zenon DEF update_key_states, States

\* Of a key that comes up nothing is shown.
LEMMA EchoBreak ==
    ASSUME NEW z, NEW key
    PROVE  Echo(z, key, TRUE) = <<>>
  BY Zenon DEF Echo, is_reported

\* What is shown of a key that goes down is the character it is for.
LEMMA EchoMake ==
    ASSUME NEW s, NEW key \in KeyCodes
    PROVE  Echo(update_key_states(s, key, FALSE), key, FALSE) = Chars(s, key)
  <1>0. KeyNumbers
    BY Numbers
  <1>1. CASE key = KEY_A
    <2> DEFINE c == IF KEY_CAPS_LOCK \in s THEN 65 ELSE 97
               m == Modified(c, is_shift_set(s), is_ctrl_set(s), is_alt_set(s))
    <2>1. update_key_states(s, key, FALSE) = s
      <3>1. key \notin States
        BY <1>0, <1>1 DEF States, Held, Locks, KeyNumbers
      <3> QED
        BY <3>1, OtherKeys, Zenon
    <2>2. console_key_code_handler(s, key) = apply_modify_keys(97, s)
      BY <1>0, <1>1 DEF console_key_code_handler, KeyNumbers
    <2>3. apply_modify_keys(97, s) = m
      BY ModifiedLetter
    <2>4. /\ m \in Nat \ {0}
          /\ test_console_char_consumer(m) =
                IF is_shift_set(s) /\ ~is_ctrl_set(s) /\ ~is_alt_set(s)
                THEN (IF c = 65 THEN 97 ELSE 65) ELSE c
      <3>1. /\ c \in {33, 49, 65, 97} /\ c \in {65, 97} /\ is_shift_set(s) \in BOOLEAN
            /\ is_ctrl_set(s) \in BOOLEAN /\ is_alt_set(s) \in BOOLEAN
        BY DEF is_shift_set, is_ctrl_set, is_alt_set
      <3> HIDE DEF c
      <3> QED
        BY <3>1, Consumed
    <2>5. is_reported(s, key, FALSE)
      BY <1>0, <1>1 DEF is_reported, KeyNumbers
    <2> HIDE DEF m
    <2>6. Echo(s, key, FALSE) = <<test_console_char_consumer(m)>>
      BY <2>2, <2>3, <2>4, <2>5 DEF Echo
    <2>7. Chars(s, key) =
              IF (is_shift_set(s) /\ ~is_ctrl_set(s) /\ ~is_alt_set(s)) # (KEY_CAPS_LOCK \in s)
              THEN <<65>> ELSE <<97>>
      BY <1>0, <1>1 DEF Chars, KeyNumbers
    <2>8. <<test_console_char_consumer(m)>> = Chars(s, key)
      BY <2>4, <2>7
    <2> QED
      BY <2>1, <2>6, <2>8
  <1>2. CASE key = KEY_1
    <2> DEFINE c == IF is_shift_set(s) THEN 33 ELSE 49
               m == Modified(c, FALSE, is_ctrl_set(s), is_alt_set(s))
    <2>1. update_key_states(s, key, FALSE) = s
      <3>1. key \notin States
        BY <1>0, <1>2 DEF States, Held, Locks, KeyNumbers
      <3> QED
        BY <3>1, OtherKeys, Zenon
    <2>2. console_key_code_handler(s, key) = apply_modify_keys(49, s)
      BY <1>0, <1>2 DEF console_key_code_handler, KeyNumbers
    <2>3. apply_modify_keys(49, s) = m
      BY ModifiedDigit
    <2>4. m \in Nat \ {0} /\ test_console_char_consumer(m) = c
      <3>1. /\ c \in {33, 49, 65, 97} /\ FALSE \in BOOLEAN
            /\ is_ctrl_set(s) \in BOOLEAN /\ is_alt_set(s) \in BOOLEAN
        BY DEF is_ctrl_set, is_alt_set
      <3> HIDE DEF c
      <3>2. ASSUME NEW sh \in BOOLEAN, sh = FALSE
            PROVE  LET n == Modified(c, sh, is_ctrl_set(s), is_alt_set(s))
                   IN  n \in Nat \ {0} /\ test_console_char_consumer(n) = c
        BY <3>1, <3>2, Consumed
      <3> QED
        BY <3>2, Zenon
    <2>5. is_reported(s, key, FALSE)
      BY <1>0, <1>2 DEF is_reported, KeyNumbers
    <2> HIDE DEF m
    <2>6. Echo(s, key, FALSE) = <<c>>
      BY <2>2, <2>3, <2>4, <2>5 DEF Echo
    <2>7. Chars(s, key) = IF is_shift_set(s) THEN <<33>> ELSE <<49>>
      BY <1>0, <1>2 DEF Chars, KeyNumbers
    <2> QED
      BY <2>1, <2>6, <2>7
  <1>3. CASE key \in {KEY_KP_7, KEY_KP_ASTERISK}
    <2> DEFINE c == IF key = KEY_KP_7 THEN 55 ELSE 42
    <2>1. update_key_states(s, key, FALSE) = s
      <3>1. key \notin States
        BY <1>0, <1>3 DEF States, Held, Locks, KeyNumbers
      <3> QED
        BY <3>1, OtherKeys, Zenon
    <2>2. console_key_code_handler(s, key) = c
      BY <1>0, <1>3 DEF console_key_code_handler, KeyNumbers
    <2>3. is_reported(s, key, FALSE) <=> KEY_NUM_LOCK \in s
      BY <1>0, <1>3 DEF is_reported, KeyNumbers
    <2>4. test_console_char_consumer(c) = c /\ c # 0
      BY DEF test_console_char_consumer, SHIFT
    <2>5. Chars(s, key) = IF KEY_NUM_LOCK \in s THEN <<c>> ELSE <<>>
      BY <1>0, <1>3, SMTT(30) DEF Chars, KeyNumbers
    <2> HIDE DEF c
    <2> QED
      BY <2>1, <2>2, <2>3, <2>4, <2>5 DEF Echo
  <1>4. CASE key = KEY_DELETE
    <2>1. update_key_states(s, key, FALSE) = s
      <3>1. key \notin States
        BY <1>0, <1>4 DEF States, Held, Locks, KeyNumbers
      <3> QED
        BY <3>1, OtherKeys, Zenon
    <2>2. console_key_code_handler(s, key) = 127
      BY <1>0, <1>4 DEF console_key_code_handler, KeyNumbers
    <2>3. is_reported(s, key, FALSE)
      BY <1>0, <1>4 DEF is_reported, KeyNumbers
    <2>4. test_console_char_consumer(127) = 127
      BY DEF test_console_char_consumer, SHIFT
    <2>5. Chars(s, key) = <<127>>
      BY <1>0, <1>4 DEF Chars, KeyNumbers
    <2>6. 127 # 0
      OBVIOUS
    <2> QED
      BY <2>1, <2>2, <2>3, <2>4, <2>5, <2>6, Zenon DEF Echo
  <1>5. CASE key \in States \cup {KEY_PRINT_SCREEN, KEY_PAUSE, KEY_HOME}
    <2> DEFINE z == update_key_states(s, key, FALSE)
    <2> HIDE DEF z
    <2>1. console_key_code_handler(z, key) = 0
      BY <1>0, <1>5 DEF console_key_code_handler, KeyNumbers, States, Held, Locks
    <2>2. Chars(s, key) = <<>>
      BY <1>0, <1>5 DEF Chars, KeyNumbers, States, Held, Locks
    <2>3. Echo(z, key, FALSE) = <<>>
      BY <2>1, Zenon DEF Echo
    <2> QED
      BY <2>2, <2>3 DEF z
  <1> QED
    BY <1>1, <1>2, <1>3, <1>4, <1>5 DEF KeyCodes, States
-----------------------------------------------------------------------------
(* What is still in the buffer.                                            *)

\* The states stay states.
LEMMA UpdateStates ==
    ASSUME NEW s, s \subseteq States, NEW key, NEW is_break
    PROVE  update_key_states(s, key, is_break) \subseteq States
  BY DEF update_key_states, States

\* Sequences of bytes.
LEMMA NoBytes == <<>> \in Seq(Int)
  OBVIOUS

\* Nothing added in front or behind.
LEMMA NoneAdded ==
    ASSUME NEW x \in Seq(Int)
    PROVE  <<>> \o x = x /\ x \o <<>> = x
  BY ConcatEmptySeq

\* Two sequences joined.
LEMMA Joined ==
    ASSUME NEW x \in Seq(Int), NEW y \in Seq(Int)
    PROVE  x \o y \in Seq(Int) /\ Len(x \o y) = Len(x) + Len(y)
  BY ConcatProperties

\* It does not matter which two are joined first.
LEMMA AddedInTurn ==
    ASSUME NEW x \in Seq(Int), NEW y \in Seq(Int), NEW z \in Seq(Int)
    PROVE  (x \o y) \o z = x \o (y \o z)
  BY ConcatAssociative, SMTT(30)

\* A scan of bytes that stand for something does what they stand for.
LEMMA EventHandled ==
    ASSUME NEW by, NEW s, NEW ch, NEW z, IsEvent(by, s, ch, z), s \subseteq States
    PROVE  /\ by \in Seq(Int) /\ Len(by) \in Nat \ {0} /\ z \subseteq States
           /\ ch \in Seq(Int)
           /\ \A b2 \in Seq(Int) : Handled(by \o b2, by, s, ch, z)
  <1>1. ASSUME NEW key, NEW is_break, Sends(by, key, is_break),
               update_key_states(s, key, is_break) = z, Echo(z, key, is_break) = ch
        PROVE  /\ by \in Seq(Int) /\ Len(by) \in Nat \ {0} /\ z \subseteq States
               /\ \A b2 \in Seq(Int) : Handled(by \o b2, by, s, ch, z)
    <2>1. by \in Seq(Int) /\ Len(by) \in Nat \ {0}
      BY <1>1 DEF Sends
    <2>2. z \subseteq States
      BY <1>1, UpdateStates
    <2>3. ASSUME NEW b2 \in Seq(Int) PROVE Handled(by \o b2, by, s, ch, z)
      <3>1. Finds(by \o b2, key, is_break, Len(by))
        BY <1>1 DEF Sends
      <3> QED
        BY <1>1, <3>1, Zenon DEF Finds, IsScan, Handled
    <2> QED
      BY <2>1, <2>2, <2>3
  <1>2. CASE IsAck(by, s, ch, z)
    <2>1. KEY_UNKNOWN \notin States
      BY Numbers DEF KeyNumbers, States, Held, Locks
    <2>2. update_key_states(s, KEY_UNKNOWN, FALSE) = z
      BY <1>2, <2>1, OtherKeys, Zenon DEF IsAck
    <2>3. Echo(z, KEY_UNKNOWN, FALSE) = ch
      <3>1. console_key_code_handler(z, KEY_UNKNOWN) = 0
        BY Numbers DEF console_key_code_handler, KeyNumbers
      <3> QED
        BY <1>2, <3>1, Zenon DEF Echo, IsAck
    <2>4. Sends(by, KEY_UNKNOWN, FALSE)
      BY <1>2, SendsAck, Zenon DEF IsAck
    <2>5. ch \in Seq(Int)
      BY <1>2, NoBytes DEF IsAck
    <2> QED
      BY <1>1, <2>2, <2>3, <2>4, <2>5, Zenon
  <1>3. CASE \E key \in KeyCodes : IsMake(key, by, s, ch, z)
    <2>1. PICK key \in KeyCodes : IsMake(key, by, s, ch, z)
      BY <1>3
    <2>2. Sends(by, key, FALSE) /\ update_key_states(s, key, FALSE) = z
      BY <2>1, SendsKey DEF IsMake
    <2>3. Echo(z, key, FALSE) = ch
      BY <2>1, <2>2, EchoMake, Zenon DEF IsMake
    <2>4. ch \in Seq(Int)
      BY <2>1 DEF IsMake, Chars
    <2> QED
      BY <1>1, <2>2, <2>3, <2>4, Zenon
  <1>4. CASE \E key \in KeyCodes \ {KEY_PAUSE} : IsBreak(key, by, s, ch, z)
    <2>1. PICK key \in KeyCodes \ {KEY_PAUSE} : IsBreak(key, by, s, ch, z)
      BY <1>4
    <2> DEFINE found == IF key = KEY_HOME THEN KEY_UNKNOWN ELSE key
    <2>2. Sends(by, found, TRUE)
      BY <2>1, SendsKey DEF IsBreak
    <2>3. update_key_states(s, found, TRUE) = z
      <3>1. key = KEY_HOME => key \notin States /\ KEY_UNKNOWN \notin States
        BY Numbers DEF KeyNumbers, States, Held, Locks
      <3>2. key = KEY_HOME => update_key_states(s, found, TRUE) = update_key_states(s, key, TRUE)
        BY <3>1, OtherKeys
      <3> QED
        BY <2>1, <3>2 DEF IsBreak
    <2>4. Echo(z, found, TRUE) = ch
      BY <2>1, EchoBreak, Zenon DEF IsBreak
    <2>5. ch \in Seq(Int)
      BY <2>1, NoBytes DEF IsBreak
    <2> HIDE DEF found
    <2> QED
      BY <1>1, <2>2, <2>3, <2>4, <2>5, Zenon
  <1> QED
    BY <1>2, <1>3, <1>4 DEF IsEvent

\* The bytes at the front of b lead from the states s to z and leave c; of the
\* characters t still to be shown they leave u.
Link(b, s, t, c, z, u) ==
    \E by, ch : IsEvent(by, s, ch, z) /\ b = by \o c /\ t = ch \o u

Chain(n, bf, st, ty) ==
    /\ n \in Nat
    /\ \A i \in 0..n : bf[i] \in Seq(Int) /\ ty[i] \in Seq(Int) /\ st[i] \subseteq States
    /\ \A i \in 0..n - 1 : Link(bf[i], st[i], ty[i], bf[i + 1], st[i + 1], ty[i + 1])

Ends(n, bf, st, ty, b, s, t, f) ==
    /\ bf[0] = b /\ st[0] = s /\ ty[0] = t
    /\ bf[n] = <<>> /\ st[n] = f /\ ty[n] = <<>>

\* The bytes b are whole keys and answers which lead from the states s to f, and
\* for which the characters t are to be shown.
Behind(b, s, t, f) == \E n, bf, st, ty : Chain(n, bf, st, ty) /\ Ends(n, bf, st, ty, b, s, t, f)

\* The handler is up to date.
LEMMA BehindNone ==
    ASSUME NEW s, s \subseteq States
    PROVE  Behind(<<>>, s, <<>>, s)
  <1> DEFINE bf == [i \in {0} |-> <<>>]
             st == [i \in {0} |-> s]
  <1>1. bf[0] = <<>> /\ st[0] = s /\ 0..0 = {0} /\ 0..0 - 1 = {}
    OBVIOUS
  <1> HIDE DEF bf, st
  <1>2. ASSUME NEW i \in 0..0
        PROVE  bf[i] \in Seq(Int) /\ bf[i] \in Seq(Int) /\ st[i] \subseteq States
    <2>1. i = 0
      BY <1>1
    <2> QED
      BY <1>1, <2>1, NoBytes
  <1>3. Chain(0, bf, st, bf)
    BY <1>1, <1>2 DEF Chain
  <1>4. Ends(0, bf, st, bf, <<>>, s, <<>>, s)
    BY <1>1, Zenon DEF Ends
  <1> QED
    BY <1>3, <1>4 DEF Behind

\* The types of what is waiting.
LEMMA BehindTyped ==
    ASSUME NEW b, NEW s, NEW t, NEW f, Behind(b, s, t, f)
    PROVE  b \in Seq(Int) /\ t \in Seq(Int) /\ s \subseteq States /\ f \subseteq States
  <1>1. PICK n, bf, st, ty : Chain(n, bf, st, ty) /\ Ends(n, bf, st, ty, b, s, t, f)
    BY DEF Behind
  <1>2. n \in Nat /\ 0 \in 0..n /\ n \in 0..n
    BY <1>1 DEF Chain
  <1> QED
    BY <1>1, <1>2 DEF Chain, Ends

\* Another key in front.
LEMMA BehindFront ==
    ASSUME NEW b, NEW s, NEW t, NEW f, Behind(b, s, t, f),
           NEW by, NEW ch, NEW r, r \subseteq States, IsEvent(by, r, ch, s)
    PROVE  Behind(by \o b, r, ch \o t, f)
  <1>1. PICK n, bf, st, ty : Chain(n, bf, st, ty) /\ Ends(n, bf, st, ty, b, s, t, f)
    BY DEF Behind
  <1>2. n \in Nat /\ n + 1 \in Nat
    BY <1>1 DEF Chain
  <1>3. by \in Seq(Int) /\ ch \in Seq(Int) /\ b \in Seq(Int) /\ t \in Seq(Int)
    BY EventHandled, BehindTyped
  <1> DEFINE B == by \o b
             T == ch \o t
             bg == [i \in 0..n + 1 |-> IF i = 0 THEN B ELSE bf[i - 1]]
             sg == [i \in 0..n + 1 |-> IF i = 0 THEN r ELSE st[i - 1]]
             tg == [i \in 0..n + 1 |-> IF i = 0 THEN T ELSE ty[i - 1]]
  <1>4. B \in Seq(Int) /\ T \in Seq(Int)
    BY <1>3
  <1>5. Link(B, r, T, b, s, t)
    BY DEF Link
  <1> HIDE DEF B, T
  <1>6. /\ bg[0] = B /\ sg[0] = r /\ tg[0] = T
        /\ \A i \in 0..n : bg[i + 1] = bf[i] /\ sg[i + 1] = st[i] /\ tg[i + 1] = ty[i]
    BY <1>2
  <1> HIDE DEF bg, sg, tg
  <1>7. ASSUME NEW i \in 0..n + 1
        PROVE  bg[i] \in Seq(Int) /\ tg[i] \in Seq(Int) /\ sg[i] \subseteq States
    <2>1. CASE i = 0
      BY <1>4, <1>6, <2>1
    <2>2. CASE i # 0
      <3>1. i - 1 \in 0..n /\ (i - 1) + 1 = i
        BY <1>2, <2>2
      <3> QED
        BY <1>1, <1>6, <3>1 DEF Chain
    <2> QED
      BY <2>1, <2>2
  <1>8. ASSUME NEW i \in 0..n
        PROVE  Link(bg[i], sg[i], tg[i], bg[i + 1], sg[i + 1], tg[i + 1])
    <2>1. CASE i = 0
      <3>1. bg[0 + 1] = b /\ sg[0 + 1] = s /\ tg[0 + 1] = t
        BY <1>1, <1>2, <1>6 DEF Ends
      <3> QED
        BY <1>5, <1>6, <2>1, <3>1
    <2>2. CASE i # 0
      <3>1. i - 1 \in 0..n - 1 /\ i - 1 \in 0..n /\ (i - 1) + 1 = i
        BY <1>2, <2>2
      <3>2. Link(bf[i - 1], st[i - 1], ty[i - 1], bf[i], st[i], ty[i])
        BY <1>1, <3>1 DEF Chain
      <3>3. bg[i] = bf[i - 1] /\ sg[i] = st[i - 1] /\ tg[i] = ty[i - 1]
        BY <1>6, <3>1
      <3> QED
        BY <1>6, <3>2, <3>3
    <2> QED
      BY <2>1, <2>2
  <1>9. Chain(n + 1, bg, sg, tg)
    <2>1. (n + 1) - 1 = n
      BY <1>2
    <2> QED
      BY <1>2, <1>7, <1>8, <2>1 DEF Chain
  <1>10. Ends(n + 1, bg, sg, tg, B, r, T, f)
    BY <1>1, <1>2, <1>6 DEF Ends
  <1>11. Behind(B, r, T, f)
    BY <1>9, <1>10 DEF Behind
  <1> QED
    BY <1>11 DEF B, T

\* Another key behind.
LEMMA BehindAdd ==
    ASSUME NEW b, NEW s, NEW t, NEW f, Behind(b, s, t, f),
           NEW by, NEW ch, NEW g, IsEvent(by, f, ch, g)
    PROVE  Behind(b \o by, s, t \o ch, g)
  <1>1. PICK n, bf, st, ty : Chain(n, bf, st, ty) /\ Ends(n, bf, st, ty, b, s, t, f)
    BY DEF Behind
  <1>2. n \in Nat /\ n + 1 \in Nat
    BY <1>1 DEF Chain
  <1>3. by \in Seq(Int) /\ ch \in Seq(Int) /\ g \subseteq States
    BY EventHandled, BehindTyped
  <1> DEFINE bg == [i \in 0..n + 1 |-> IF i <= n THEN bf[i] \o by ELSE <<>>]
             sg == [i \in 0..n + 1 |-> IF i <= n THEN st[i] ELSE g]
             tg == [i \in 0..n + 1 |-> IF i <= n THEN ty[i] \o ch ELSE <<>>]
  <1>6. /\ bg[n + 1] = <<>> /\ sg[n + 1] = g /\ tg[n + 1] = <<>>
        /\ \A i \in 0..n : bg[i] = bf[i] \o by /\ sg[i] = st[i] /\ tg[i] = ty[i] \o ch
    BY <1>2
  <1> HIDE DEF bg, sg, tg
  <1>7. ASSUME NEW i \in 0..n + 1
        PROVE  bg[i] \in Seq(Int) /\ tg[i] \in Seq(Int) /\ sg[i] \subseteq States
    <2>1. CASE i = n + 1
      BY <1>3, <1>6, <2>1, NoBytes
    <2>2. CASE i # n + 1
      <3>1. i \in 0..n
        BY <1>2, <2>2
      <3>2. bf[i] \in Seq(Int) /\ ty[i] \in Seq(Int) /\ st[i] \subseteq States
        BY <1>1, <3>1 DEF Chain
      <3>3. bf[i] \o by \in Seq(Int) /\ ty[i] \o ch \in Seq(Int)
        BY <1>3, <3>2, Joined
      <3> QED
        BY <1>6, <3>1, <3>2, <3>3
    <2> QED
      BY <2>1, <2>2
  <1>8. ASSUME NEW i \in 0..n
        PROVE  Link(bg[i], sg[i], tg[i], bg[i + 1], sg[i + 1], tg[i + 1])
    <2>1. CASE i = n
      <3>1. bf[i] = <<>> /\ ty[i] = <<>> /\ st[i] = f
        BY <1>1, <2>1 DEF Ends
      <3>2. bg[i] = by /\ tg[i] = ch /\ sg[i] = f
        BY <1>3, <1>6, <3>1, NoneAdded
      <3>3. bg[i] = by \o <<>> /\ tg[i] = ch \o <<>>
        BY <1>3, <3>2, NoneAdded
      <3>4. Link(bg[i], sg[i], tg[i], <<>>, g, <<>>)
        BY <3>2, <3>3 DEF Link
      <3> QED
        BY <1>6, <2>1, <3>4
    <2>2. CASE i # n
      <3>1. i \in 0..n - 1 /\ i + 1 \in 0..n
        BY <1>2, <2>2
      <3>2. PICK by2, ch2 : /\ IsEvent(by2, st[i], ch2, st[i + 1])
                            /\ bf[i] = by2 \o bf[i + 1] /\ ty[i] = ch2 \o ty[i + 1]
        BY <1>1, <3>1 DEF Chain, Link
      <3>3. st[i] \subseteq States /\ bf[i + 1] \in Seq(Int) /\ ty[i + 1] \in Seq(Int)
        BY <1>1, <3>1 DEF Chain
      <3>4. by2 \in Seq(Int) /\ ch2 \in Seq(Int)
        BY <3>2, <3>3, EventHandled
      <3> DEFINE rest == bf[i + 1]
      <3>5. (by2 \o rest) \o by = by2 \o (rest \o by)
        <4>1. rest \in Seq(Int) /\ by \in Seq(Int) /\ by2 \in Seq(Int)
          BY <1>3, <3>3, <3>4
        <4> HIDE DEF rest
        <4> QED
          BY <4>1, AddedInTurn
      <3>6. (ch2 \o ty[i + 1]) \o ch = ch2 \o (ty[i + 1] \o ch)
        BY <1>3, <3>3, <3>4, AddedInTurn, ZenonT(30)
      <3>7. /\ bg[i] = by2 \o bg[i + 1] /\ tg[i] = ch2 \o tg[i + 1] /\ sg[i] = st[i]
            /\ sg[i + 1] = st[i + 1]
        BY <1>6, <3>1, <3>2, <3>5, <3>6
      <3> QED
        BY <3>2, <3>7 DEF Link
    <2> QED
      BY <2>1, <2>2
  <1>9. Chain(n + 1, bg, sg, tg)
    <2>1. (n + 1) - 1 = n
      BY <1>2
    <2> QED
      BY <1>2, <1>7, <1>8, <2>1 DEF Chain
  <1>10. Ends(n + 1, bg, sg, tg, b \o by, s, t \o ch, g)
    <2>1. 0 \in 0..n
      BY <1>2
    <2>2. bg[0] = b \o by /\ sg[0] = s /\ tg[0] = t \o ch
      BY <1>1, <1>6, <2>1 DEF Ends
    <2> QED
      BY <1>6, <2>2, Zenon DEF Ends
  <1> QED
    BY <1>9, <1>10 DEF Behind

\* Something is at the front of the bytes b, and the rest is behind it.
Waiting(b, s, t, f) ==
    \E by, ch, c, u, z :
        IsEvent(by, s, ch, z) /\ b = by \o c /\ t = ch \o u /\ Behind(c, z, u, f)

\* The handler takes the first key.
LEMMA BehindRest ==
    ASSUME NEW b, NEW s, NEW t, NEW f, Behind(b, s, t, f)
    PROVE  (b = <<>> /\ t = <<>> /\ s = f) \/ Waiting(b, s, t, f)
  <1>1. PICK n, bf, st, ty : Chain(n, bf, st, ty) /\ Ends(n, bf, st, ty, b, s, t, f)
    BY DEF Behind
  <1>2. n \in Nat
    BY <1>1 DEF Chain
  <1>3. CASE n = 0
    BY <1>1, <1>3 DEF Ends
  <1>4. CASE n # 0
    <2>1. n - 1 \in Nat /\ 0 \in 0..n - 1 /\ (n - 1) + 1 = n /\ 0 + 1 = 1
      BY <1>2, <1>4
    <2>2. PICK by, ch : IsEvent(by, s, ch, st[1]) /\ b = by \o bf[1] /\ t = ch \o ty[1]
      BY <1>1, <2>1 DEF Chain, Ends, Link
    <2> DEFINE bg == [i \in 0..n - 1 |-> bf[i + 1]]
               sg == [i \in 0..n - 1 |-> st[i + 1]]
               tg == [i \in 0..n - 1 |-> ty[i + 1]]
    <2>3. \A i \in 0..n - 1 : bg[i] = bf[i + 1] /\ sg[i] = st[i + 1] /\ tg[i] = ty[i + 1]
      OBVIOUS
    <2> HIDE DEF bg, sg, tg
    <2>4. ASSUME NEW i \in 0..n - 1
          PROVE  bg[i] \in Seq(Int) /\ tg[i] \in Seq(Int) /\ sg[i] \subseteq States
      <3>1. i + 1 \in 0..n
        BY <1>2
      <3> QED
        BY <1>1, <2>3, <3>1 DEF Chain
    <2>5. ASSUME NEW i \in 0..(n - 1) - 1
          PROVE  Link(bg[i], sg[i], tg[i], bg[i + 1], sg[i + 1], tg[i + 1])
      <3>1. i \in 0..n - 1 /\ i + 1 \in 0..n - 1
        BY <1>2
      <3>2. Link(bf[i + 1], st[i + 1], ty[i + 1], bf[(i + 1) + 1], st[(i + 1) + 1], ty[(i + 1) + 1])
        BY <1>1, <3>1 DEF Chain
      <3> QED
        BY <2>3, <3>1, <3>2
    <2>6. Chain(n - 1, bg, sg, tg)
      BY <2>1, <2>4, <2>5 DEF Chain
    <2>7. Ends(n - 1, bg, sg, tg, bf[1], st[1], ty[1], f)
      <3>1. n - 1 \in 0..n - 1
        BY <2>1
      <3> QED
        BY <1>1, <2>1, <2>3, <3>1 DEF Ends
    <2>8. Behind(bf[1], st[1], ty[1], f)
      BY <2>6, <2>7 DEF Behind
    <2> QED
      BY <2>2, <2>8 DEF Waiting
  <1> QED
    BY <1>3, <1>4

\* Without the first of them.
LEMMA FirstShown ==
    ASSUME NEW x, NEW u, <<x>> \in Seq(Int), u \in Seq(Int)
    PROVE  SubSeq(<<x>> \o u, 2, Len(<<x>> \o u)) = u
  <1>1. x \in Int
    <2>1. Len(<<x>>) = 1 /\ <<x>>[1] = x
      OBVIOUS
    <2> QED
      BY <2>1, ElementOfSeq
  <1> QED
    BY <1>1

-----------------------------------------------------------------------------
(* The inductive invariant.                                                *)

\* What the handler will have when it has caught up with the typist.
Final == (down \cap Held) \cup locks

DInv ==
    /\ cpu \in {"boot", "ready", "user", "irq", "halt"}
    /\ down \subseteq Keys /\ KEY_PAUSE \notin down /\ locks \subseteq Locks
    /\ cpu = "boot" => buffer = <<>> /\ typed = <<>> /\ key_states = {} /\ down = {} /\ locks = {}
    /\ cpu # "boot" => Behind(buffer, key_states, typed, Final) /\ leds = key_states \cap Locks

\* At boot nothing is waiting.
LEMMA InitDInv ==
    ASSUME Init
    PROVE  DInv
  BY DEF Init, DInv

\* The LEDs that set_leds lights are those of the locks.
LEMMA LitLocks ==
    ASSUME NEW s
    PROVE  Lit(set_leds(s)) = s \cap Locks
  <1> DEFINE a == IF KEY_SCROLL_LOCK \in s THEN 1 ELSE 0
             b == IF KEY_NUM_LOCK \in s THEN 2 ELSE 0
             c == IF KEY_CAPS_LOCK \in s THEN 4 ELSE 0
  <1>1. set_leds(s) = a + b + c
    BY DEF set_leds
  <1>2. /\ ((a + b + c) \div 1) % 2 = 1 <=> KEY_SCROLL_LOCK \in s
        /\ ((a + b + c) \div 2) % 2 = 1 <=> KEY_NUM_LOCK \in s
        /\ ((a + b + c) \div 4) % 2 = 1 <=> KEY_CAPS_LOCK \in s
    OBVIOUS
  <1> HIDE DEF a, b, c
  <1>3. ASSUME NEW key \in Locks
        PROVE  (set_leds(s) \div (CASE key = KEY_SCROLL_LOCK -> 1 [] key = KEY_NUM_LOCK -> 2
                                    [] key = KEY_CAPS_LOCK -> 4)) % 2 = 1 <=> key \in s
    BY <1>1, <1>2, Numbers DEF Locks, KeyNumbers
  <1> QED
    BY <1>3 DEF Lit

\* The keys held and the locks, as states.
LEMMA FinalStates ==
    ASSUME DInv
    PROVE  Final \subseteq States
  BY DEF DInv, Final, States

\* What the typist expects of a key.
LEMMA ExpectedChars ==
    ASSUME DInv, NEW key
    PROVE  Expected(key) = Chars(Final, key)
  <1>1. locks \subseteq Locks
    BY DEF DInv
  <1>2. /\ KEY_CAPS_LOCK \in Final <=> KEY_CAPS_LOCK \in locks
        /\ KEY_NUM_LOCK \in Final <=> KEY_NUM_LOCK \in locks
    BY Numbers DEF Final, Held, KeyNumbers
  <1>3. /\ is_shift_set(Final) <=> is_shift_set(down)
        /\ is_ctrl_set(Final) <=> is_ctrl_set(down)
        /\ is_alt_set(Final) <=> is_alt_set(down)
    BY <1>1, Numbers DEF is_shift_set, is_ctrl_set, is_alt_set, Final, Held, Locks, KeyNumbers
  <1> HIDE DEF Final
  <1> QED
    BY <1>2, <1>3 DEF Expected, Chars

\* A key goes down.
LEMMA PressStep ==
    ASSUME DInv, NEW key \in Keys, press(key)
    PROVE  DInv'
  <1>1. /\ cpu # "boot" /\ cpu' = cpu /\ leds' = leds /\ key_states' = key_states
        /\ buffer' = buffer \o MakeCode(key) /\ typed' = typed \o Expected(key)
        /\ down' = IF key = KEY_PAUSE THEN down ELSE down \cup {key}
        /\ locks' = (locks \cup ({key} \cap Locks)) \ (locks \cap {key})
    BY DEF press, Listening, Send
  <1>2. Final' = update_key_states(Final, key, FALSE)
    <2>1. locks \subseteq Locks /\ KEY_PAUSE \notin Held /\ Held \cap Locks = {}
      BY Numbers DEF DInv, Held, Locks, KeyNumbers
    <2>2. CASE key \in Locks
      BY <1>1, <2>1, <2>2 DEF Final, update_key_states
    <2>3. CASE key \in Held
      BY <1>1, <2>1, <2>3 DEF Final, update_key_states
    <2>4. CASE key \notin Held /\ key \notin Locks
      BY <1>1, <2>1, <2>4 DEF Final, update_key_states
    <2> QED
      BY <2>2, <2>3, <2>4
  <1>3. IsEvent(MakeCode(key), Final, Expected(key), Final')
    <2>1. key \in KeyCodes
      BY KeysAssumption
    <2>2. IsMake(key, MakeCode(key), Final, Expected(key), Final')
      BY <1>2, ExpectedChars DEF IsMake
    <2> QED
      BY <2>1, <2>2 DEF IsEvent
  <1>4. Behind(buffer, key_states, typed, Final)
    BY <1>1 DEF DInv
  <1>5. Behind(buffer', key_states', typed', Final')
    BY <1>1, <1>3, <1>4, BehindAdd
  <1> QED
    BY <1>1, <1>5 DEF DInv

\* A key comes up.
LEMMA ReleaseStep ==
    ASSUME DInv, NEW key \in Keys, release(key)
    PROVE  DInv'
  <1>1. /\ cpu # "boot" /\ cpu' = cpu /\ leds' = leds /\ key_states' = key_states
        /\ buffer' = buffer \o BreakCode(key) /\ typed' = typed
        /\ down' = down \ {key} /\ locks' = locks /\ key \in down
    BY DEF release, Listening, Send
  <1>2. Final' = update_key_states(Final, key, TRUE)
    <2>1. locks \subseteq Locks /\ Held \cap Locks = {}
      BY Numbers DEF DInv, Held, Locks, KeyNumbers
    <2>2. CASE key \in Locks
      BY <1>1, <2>1, <2>2 DEF Final, update_key_states
    <2>3. CASE key \in Held
      BY <1>1, <2>1, <2>3 DEF Final, update_key_states
    <2>4. CASE key \notin Held /\ key \notin Locks
      BY <1>1, <2>1, <2>4 DEF Final, update_key_states
    <2> QED
      BY <2>2, <2>3, <2>4
  <1>3. IsEvent(BreakCode(key), Final, <<>>, Final')
    <2>1. key \in KeyCodes \ {KEY_PAUSE}
      BY <1>1, KeysAssumption DEF DInv
    <2>2. IsBreak(key, BreakCode(key), Final, <<>>, Final')
      BY <1>2 DEF IsBreak
    <2> QED
      BY <2>1, <2>2 DEF IsEvent
  <1>4. Behind(buffer, key_states, typed, Final)
    BY <1>1 DEF DInv
  <1>5. Behind(buffer \o BreakCode(key), key_states, typed \o <<>>, Final')
    BY <1>3, <1>4, BehindAdd
  <1>6. typed \o <<>> = typed
    BY <1>4, BehindTyped, NoneAdded
  <1>7. Behind(buffer', key_states', typed', Final')
    BY <1>1, <1>5, <1>6
  <1> QED
    BY <1>1, <1>7 DEF DInv

\* Answers to a command come in front of the rest or behind it.
LEMMA Answers ==
    ASSUME NEW b, NEW s, NEW t, NEW f, Behind(b, s, t, f)
    PROVE  Behind(<<ACK, ACK>> \o b, s, t, f) /\ Behind(b \o <<ACK, ACK>>, s, t, f)
  <1>1. b \in Seq(Int) /\ t \in Seq(Int) /\ s \subseteq States /\ f \subseteq States
    BY BehindTyped
  <1>2. ACK \in Int /\ <<ACK>> \in Seq(Int) /\ <<ACK, ACK>> = <<ACK>> \o <<ACK>>
    BY DEF ACK
  <1>3. \A x : IsEvent(<<ACK>>, x, <<>>, x)
    BY DEF IsEvent, IsAck
  <1>4. <<>> \o t = t /\ t \o <<>> = t
    BY <1>1, NoneAdded
  <1>5. Behind(<<ACK>> \o b, s, t, f)
    BY <1>1, <1>3, <1>4, BehindFront
  <1>6. Behind(<<ACK>> \o (<<ACK>> \o b), s, t, f)
    BY <1>1, <1>3, <1>4, <1>5, BehindFront
  <1>7. Behind(b \o <<ACK>>, s, t, f)
    BY <1>1, <1>3, <1>4, BehindAdd
  <1>8. Behind((b \o <<ACK>>) \o <<ACK>>, s, t, f)
    BY <1>1, <1>3, <1>4, <1>7, BehindAdd
  <1> DEFINE a == <<ACK>>
  <1> HIDE DEF a
  <1>9. (a \o a) \o b = a \o (a \o b) /\ (b \o a) \o a = b \o (a \o a)
    BY <1>1, <1>2, AddedInTurn DEF a
  <1> QED
    BY <1>2, <1>6, <1>8, <1>9, Zenon DEF a

\* The keyboard is set up.
LEMMA KbdStep ==
    ASSUME DInv, kbd_initialize
    PROVE  DInv'
  <1>1. /\ buffer = <<>> /\ typed = <<>> /\ down = {} /\ locks = {} /\ key_states' = {}
        /\ buffer' = buffer \o <<ACK, ACK>> /\ cpu' = "ready" /\ typed' = typed /\ down' = down
        /\ locks' = locks /\ leds' = Lit(set_leds({}))
    BY DEF DInv, kbd_initialize, Send
  <1>2. Behind(<<>>, {}, <<>>, {})
    BY BehindNone
  <1>3. Behind(buffer', key_states', typed', {})
    BY <1>1, <1>2, Answers
  <1>4. Final' = {}
    BY <1>1 DEF Final
  <1>5. leds' = key_states' \cap Locks
    BY <1>1, LitLocks
  <1>6. KEY_PAUSE \notin down' /\ down' \subseteq Keys /\ locks' \subseteq Locks
    BY <1>1
  <1> QED
    BY <1>1, <1>3, <1>4, <1>5, <1>6 DEF DInv

\* What a round of keyboard_handler does to the buffer: c is left of it.
Taken(c, z) ==
    \/ buffer' = c /\ leds' = leds /\ z \cap Locks = key_states \cap Locks
    \/ buffer' \in {<<ACK, ACK>> \o c, c \o <<ACK, ACK>>} /\ leds' = z \cap Locks

\* What it shows: the characters ch, of those typed.
Shows(ch) ==
    \/ ch = <<>> /\ screen' = screen
    \/ \E x : ch = <<x>> /\ screen' = put_char_at(screen, EchoLine, 0, x)

\* It takes one key or answer from the buffer and shows what was typed with it.
LEMMA Round ==
    ASSUME DInv, keyboard_handler
    PROVE  \E ch, c, u : /\ Behind(c, key_states', u, Final) /\ Taken(c, key_states')
                         /\ typed = ch \o u /\ typed' = u /\ Shows(ch) /\ ch \in Seq(Int)
  <1>1. cpu = "irq" /\ buffer # <<>>
    BY DEF keyboard_handler
  <1>2. Behind(buffer, key_states, typed, Final)
    BY <1>1 DEF DInv
  <1>3. PICK by, ch, c, u, z : /\ IsEvent(by, key_states, ch, z) /\ buffer = by \o c
                               /\ typed = ch \o u /\ Behind(c, z, u, Final)
    <2>1. Waiting(buffer, key_states, typed, Final)
      BY <1>1, <1>2, BehindRest
    <2> QED
      BY <2>1 DEF Waiting
  <1>4. key_states \subseteq States /\ c \in Seq(Int) /\ u \in Seq(Int)
    BY <1>2, <1>3, BehindTyped
  <1>5. /\ by \in Seq(Int) /\ Len(by) \in Nat \ {0} /\ ch \in Seq(Int)
        /\ Handled(buffer, by, key_states, ch, z)
    BY <1>3, <1>4, EventHandled
  <1> DEFINE scan == scan_to_key_code(buffer)
             rest == SubSeq(buffer, scan.bytes + 1, Len(buffer))
             states == update_key_states(key_states, scan.key_code, scan.is_break)
             char == console_key_code_handler(states, scan.key_code)
             shown == is_reported(states, scan.key_code, scan.is_break) /\ char # 0
  <1>6. /\ scan.bytes = Len(by) /\ states = z
        /\ ch = IF shown THEN <<test_console_char_consumer(char)>> ELSE <<>>
    BY <1>5, Zenon DEF Handled, Echo
  <1>7. rest = c
    <2>1. scan.bytes = Len(by)
      BY <1>6
    <2> HIDE DEF scan
    <2> QED
      BY <1>3, <1>4, <1>5, <2>1
  <1>8. /\ key_states' = states
        /\ IF states \cap Locks # key_states \cap Locks
           THEN /\ leds' = Lit(set_leds(states))
                /\ buffer' \in {<<ACK, ACK>> \o rest, rest \o <<ACK, ACK>>}
           ELSE leds' = leds /\ buffer' = rest
        /\ IF shown
           THEN /\ screen' = put_char_at(screen, EchoLine, 0, test_console_char_consumer(char))
                /\ typed' = SubSeq(typed, 2, Len(typed))
           ELSE screen' = screen /\ typed' = typed
    BY DEF keyboard_handler
  <1> HIDE DEF rest, states, char, shown
  <1>9. key_states' = z
    BY <1>6, <1>8
  <1>10. Taken(c, z)
    BY <1>6, <1>7, <1>8, LitLocks DEF Taken
  <1>11. typed' = u /\ Shows(ch)
    <2>1. CASE shown
      <3> DEFINE x == test_console_char_consumer(char)
      <3>1. ch = <<x>> /\ screen' = put_char_at(screen, EchoLine, 0, x)
        BY <1>6, <1>8, <2>1
      <3> HIDE DEF x
      <3>2. typed' = SubSeq(<<x>> \o u, 2, Len(<<x>> \o u))
        BY <1>3, <1>8, <2>1, <3>1
      <3>3. typed' = u
        BY <1>4, <1>5, <3>1, <3>2, FirstShown
      <3> QED
        BY <3>1, <3>3 DEF Shows
    <2>2. CASE ~shown
      BY <1>3, <1>4, <1>6, <1>8, <2>2, NoneAdded DEF Shows
    <2> QED
      BY <2>1, <2>2
  <1> QED
    BY <1>3, <1>5, <1>9, <1>10, <1>11

\* A round of keyboard_handler keeps the invariant, whether the answers to
\* set_leds come before or behind the keys that wait.
LEMMA HandlerStep ==
    ASSUME DInv, keyboard_handler
    PROVE  DInv'
  <1>1. PICK ch, c, u : /\ Behind(c, key_states', u, Final) /\ Taken(c, key_states')
                        /\ typed = ch \o u /\ typed' = u /\ Shows(ch)
    BY Round
  <1>2. down' = down /\ locks' = locks /\ cpu' = cpu /\ cpu = "irq"
    BY DEF keyboard_handler
  <1>3. Behind(buffer', key_states', u, Final)
    BY <1>1, Answers DEF Taken
  <1>4. leds' = key_states' \cap Locks
    BY <1>1, <1>2 DEF Taken, DInv
  <1>5. Final' = Final
    BY <1>2 DEF Final
  <1> QED
    BY <1>1, <1>2, <1>3, <1>4, <1>5 DEF DInv

\* Steps that leave the keyboard and the handler's states alone.
LEMMA OtherStep ==
    ASSUME DInv, UNCHANGED <<keyboard, key_states>>, cpu # "boot" => cpu' # "boot",
           cpu = "boot" => cpu' = "boot", cpu' \in {"boot", "ready", "user", "irq", "halt"}
    PROVE  DInv'
  <1>1. /\ buffer' = buffer /\ leds' = leds /\ down' = down /\ locks' = locks /\ typed' = typed
        /\ key_states' = key_states
    BY DEF keyboard
  <1>2. Final' = Final
    BY <1>1 DEF Final
  <1> QED
    BY <1>1, <1>2 DEF DInv

\* Every step keeps the invariant.
LEMMA StepDInv ==
    ASSUME DInv, [Next]_vars
    PROVE  DInv'
  <1>1. ASSUME NEW key \in Keys, press(key) PROVE DInv'
    BY <1>1, PressStep
  <1>2. ASSUME NEW key \in Keys, release(key) PROVE DInv'
    BY <1>2, ReleaseStep
  <1>3. ASSUME NEW fmt, boot_message(fmt) PROVE DInv'
    BY <1>3, OtherStep DEF boot_message
  <1>4. CASE kbd_initialize
    BY <1>4, KbdStep
  <1>5. CASE scheduler
    BY <1>5, OtherStep DEF scheduler
  <1>6. CASE interrupt
    BY <1>6, OtherStep DEF interrupt
  <1>7. CASE keyboard_handler
    BY <1>7, HandlerStep
  <1>8. CASE pic_interrupt
    BY <1>8, OtherStep DEF pic_interrupt
  <1>9. ASSUME NEW str, sys_prints(str) PROVE DInv'
    BY <1>9, OtherStep DEF sys_prints
  <1>10. ASSUME NEW fmt, excep_handle(fmt) PROVE DInv'
    BY <1>10, OtherStep DEF excep_handle, panic
  <1>11. CASE UNCHANGED vars
    <2>1. UNCHANGED <<keyboard, key_states>> /\ cpu' = cpu
      BY <1>11 DEF vars
    <2> QED
      BY <2>1, OtherStep DEF DInv
  <1> QED
    BY <1>1, <1>2, <1>3, <1>4, <1>5, <1>6, <1>7, <1>8, <1>9, <1>10, <1>11 DEF Next

\* However fast somebody types, what waits in the controller's buffer is whole
\* keys and answers, and key_states, the LEDs and the characters shown are those
\* of the keys taken from it.
THEOREM Decoding == Spec => []DInv
  BY InitDInv, StepDInv, PTL DEF Spec

\* When kernel/keyboard.c has caught up, the modifiers, the locks, the LEDs and
\* the characters are those of the typist, for any keys, any number of them held
\* and any number of bytes waiting.
THEOREM StatesAreTyped == Spec => []StatesMatch
  <1>1. DInv => StatesMatch
    <2> SUFFICES ASSUME DInv, cpu \in {"user", "irq"}, buffer = <<>>
                 PROVE  key_states = Final /\ leds = locks /\ typed = <<>>
      BY DEF StatesMatch, Final
    <2>1. Behind(buffer, key_states, typed, Final) /\ leds = key_states \cap Locks
      BY DEF DInv
    <2>2. \A by, ch, s, z, c : IsEvent(by, s, ch, z) /\ s \subseteq States /\ c \in Seq(Int) =>
              by \o c # <<>>
      <3> SUFFICES ASSUME NEW by, NEW ch, NEW s, NEW z, NEW c, IsEvent(by, s, ch, z),
                          s \subseteq States, c \in Seq(Int)
                   PROVE  by \o c # <<>>
        OBVIOUS
      <3>1. by \in Seq(Int) /\ Len(by) \in Nat \ {0}
        BY EventHandled
      <3> QED
        BY <3>1
    <2>3. typed = <<>> /\ key_states = Final
      <3>1. ASSUME NEW by, NEW ch, NEW c, NEW u, NEW z, IsEvent(by, key_states, ch, z),
                   buffer = by \o c, Behind(c, z, u, Final)
            PROVE  FALSE
        BY <2>1, <2>2, <3>1, BehindTyped
      <3>2. ~Waiting(buffer, key_states, typed, Final)
        BY <3>1 DEF Waiting
      <3> QED
        BY <2>1, <3>2, BehindRest
    <2>4. Final \cap Locks = locks
      <3>1. locks \subseteq Locks /\ Held \cap Locks = {}
        BY Numbers DEF DInv, Held, Locks, KeyNumbers
      <3> QED
        BY <3>1 DEF Final
    <2> QED
      BY <2>1, <2>3, <2>4
  <1> QED
    BY <1>1, Decoding, PTL

-----------------------------------------------------------------------------
(* The text.                                                               *)

\* A digit is a character.
LEMMA DigitInt ==
    ASSUME NEW d \in Int
    PROVE  Digit(d) \in Int
  BY DEF Digit

\* reverse keeps the length.
LEMMA ReverseSeq ==
    ASSUME NEW s \in Seq(Int)
    PROVE  Reverse(s) \in Seq(Int) /\ Len(Reverse(s)) = Len(s)
  BY DEF Reverse

\* The smaller one of two numbers.
LEMMA MinTwo ==
    ASSUME NEW a \in Int, NEW b \in Int
    PROVE  Min({a, b}) \in Int /\ Min({a, b}) <= a /\ Min({a, b}) <= b /\ Min({a, b}) \in {a, b}
  <1>1. CASE a <= b
    <2>1. a \in {a, b} /\ \A y \in {a, b} : a <= y
      BY <1>1
    <2> QED
      BY <2>1 DEF Min
  <1>2. CASE ~(a <= b)
    <2>1. b \in {a, b} /\ \A y \in {a, b} : b <= y
      BY <1>2
    <2> QED
      BY <2>1 DEF Min
  <1> QED
    BY <1>1, <1>2

\* The digits of the numbers up to v, the lowest first.
Digits(d, v, base) ==
    \A i \in 0..v :
        /\ d[i] \in Seq(Int)
        /\ d[i] = <<Digit(i % base)>> \o (IF i \div base = 0 THEN <<>> ELSE d[i \div base])

\* What utoa_s computes.
LEMMA DigitsIs ==
    ASSUME NEW v \in Nat, NEW base \in {10, 16}
    PROVE  \E d : Digits(d, v, base) /\ utoa_s(v, base) = Reverse(d[v])
  <1> DEFINE Is(f, n) == f = [i \in 0..n |-> <<Digit(i % base)>> \o
                                  (IF i \div base = 0 THEN <<>> ELSE f[i \div base])]
             Good(n) == \E f \in [0..n -> Seq(Int)] : Is(f, n)
             G == {n \in Nat : Good(n)}
  <1>0. \A i \in Nat : /\ i % base \in Nat /\ i \div base \in Nat
                       /\ i \div base = 0 \/ i \div base < i
    OBVIOUS
  <1>1. 0 \in G
    <2> DEFINE f == [i \in 0..0 |-> <<Digit(i % base)>> \o
                                  (IF i \div base = 0 THEN <<>> ELSE <<>>)]
    <2>1. 0 \div base = 0
      OBVIOUS
    <2>2. Is(f, 0)
      BY <2>1
    <2>3. f \in [0..0 -> Seq(Int)]
      <3>1. Digit(0 % base) \in Int
        BY <1>0, DigitInt
      <3> QED
        BY <3>1, <2>1
    <2> QED
      BY <2>2, <2>3
  <1>2. ASSUME NEW n \in Nat, n \in G PROVE n + 1 \in G
    <2>1. PICK f \in [0..n -> Seq(Int)] : Is(f, n)
      BY <1>2
    <2> DEFINE m == n + 1
               x == <<Digit(m % base)>> \o (IF m \div base = 0 THEN <<>> ELSE f[m \div base])
               g == [i \in 0..m |-> IF i = m THEN x ELSE f[i]]
    <2>2. m \in Nat /\ m \div base \in 0..n /\ m % base \in Nat
      BY <1>0
    <2>3. x \in Seq(Int)
      <3> HIDE DEF m, Is
      <3>1. f[m \div base] \in Seq(Int)
        BY <2>1, <2>2
      <3> DEFINE r == m % base
      <3>2. r \in Int
        BY <2>2
      <3> HIDE DEF r
      <3>3. Digit(r) \in Int
        BY <3>2, DigitInt
      <3> QED
        BY <3>1, <3>3 DEF r
    <2>4. /\ g \in [0..m -> Seq(Int)] /\ g[m] = x
          /\ \A i \in 0..n : g[i] = f[i]
      <3> HIDE DEF x, Is
      <3> QED
        BY <2>1, <2>3
    <2>5. ASSUME NEW i \in 0..m
          PROVE  g[i] = <<Digit(i % base)>> \o (IF i \div base = 0 THEN <<>> ELSE g[i \div base])
      <3>1. CASE i = m
        <4>1. g[m \div base] = f[m \div base]
          BY <2>2, <2>4
        <4> HIDE DEF g, m
        <4> QED
          BY <2>4, <3>1, <4>1
      <3>2. CASE i # m
        <4>1. i \in 0..n /\ i \div base \in 0..n
          BY <1>0, <3>2
        <4>2. g[i \div base] = f[i \div base] /\ g[i] = f[i]
          BY <2>4, <4>1
        <4>3. f[i] = <<Digit(i % base)>> \o (IF i \div base = 0 THEN <<>> ELSE f[i \div base])
          BY <2>1, <4>1
        <4> HIDE DEF g
        <4> QED
          BY <4>2, <4>3
      <3> QED
        BY <3>1, <3>2
    <2>6. Is(g, m)
      <3>1. g = [i \in 0..m |-> g[i]]
        BY <2>4
      <3> HIDE DEF g, m
      <3> QED
        BY <2>5, <3>1
    <2>7. Good(m)
      <3> HIDE DEF g, m, Is
      <3> QED
        BY <2>4, <2>6
    <2> QED
      BY <2>2, <2>7
  <1> HIDE DEF G
  <1>3. v \in G
    BY <1>1, <1>2, Induction
  <1> USE DEF G
  <1> DEFINE d == CHOOSE f : Is(f, v)
  <1>4. Is(d, v)
    <2>1. PICK f : Is(f, v)
      BY <1>3
    <2> HIDE DEF Is
    <2> QED
      BY <2>1
  <1>5. utoa_s(v, base) = Reverse(d[v])
    BY Zenon DEF utoa_s
  <1> HIDE DEF d
  <1> DEFINE T == {n \in Nat : \A i \in 0..n : i <= v => d[i] \in Seq(Int)}
  <1>6. ASSUME NEW i \in 0..v
        PROVE  d[i] = <<Digit(i % base)>> \o (IF i \div base = 0 THEN <<>> ELSE d[i \div base])
    BY <1>4
  <1>7. 0 \in T
    <2>1. 0 \in 0..v /\ 0 \div base = 0 /\ Digit(0 % base) \in Int
      BY <1>0, DigitInt
    <2>2. d[0] = <<Digit(0 % base)>> \o <<>>
      BY <1>6, <2>1
    <2>3. d[0] \in Seq(Int)
      BY <2>1, <2>2
    <2>4. \A i \in 0..0 : i = 0
      OBVIOUS
    <2> QED
      BY <2>3, <2>4
  <1>8. ASSUME NEW n \in Nat, n \in T PROVE n + 1 \in T
    <2>1. ASSUME NEW i \in 0..n + 1, i <= v PROVE d[i] \in Seq(Int)
      <3>1. CASE i <= n
        <4>1. i \in 0..n
          BY <3>1
        <4> QED
          BY <1>8, <2>1, <4>1
      <3>2. CASE i = n + 1
        <4>1. /\ i \in 0..v /\ Digit(i % base) \in Int
              /\ i \div base = 0 \/ (i \div base \in 0..n /\ i \div base <= v)
          BY <1>0, <2>1, <3>2, DigitInt
        <4>2. i \div base = 0 \/ d[i \div base] \in Seq(Int)
          BY <1>8, <4>1
        <4>3. d[i] = <<Digit(i % base)>> \o (IF i \div base = 0 THEN <<>> ELSE d[i \div base])
          BY <1>6, <4>1
        <4> QED
          BY <4>1, <4>2, <4>3
      <3> QED
        BY <3>1, <3>2
    <2> QED
      BY <2>1
  <1> HIDE DEF T
  <1>9. v \in T
    BY <1>7, <1>8, Induction
  <1>10. \A i \in 0..v : d[i] \in Seq(Int)
    BY <1>9 DEF T
  <1>11. Digits(d, v, base)
    BY <1>6, <1>10, Zenon DEF Digits
  <1> QED
    BY <1>5, <1>11

\* The digits of a number.
LEMMA DigitsText ==
    ASSUME NEW v \in Nat, NEW base \in {10, 16}
    PROVE  utoa_s(v, base) \in Seq(Int)
  <1>1. PICK d : Digits(d, v, base) /\ utoa_s(v, base) = Reverse(d[v])
    BY DigitsIs
  <1>2. v \in 0..v
    OBVIOUS
  <1>3. d[v] \in Seq(Int)
    BY <1>1, <1>2 DEF Digits
  <1> QED
    BY <1>1, <1>3, ReverseSeq

\* At most n characters are copied.
LEMMA CopyRoom ==
    ASSUME NEW src \in Seq(Int), NEW n \in Nat
    PROVE  copy_str(src, n) \in Seq(Int) /\ Len(copy_str(src, n)) <= n
  <1> DEFINE k == Min({n, Len(src)})
  <1>1. k \in Int /\ k <= n /\ k <= Len(src) /\ k >= 0
    <2>1. Len(src) \in Nat
      OBVIOUS
    <2>2. ASSUME NEW m \in Int
          PROVE  /\ Min({n, m}) \in Int /\ Min({n, m}) <= n /\ Min({n, m}) <= m
                 /\ Min({n, m}) \in {n, m}
      <3>1. n \in Int
        OBVIOUS
      <3> QED
        BY <3>1, MinTwo
    <2>3. k \in Int /\ k <= n /\ k <= Len(src) /\ k \in {n, Len(src)}
      BY <2>1, <2>2
    <2> HIDE DEF k
    <2> QED
      BY <2>1, <2>3
  <1>2. copy_str(src, n) = SubSeq(src, 1, k)
    BY DEF copy_str
  <1> HIDE DEF k
  <1> QED
    BY <1>1, <1>2

\* At most `size' bytes are filled.
LEMMA FillRoom ==
    ASSUME NEW size \in Nat, NEW padding \in Int, NEW padding_len \in Nat
    PROVE  /\ fill_padding(size, padding, padding_len) \in Seq(Int)
           /\ Len(fill_padding(size, padding, padding_len)) <= size
  <1> DEFINE k == Min({size, padding_len})
  <1>1. k \in Int /\ k <= size /\ k >= 0
    <2>2. k \in Int /\ k <= size /\ k \in {size, padding_len}
      BY MinTwo
    <2> HIDE DEF k
    <2> QED
      BY <2>2
  <1>2. fill_padding(size, padding, padding_len) = [i \in 1..k |-> padding]
    BY DEF fill_padding
  <1> HIDE DEF k
  <1> QED
    BY <1>1, <1>2

\* A padded text stays in the room it has.
LEMMA PaddedRoom ==
    ASSUME NEW size \in Nat, NEW str \in Seq(Int), NEW left, NEW padding \in Int, NEW width \in Nat
    PROVE  /\ copy_with_padding(size, str, left, padding, width) \in Seq(Int)
           /\ Len(copy_with_padding(size, str, left, padding, width)) <= size
  <1> DEFINE pad == IF width > Len(str) THEN width - Len(str) ELSE 0
             first == fill_padding(size, padding, pad)
             all == copy_str(str, size)
             rest == copy_str(str, size - Len(first))
             last == fill_padding(size - Len(all), padding, pad)
  <1>1. pad \in Nat
    OBVIOUS
  <1>2. first \in Seq(Int) /\ Len(first) <= size /\ all \in Seq(Int) /\ Len(all) <= size
    <2> HIDE DEF pad
    <2> QED
      BY <1>1, FillRoom, CopyRoom
  <1>3. /\ size - Len(first) \in Nat /\ size - Len(all) \in Nat /\ Len(first) \in Nat
        /\ Len(all) \in Nat
    <2> HIDE DEF first, all
    <2> QED
      BY <1>2
  <1>4. /\ rest \in Seq(Int) /\ Len(rest) <= size - Len(first)
        /\ last \in Seq(Int) /\ Len(last) <= size - Len(all)
    <2> HIDE DEF first, all, pad
    <2> QED
      BY <1>1, <1>3, FillRoom, CopyRoom
  <1>5. copy_with_padding(size, str, left, padding, width) =
            IF left THEN all \o last ELSE first \o rest
    <2>1. CASE left
      BY <2>1 DEF copy_with_padding
    <2>2. CASE ~left
      BY <2>2 DEF copy_with_padding
    <2> QED
      BY <2>1, <2>2
  <1> HIDE DEF first, all, last, rest, pad
  <1>6. all \o last \in Seq(Int) /\ Len(all \o last) <= size
    BY <1>2, <1>3, <1>4, Joined
  <1>7. first \o rest \in Seq(Int) /\ Len(first \o rest) <= size
    BY <1>2, <1>3, <1>4, Joined
  <1> QED
    BY <1>5, <1>6, <1>7

\* The text of a directive.
LEMMA ItemText ==
    ASSUME NEW item, IsItem(item), item.conv \notin {"lit", "c"}
    PROVE  text_of(item) \in Seq(Int) /\ item.width \in Nat
  <1>1. item.width \in Nat
    BY DEF IsItem
  <1>2. CASE item.conv = "s"
    BY <1>1, <1>2 DEF IsItem, text_of
  <1>3. CASE item.conv = "d"
    <2>1. item.arg \in Int /\ text_of(item) = itoa_s(item.arg)
      BY <1>3, TextAssumption DEF IsItem, text_of
    <2>2. CASE item.arg < 0
      <3> DEFINE v == (-item.arg) % UINT_MOD
      <3>1. v \in Nat
        BY <2>1, TextAssumption
      <3> HIDE DEF v
      <3>2. utoa_s(v, 10) \in Seq(Int)
        BY <3>1, DigitsText
      <3>3. text_of(item) = <<45>> \o utoa_s(v, 10)
        BY <2>1, <2>2 DEF itoa_s, v
      <3> QED
        BY <1>1, <3>2, <3>3
    <2>3. CASE ~(item.arg < 0)
      <3>1. item.arg \in Nat
        BY <2>1, <2>3
      <3>2. utoa_s(item.arg, 10) \in Seq(Int)
        BY <3>1, DigitsText
      <3> QED
        BY <1>1, <2>1, <2>3, <3>2 DEF itoa_s
    <2> QED
      BY <2>2, <2>3
  <1>4. CASE item.conv \in {"u", "x", "p"}
    <2>1. item.arg \in Nat
      BY <1>4, TextAssumption DEF IsItem
    <2>2. utoa_s(item.arg, 10) \in Seq(Int) /\ utoa_s(item.arg, 16) \in Seq(Int)
      BY <2>1, DigitsText
    <2>3. <<48, 120>> \o utoa_s(item.arg, 16) \in Seq(Int)
      BY <2>2
    <2> QED
      BY <1>1, <1>4, <2>2, <2>3 DEF text_of
  <1> QED
    BY <1>2, <1>3, <1>4 DEF IsItem

\* One round of the loop of vsnprintf stays in the room that is left.
LEMMA ItemRoom ==
    ASSUME NEW item, IsItem(item), NEW size \in Nat \ {0}
    PROVE  print_item(item, size) \in Seq(Int) /\ Len(print_item(item, size)) <= size
  <1>1. CASE item.conv \in {"lit", "c"}
    <2>1. CASE item.conv = "lit"
      BY <2>1 DEF IsItem, print_item
    <2>2. CASE item.conv = "c"
      <3>1. item.arg % 256 \in Int /\ print_item(item, size) = <<item.arg % 256>>
        BY <2>2 DEF IsItem, print_item, CHAR_MOD
      <3> QED
        BY <3>1
    <2> QED
      BY <1>1, <2>1, <2>2
  <1>2. CASE item.conv \notin {"lit", "c"}
    <2>1. text_of(item) \in Seq(Int) /\ item.width \in Nat
      BY <1>2, ItemText
    <2>2. padding_of(item) \in Int
      BY DEF padding_of
    <2>3. print_item(item, size) =
              copy_with_padding(size, text_of(item), is_left(item), padding_of(item), item.width)
      BY <1>2 DEF print_item
    <2> QED
      BY <2>1, <2>2, <2>3, PaddedRoom
  <1> QED
    BY <1>1, <1>2

-----------------------------------------------------------------------------
(* The numerals.                                                           *)

\* Dividing twice is dividing by the product.
LEMMA DivDiv ==
    ASSUME NEW a \in Nat, NEW b \in Nat \ {0}, NEW c \in Nat \ {0}
    PROVE  (a \div b) \div c = a \div (b * c)
  <1> DEFINE q == a \div b
             r == a % b
             s == q \div c
             t == q % c
             bc == b * c
             u == a \div bc
             w == a % bc
             low == b * t + r
  <1>1. q \in Nat /\ r \in 0..b - 1 /\ a = b * q + r
    BY Division, Zenon
  <1> HIDE DEF q, r
  <1>2. s \in Nat /\ t \in 0..c - 1 /\ q = c * s + t
    BY <1>1, Division, Zenon
  <1>3. bc \in Nat \ {0}
    OBVIOUS
  <1> HIDE DEF s, t, bc
  <1>4. u \in Nat /\ w \in 0..bc - 1 /\ a = bc * u + w
    BY <1>3, Division, Zenon
  <1> HIDE DEF u, w
  <1>5. low \in 0..bc - 1
    <2>1. b * t >= 0 /\ b * t <= b * (c - 1)
      BY <1>2
    <2>2. b * (c - 1) = bc - b
      BY DEF bc
    <2>3. b * t \in Int
      BY <1>2
    <2> DEFINE x == b * t
    <2> HIDE DEF x
    <2>4. x >= 0 /\ x <= bc - b /\ x \in Int
      BY <2>1, <2>2, <2>3 DEF x
    <2>5. x + r \in 0..bc - 1
      BY <1>1, <1>3, <2>4
    <2> QED
      BY <2>5 DEF x
  <1>6. a = bc * s + low
    <2>1. b * (c * s + t) = bc * s + b * t
      BY <1>2 DEF bc
    <2>2. a = (bc * s + b * t) + r
      BY <1>1, <1>2, <2>1
    <2> QED
      BY <1>1, <1>2, <1>3, <2>2
  <1> HIDE DEF low
  <1>7. u = s
    BY <1>2, <1>3, <1>4, <1>5, <1>6, DivisionUnique
  <1> QED
    BY <1>7 DEF u, s, q, bc

\* The powers of a base.
IsPow(p, n, base) ==
    /\ p \in [0..n -> Nat \ {0}] /\ p[0] = 1
    /\ \A i \in 1..n : p[i] = base * p[i - 1]

\* They grow.
LEMMA PowGrows ==
    ASSUME NEW n \in Nat, NEW base \in {10, 16}, NEW p, IsPow(p, n, base)
    PROVE  \A i, j \in 0..n : i < j => p[i] < p[j]
  <1> DEFINE T == {m \in Nat : m <= n => \A i \in 0..m : i < m => p[i] < p[m]}
  <1>1. 0 \in T
    OBVIOUS
  <1>2. ASSUME NEW m \in Nat, m \in T PROVE m + 1 \in T
    <2> SUFFICES ASSUME m + 1 <= n, NEW i \in 0..m + 1, i < m + 1 PROVE p[i] < p[m + 1]
      OBVIOUS
    <2>1. m + 1 \in 1..n /\ (m + 1) - 1 = m /\ m \in 0..n /\ i \in 0..n /\ i \in 0..m
      OBVIOUS
    <2>2. p[m + 1] = base * p[m] /\ p[m] \in Nat \ {0} /\ p[i] \in Nat \ {0}
      BY <2>1 DEF IsPow
    <2>3. p[m + 1] > p[m]
      BY <2>2
    <2>4. p[i] <= p[m]
      BY <1>2, <2>1, <2>2
    <2> QED
      BY <2>2, <2>3, <2>4
  <1> HIDE DEF T
  <1>3. Nat \subseteq T
    BY <1>1, <1>2, Induction
  <1> SUFFICES ASSUME NEW i \in 0..n, NEW j \in 0..n, i < j PROVE p[i] < p[j]
    OBVIOUS
  <1>4. j \in T /\ i \in 0..j
    BY <1>3
  <1> QED
    BY <1>4 DEF T

\* How many digits the base asks for.
IsDigits(k, p, v) == p[k] > v /\ (k > 1 => p[k - 1] <= v)

\* What the reference writes.
LEMMA NumeralIs ==
    ASSUME NEW v \in Nat, NEW base \in {10, 16}
    PROVE  \E p : /\ IsPow(p, v + 1, base)
                  /\ \A k \in 1..v + 1 : IsDigits(k, p, v) =>
                         Numeral(v, base) = [i \in 1..k |-> Digit((v \div p[k - i]) % base)]
  <1> DEFINE N == v + 1
             S == Nat \ {0}
             step == [x \in S \X (1..N) |-> base * x[1]]
             one == 1
  <1>1. N \in Nat /\ one \in S
    OBVIOUS
  <1>2. step \in [S \X (1..N) -> S]
    <2> HIDE DEF N
    <2>1. ASSUME NEW x \in S \X (1..N) PROVE base * x[1] \in S
      <3>1. x[1] \in S
        OBVIOUS
      <3> QED
        BY <3>1
    <2> HIDE DEF S
    <2> QED
      BY <2>1
  <1>3. ASSUME NEW s \in S, NEW i \in 1..N PROVE step[<<s, i>>] = base * s
    <2> HIDE DEF N, S
    <2> QED
      OBVIOUS
  <1> HIDE DEF step, S, one, N
  <1>4. PICK f \in [0..N -> S] : f[0] = one /\ \A i \in 1..N : f[i] = step[<<f[i - 1], i>>]
    <2>1. \E f : IsRun(f, N, S, one, step)
      BY <1>1, <1>2, Recursion, Zenon
    <2> QED
      BY <2>1 DEF IsRun
  <1> DEFINE Is(g) == g = [n \in 0..N |-> IF n = 0 THEN 1 ELSE base * g[n - 1]]
  <1>5. Is(f)
    <2>1. ASSUME NEW n \in 0..N PROVE f[n] = IF n = 0 THEN 1 ELSE base * f[n - 1]
      <3>1. CASE n = 0
        BY <1>4, <3>1 DEF one
      <3>2. CASE n # 0
        <4>1. n \in 1..N /\ n - 1 \in 0..N
          BY <1>1, <3>2
        <4>2. f[n - 1] \in S
          BY <1>4, <4>1
        <4> QED
          BY <1>3, <1>4, <3>2, <4>1, <4>2
      <3> QED
        BY <3>1, <3>2
    <2>2. f = [n \in 0..N |-> f[n]]
      OBVIOUS
    <2> QED
      BY <2>1, <2>2
  <1> DEFINE p == CHOOSE g : Is(g)
             k == CHOOSE n \in 1..N : p[n] > v /\ (n > 1 => p[n - 1] <= v)
  <1>6. Numeral(v, base) = [i \in 1..k |-> Digit((v \div p[k - i]) % base)]
    BY Zenon DEF Numeral, N
  <1>7. Is(p)
    <2> HIDE DEF Is
    <2> QED
      BY <1>5
  <1> HIDE DEF p
  <1>8. IsPow(p, N, base)
    <2>1. \A n \in 0..N : p[n] = IF n = 0 THEN 1 ELSE base * p[n - 1]
      BY <1>7
    <2>2. p = [n \in 0..N |-> p[n]]
      <3>1. DOMAIN p = 0..N
        BY <1>7
      <3> QED
        BY <1>7, <3>1
    <2>3. 0 \in 0..N /\ p[0] = 1
      BY <1>1, <2>1
    <2>4. ASSUME NEW i \in 1..N PROVE p[i] = base * p[i - 1]
      BY <1>1, <2>1
    <2> DEFINE T == {n \in Nat : n <= N => p[n] \in Nat \ {0}}
    <2>5. 0 \in T
      BY <2>3
    <2>6. ASSUME NEW n \in Nat, n \in T PROVE n + 1 \in T
      <3> SUFFICES ASSUME n + 1 <= N PROVE p[n + 1] \in Nat \ {0}
        OBVIOUS
      <3>1. n + 1 \in 1..N /\ (n + 1) - 1 = n /\ p[n] \in Nat \ {0}
        BY <1>1, <2>6
      <3>2. p[n + 1] = base * p[n]
        BY <2>4, <3>1
      <3> QED
        BY <3>1, <3>2
    <2> HIDE DEF T
    <2>7. Nat \subseteq T
      BY <2>5, <2>6, Induction
    <2>8. \A n \in 0..N : p[n] \in Nat \ {0}
      BY <1>1, <2>7 DEF T
    <2>9. p \in [0..N -> Nat \ {0}]
      BY <2>2, <2>8
    <2> QED
      BY <2>3, <2>4, <2>9 DEF IsPow
  <1>9. ASSUME NEW n \in 1..N, IsDigits(n, p, v) PROVE k = n
    <2>1. \A i, j \in 0..N : i < j => p[i] < p[j]
      BY <1>1, <1>8, PowGrows
    <2>2. \A i \in 0..N : p[i] \in Nat
      BY <1>8 DEF IsPow
    <2>3. ASSUME NEW m \in 1..N, p[m] > v /\ (m > 1 => p[m - 1] <= v) PROVE m = n
      <3>1. p[n] > v /\ (n > 1 => p[n - 1] <= v)
        BY <1>9 DEF IsDigits
      <3>2. ASSUME m < n PROVE FALSE
        <4>1. n > 1 /\ n - 1 \in 0..N /\ m \in 0..N /\ (m = n - 1 \/ m < n - 1)
          BY <1>1, <3>2
        <4>2. p[m] <= p[n - 1]
          BY <2>1, <2>2, <4>1
        <4> QED
          BY <2>2, <2>3, <3>1, <4>1, <4>2
      <3>3. ASSUME n < m PROVE FALSE
        <4>1. m > 1 /\ m - 1 \in 0..N /\ n \in 0..N /\ (n = m - 1 \/ n < m - 1)
          BY <1>1, <3>3
        <4>2. p[n] <= p[m - 1]
          BY <2>1, <2>2, <4>1
        <4> QED
          BY <2>2, <2>3, <3>1, <4>1, <4>2
      <3> QED
        BY <1>1, <3>2, <3>3
    <2>4. p[n] > v /\ (n > 1 => p[n - 1] <= v)
      BY <1>9 DEF IsDigits
    <2>5. k \in 1..N /\ p[k] > v /\ (k > 1 => p[k - 1] <= v)
      BY <2>4
    <2> HIDE DEF k
    <2> QED
      BY <2>3, <2>5
  <1> HIDE DEF k
  <1> QED
    BY <1>6, <1>8, <1>9 DEF N

\* The digits of n, the lowest first.
LowFirst(s, n, p, base) ==
    /\ s \in Seq(Int) /\ Len(s) \in 1..n + 1 /\ IsDigits(Len(s), p, n)
    /\ \A j \in 1..Len(s) : s[j] = Digit((n \div p[j - 1]) % base)

\* A number of one digit.
LEMMA OneDigit ==
    ASSUME NEW n \in Nat, NEW N \in Nat, n < N, NEW base \in {10, 16}, NEW p, IsPow(p, N, base),
           n \div base = 0
    PROVE  LowFirst(<<Digit(n % base)>>, n, p, base)
  <1> DEFINE c == Digit(n % base)
  <1>1. 0 \in 0..N /\ 1 \in 1..N /\ 1 - 1 = 0 /\ p[0] = 1 /\ n < base /\ n \div 1 = n
    BY DEF IsPow
  <1>2. p[1] = base
    BY <1>1 DEF IsPow
  <1>3. c \in Int
    BY DigitInt
  <1>4. Digit((n \div p[1 - 1]) % base) = c
    BY <1>1
  <1> HIDE DEF c
  <1> DEFINE s == <<c>>
  <1>5. s \in Seq(Int) /\ Len(s) = 1 /\ s[1] = c
    BY <1>3
  <1> HIDE DEF s
  <1>6. LowFirst(s, n, p, base)
    <2>1. Len(s) \in 1..n + 1
      BY <1>5
    <2>2. IsDigits(Len(s), p, n)
      BY <1>1, <1>2, <1>5 DEF IsDigits
    <2>3. ASSUME NEW j \in 1..Len(s) PROVE s[j] = Digit((n \div p[j - 1]) % base)
      <3>1. j = 1
        BY <1>5
      <3> QED
        BY <1>4, <1>5, <3>1
    <2> QED
      BY <1>5, <2>1, <2>2, <2>3 DEF LowFirst
  <1> QED
    BY <1>6 DEF s, c

\* A digit in front of those of the quotient.
LEMMA MoreDigits ==
    ASSUME NEW n \in Nat, NEW N \in Nat, n < N, NEW base \in {10, 16}, NEW p, IsPow(p, N, base),
           n \div base # 0, NEW t, LowFirst(t, n \div base, p, base)
    PROVE  LowFirst(<<Digit(n % base)>> \o t, n, p, base)
  <1> DEFINE c == Digit(n % base)
             m == n \div base
             k == Len(t)
             s == <<c>> \o t
  <1>1. m \in Nat \ {0} /\ m < n /\ base * m <= n /\ n < base * (m + 1)
    OBVIOUS
  <1>2. 0 \in 0..N /\ 1 \in 1..N /\ 1 - 1 = 0 /\ p[0] = 1 /\ n \div 1 = n
    BY DEF IsPow
  <1>3. c \in Int
    BY DigitInt
  <1>4. Digit((n \div p[1 - 1]) % base) = c
    BY <1>2
  <1>5. t \in Seq(Int) /\ k \in 1..m + 1 /\ IsDigits(k, p, m)
    BY DEF LowFirst
  <1>6. \A j \in 1..k : t[j] = Digit((m \div p[j - 1]) % base)
    BY DEF LowFirst
  <1> HIDE DEF c, m
  <1>7. /\ s \in Seq(Int) /\ Len(s) = k + 1 /\ s[1] = c
        /\ \A j \in 1..k : s[j + 1] = t[j]
    BY <1>3, <1>5
  <1> HIDE DEF s, k
  <1>8. Len(s) \in 1..n + 1
    BY <1>1, <1>5, <1>7
  <1>9. /\ k + 1 \in 1..N /\ k \in 1..N /\ (k + 1) - 1 = k /\ k \in Nat
        /\ k - 1 \in 0..N /\ k \in 0..N /\ k + 1 \in 0..N
    BY <1>1, <1>5
  <1>10. /\ p[k + 1] = base * p[k] /\ p[k] = base * p[k - 1]
         /\ p[k] \in Nat /\ p[k - 1] \in Nat /\ p[k + 1] \in Nat
    <2>1. /\ \A i \in 1..N : p[i] = base * p[i - 1]
          /\ \A i \in 0..N : p[i] \in Nat
      BY DEF IsPow
    <2> QED
      BY <1>9, <2>1
  <1>11. IsDigits(Len(s), p, n)
    <2>1. p[k] > m /\ (k > 1 => p[k - 1] <= m)
      BY <1>5 DEF IsDigits
    <2>2. p[k + 1] > n
      BY <1>1, <1>10, <2>1
    <2>3. p[k] <= n
      <3>1. CASE k > 1
        BY <1>1, <1>10, <2>1, <3>1
      <3>2. CASE k = 1
        <4>1. p[k] = base
          BY <1>2, <1>10, <3>2
        <4> QED
          BY <1>1, <4>1
      <3> QED
        BY <1>9, <3>1, <3>2
    <2> QED
      BY <1>7, <1>9, <2>2, <2>3 DEF IsDigits
  <1>12. ASSUME NEW j \in 1..Len(s) PROVE s[j] = Digit((n \div p[j - 1]) % base)
    <2>1. CASE j = 1
      BY <1>4, <1>7, <2>1
    <2>2. CASE j # 1
      <3> DEFINE i == j - 1
      <3>1. i \in 1..k /\ i + 1 = j /\ i \in 1..N /\ i - 1 \in 0..N
        BY <1>7, <1>9, <2>2
      <3> HIDE DEF i
      <3>2. s[j] = Digit((m \div p[i - 1]) % base)
        BY <1>6, <1>7, <3>1
      <3>3. p[i] = base * p[i - 1] /\ p[i - 1] \in Nat \ {0}
        BY <3>1 DEF IsPow
      <3>4. (n \div base) \div p[i - 1] = n \div (base * p[i - 1])
        <4>1. base \in Nat \ {0}
          OBVIOUS
        <4> QED
          BY <3>3, <4>1, DivDiv
      <3>5. m \div p[i - 1] = n \div p[i]
        BY <3>3, <3>4 DEF m
      <3> QED
        BY <3>2, <3>5 DEF i
    <2> QED
      BY <2>1, <2>2
  <1>13. LowFirst(s, n, p, base)
    BY <1>7, <1>8, <1>11, <1>12 DEF LowFirst
  <1> QED
    BY <1>13 DEF s, c

\* utoa_s writes the numeral, for any number.
LEMMA UtoaNumeral ==
    ASSUME NEW v \in Nat, NEW base \in {10, 16}
    PROVE  utoa_s(v, base) = Numeral(v, base)
  <1>1. PICK d : Digits(d, v, base) /\ utoa_s(v, base) = Reverse(d[v])
    BY DigitsIs
  <1> DEFINE N == v + 1
  <1>2. PICK p : /\ IsPow(p, N, base)
                 /\ \A k \in 1..N : IsDigits(k, p, v) =>
                        Numeral(v, base) = [i \in 1..k |-> Digit((v \div p[k - i]) % base)]
    BY NumeralIs
  <1>3. N \in Nat
    OBVIOUS
  <1> DEFINE T == {n \in Nat : \A i \in 0..n : i <= v => LowFirst(d[i], i, p, base)}
  <1>4. ASSUME NEW i \in 0..v, i \div base # 0 => LowFirst(d[i \div base], i \div base, p, base)
        PROVE  LowFirst(d[i], i, p, base)
    <2>1. i < N /\ i \in Nat
      OBVIOUS
    <2>2. d[i] = <<Digit(i % base)>> \o (IF i \div base = 0 THEN <<>> ELSE d[i \div base])
      BY <1>1 DEF Digits
    <2> HIDE DEF N
    <2>3. CASE i \div base = 0
      <3>1. Digit(i % base) \in Int
        BY <2>1, DigitInt
      <3>2. d[i] = <<Digit(i % base)>>
        BY <2>2, <2>3, <3>1
      <3> QED
        BY <1>2, <1>3, <2>1, <2>3, <3>2, OneDigit, ZenonT(60)
    <2>4. CASE i \div base # 0
      <3>1. d[i] = <<Digit(i % base)>> \o d[i \div base]
        BY <2>2, <2>4
      <3>2. LowFirst(<<Digit(i % base)>> \o d[i \div base], i, p, base)
        BY <1>2, <1>3, <1>4, <2>1, <2>4, MoreDigits, Zenon
      <3> QED
        BY <3>1, <3>2
    <2> QED
      BY <2>3, <2>4
  <1> HIDE DEF N
  <1>5. 0 \in T
    <2>1. 0 \in 0..v /\ 0 \div base = 0
      OBVIOUS
    <2>2. LowFirst(d[0], 0, p, base)
      BY <1>4, <2>1
    <2>3. \A i \in 0..0 : i = 0
      OBVIOUS
    <2> QED
      BY <2>2, <2>3
  <1>6. ASSUME NEW n \in Nat, n \in T PROVE n + 1 \in T
    <2> SUFFICES ASSUME NEW i \in 0..n + 1, i <= v PROVE LowFirst(d[i], i, p, base)
      OBVIOUS
    <2>1. CASE i <= n
      <3>1. i \in 0..n
        BY <2>1
      <3> QED
        BY <1>6, <3>1
    <2>2. CASE i = n + 1
      <3>1. i \in 0..v /\ (i \div base # 0 => i \div base \in 0..n /\ i \div base <= v)
        BY <2>2
      <3>2. i \div base # 0 => LowFirst(d[i \div base], i \div base, p, base)
        BY <1>6, <3>1
      <3> QED
        BY <1>4, <3>1, <3>2
    <2> QED
      BY <2>1, <2>2
  <1> HIDE DEF T
  <1>7. v \in T
    BY <1>5, <1>6, Induction
  <1> DEFINE s == d[v]
             k == Len(s)
  <1>8. LowFirst(s, v, p, base)
    <2>1. v \in 0..v
      OBVIOUS
    <2> QED
      BY <1>7, <2>1 DEF T
  <1> HIDE DEF s
  <1>9. /\ s \in Seq(Int) /\ k \in 1..N /\ IsDigits(k, p, v) /\ k \in Nat
        /\ \A j \in 1..k : s[j] = Digit((v \div p[j - 1]) % base)
    BY <1>8 DEF LowFirst, N
  <1>10. Numeral(v, base) = [i \in 1..k |-> Digit((v \div p[k - i]) % base)]
    BY <1>2, <1>9
  <1>11. Reverse(s) = [i \in 1..k |-> s[(k - i) + 1]]
    BY DEF Reverse
  <1> HIDE DEF k
  <1>12. ASSUME NEW i \in 1..k PROVE s[(k - i) + 1] = Digit((v \div p[k - i]) % base)
    <2> DEFINE j == (k - i) + 1
    <2>1. j \in 1..k /\ j - 1 = k - i
      BY <1>9
    <2>2. s[j] = Digit((v \div p[j - 1]) % base)
      BY <1>9, <2>1
    <2> QED
      BY <2>1, <2>2
  <1>13. Reverse(s) = Numeral(v, base)
    BY <1>10, <1>11, <1>12
  <1> QED
    BY <1>1, <1>13 DEF s

\* The text of a directive is the numeral or the string that was asked for.
LEMMA ItemUnpadded ==
    ASSUME NEW item, IsItem(item), item.conv \notin {"lit", "c"}
    PROVE  text_of(item) = Unpadded(item)
  <1>1. CASE item.conv = "s"
    BY <1>1 DEF text_of, Unpadded
  <1>2. CASE item.conv = "d"
    <2> DEFINE a == item.arg
    <2>1. a \in Int /\ a >= -(UINT_MOD \div 2) /\ text_of(item) = itoa_s(a)
      BY <1>2, TextAssumption DEF IsItem, text_of
    <2>2. Unpadded(item) = IF a < 0 THEN <<45>> \o Numeral(-a, 10) ELSE Numeral(a, 10)
      BY <1>2 DEF Unpadded
    <2> HIDE DEF a
    <2>3. CASE a < 0
      <3> DEFINE v == -a
      <3>1. v \in Nat /\ v < UINT_MOD /\ UINT_MOD \in Nat \ {0}
        BY <2>1, <2>3, TextAssumption
      <3> HIDE DEF v
      <3>2. v % UINT_MOD = v
        <4> DEFINE q == v \div UINT_MOD
                   r == v % UINT_MOD
                   none == 0
        <4>1. q \in Nat /\ r \in 0..UINT_MOD - 1 /\ v = UINT_MOD * q + r
          BY <3>1, Division, Zenon
        <4>2. UINT_MOD * none + v = v /\ none \in Nat /\ v \in 0..UINT_MOD - 1
          BY <3>1
        <4> HIDE DEF q, r, none
        <4>3. r = v
          BY <3>1, <4>1, <4>2, DivisionUnique
        <4> QED
          BY <4>3 DEF r
      <3>3. utoa_s(v, 10) = Numeral(v, 10)
        BY <3>1, UtoaNumeral
      <3>4. itoa_s(a) = <<45>> \o utoa_s(v % UINT_MOD, 10)
        BY <2>3 DEF itoa_s, v
      <3>5. Unpadded(item) = <<45>> \o Numeral(v, 10)
        BY <2>2, <2>3 DEF v
      <3> QED
        BY <2>1, <3>2, <3>3, <3>4, <3>5
    <2>4. CASE ~(a < 0)
      <3>1. a \in Nat
        BY <2>1, <2>4
      <3>2. utoa_s(a, 10) = Numeral(a, 10)
        BY <3>1, UtoaNumeral
      <3> QED
        BY <2>1, <2>2, <2>4, <3>2 DEF itoa_s
    <2> QED
      BY <2>3, <2>4
  <1>3. CASE item.conv \in {"u", "x", "p"}
    <2>1. item.arg \in Nat
      BY <1>3, TextAssumption DEF IsItem
    <2>2. /\ utoa_s(item.arg, 10) = Numeral(item.arg, 10)
          /\ utoa_s(item.arg, 16) = Numeral(item.arg, 16)
      BY <2>1, UtoaNumeral
    <2> QED
      BY <1>3, <2>2 DEF text_of, Unpadded
  <1> QED
    BY <1>1, <1>2, <1>3 DEF IsItem

-----------------------------------------------------------------------------
(* Text cut off at the end of the buffer.                                  *)

\* t is as much of s as n bytes hold.
IsCut(t, s, n) ==
    /\ t \in Seq(Int) /\ s \in Seq(Int)
    /\ Len(t) = IF Len(s) < n THEN Len(s) ELSE n
    /\ \A i \in 1..Len(t) : t[i] = s[i]

\* What copy_str copies.
LEMMA CopyIs ==
    ASSUME NEW src \in Seq(Int), NEW n \in Nat
    PROVE  IsCut(copy_str(src, n), src, n)
  <1> DEFINE m == Len(src)
             k == Min({n, m})
             t == copy_str(src, n)
  <1>1. m \in Nat /\ n \in Int /\ m \in Int
    OBVIOUS
  <1> HIDE DEF m
  <1>2. k \in Int /\ k <= n /\ k <= m /\ k \in {n, m}
    BY <1>1, MinTwo
  <1>3. t = SubSeq(src, 1, k)
    BY DEF copy_str, m
  <1> HIDE DEF k, t
  <1>4. k \in Nat /\ k <= m /\ k = IF m < n THEN m ELSE n
    BY <1>1, <1>2
  <1>5. t \in Seq(Int) /\ Len(t) = k /\ \A i \in 1..k : t[i] = src[i]
    BY <1>3, <1>4 DEF m
  <1>6. IsCut(t, src, n)
    BY <1>4, <1>5 DEF IsCut, m
  <1> QED
    BY <1>6 DEF t

\* What fill_padding fills.
IsFill(t, n, padding, k) ==
    /\ t \in Seq(Int) /\ Len(t) = IF n < k THEN n ELSE k
    /\ \A i \in 1..Len(t) : t[i] = padding

\* fill_padding fills as much as there is room for.
LEMMA FillIs ==
    ASSUME NEW size \in Nat, NEW padding \in Int, NEW padding_len \in Nat
    PROVE  IsFill(fill_padding(size, padding, padding_len), size, padding, padding_len)
  <1> DEFINE k == Min({size, padding_len})
             t == fill_padding(size, padding, padding_len)
  <1>1. k \in Int /\ k <= size /\ k <= padding_len /\ k \in {size, padding_len}
    BY MinTwo
  <1>2. t = [i \in 1..k |-> padding]
    BY DEF fill_padding
  <1> HIDE DEF k, t
  <1>3. k \in Nat /\ k = IF size < padding_len THEN size ELSE padding_len
    BY <1>1
  <1>4. t \in Seq(Int) /\ Len(t) = k /\ \A i \in 1..k : t[i] = padding
    BY <1>2, <1>3
  <1>5. IsFill(t, size, padding, padding_len)
    BY <1>3, <1>4 DEF IsFill
  <1> QED
    BY <1>5 DEF t

\* A text in its field.
LEMMA PaddedIs ==
    ASSUME NEW str \in Seq(Int), NEW left, NEW padding \in Int, NEW width \in Nat
    PROVE  LET field == IF width > Len(str) THEN width ELSE Len(str)
               skip == IF left THEN 0 ELSE field - Len(str)
               all == Padded(str, left, padding, width)
           IN  /\ all \in Seq(Int) /\ Len(all) = field /\ field \in Nat /\ skip \in Nat
               /\ \A i \in 1..field :
                     all[i] = IF i - skip \in 1..Len(str) THEN str[i - skip] ELSE padding
  <1> DEFINE m == Len(str)
             field == IF width > m THEN width ELSE m
             skip == IF left THEN 0 ELSE field - m
             all == Padded(str, left, padding, width)
  <1>1. m \in Nat /\ DOMAIN str = 1..m /\ \A i \in 1..m : str[i] \in Int
    OBVIOUS
  <1>2. field \in Nat /\ skip \in Nat
    BY <1>1
  <1>3. all = [i \in 1..field |-> IF i - skip \in DOMAIN str THEN str[i - skip] ELSE padding]
    BY DEF Padded
  <1> HIDE DEF m, field, skip, all
  <1>4. \A i \in 1..field :
            (IF i - skip \in 1..m THEN str[i - skip] ELSE padding) \in Int
    BY <1>1, <1>2
  <1>5. /\ all \in Seq(Int) /\ Len(all) = field
        /\ \A i \in 1..field : all[i] = IF i - skip \in 1..m THEN str[i - skip] ELSE padding
    BY <1>1, <1>2, <1>3, <1>4
  <1> QED
    BY <1>2, <1>5 DEF m, field, skip, all

\* Two texts one behind the other.
IsJoin(t, a, b) ==
    /\ t \in Seq(Int) /\ Len(t) = Len(a) + Len(b)
    /\ \A i \in 1..Len(t) : t[i] = IF i <= Len(a) THEN a[i] ELSE b[i - Len(a)]

\* Which character of a joined text is where.
LEMMA JoinIs ==
    ASSUME NEW a \in Seq(Int), NEW b \in Seq(Int)
    PROVE  IsJoin(a \o b, a, b)
  BY DEF IsJoin

\* copy_with_padding writes as much of the text in its field as there is room for.
LEMMA PaddedCut ==
    ASSUME NEW size \in Nat, NEW str \in Seq(Int), NEW left, NEW padding \in Int, NEW width \in Nat
    PROVE  IsCut(copy_with_padding(size, str, left, padding, width),
                 Padded(str, left, padding, width), size)
  <1> DEFINE m == Len(str)
             pad == IF width > m THEN width - m ELSE 0
             field == IF width > m THEN width ELSE m
             skip == IF left THEN 0 ELSE field - m
             all == Padded(str, left, padding, width)
             first == fill_padding(size, padding, pad)
             whole == copy_str(str, size)
             rest == copy_str(str, size - Len(first))
             last == fill_padding(size - Len(whole), padding, pad)
             t == copy_with_padding(size, str, left, padding, width)
  <1>1. m \in Nat /\ pad \in Nat /\ field = m + pad /\ skip = IF left THEN 0 ELSE pad
    OBVIOUS
  <1>2. /\ all \in Seq(Int) /\ Len(all) = field /\ field \in Nat /\ skip \in Nat
        /\ \A i \in 1..field : all[i] = IF i - skip \in 1..m THEN str[i - skip] ELSE padding
    BY PaddedIs
  <1>3. t = IF left THEN whole \o last ELSE first \o rest
    <2>1. CASE left
      BY <2>1 DEF copy_with_padding
    <2>2. CASE ~left
      BY <2>2 DEF copy_with_padding
    <2> QED
      BY <2>1, <2>2
  <1> HIDE DEF pad, field, skip, all, t
  <1>4. IsFill(first, size, padding, pad) /\ IsCut(whole, str, size)
    BY <1>1, FillIs, CopyIs
  <1> HIDE DEF first, whole
  <1>5. /\ first \in Seq(Int) /\ Len(first) = IF size < pad THEN size ELSE pad
        /\ \A i \in 1..Len(first) : first[i] = padding
    BY <1>4 DEF IsFill
  <1>6. /\ whole \in Seq(Int) /\ Len(whole) = IF m < size THEN m ELSE size
        /\ \A i \in 1..Len(whole) : whole[i] = str[i]
    BY <1>4 DEF IsCut
  <1> HIDE DEF m
  <1>7. size - Len(first) \in Nat /\ size - Len(whole) \in Nat
    BY <1>1, <1>5, <1>6
  <1>8. CASE left
    <2> DEFINE room == size - Len(whole)
    <2>1. IsFill(last, room, padding, pad)
      BY <1>1, <1>7, FillIs
    <2> HIDE DEF last
    <2>2. /\ last \in Seq(Int) /\ Len(last) = IF room < pad THEN room ELSE pad
          /\ \A i \in 1..Len(last) : last[i] = padding
      BY <2>1 DEF IsFill
    <2>3. IsJoin(t, whole, last)
      BY <1>3, <1>6, <1>8, <2>2, JoinIs
    <2>4. /\ t \in Seq(Int) /\ Len(t) = Len(whole) + Len(last)
          /\ \A i \in 1..Len(t) : t[i] = IF i <= Len(whole) THEN whole[i]
                                         ELSE last[i - Len(whole)]
      BY <2>3 DEF IsJoin
    <2>5. Len(t) = (IF Len(all) < size THEN Len(all) ELSE size) /\ Len(t) <= field
      BY <1>1, <1>2, <1>6, <2>2, <2>4, SMTT(30)
    <2>6. ASSUME NEW i \in 1..Len(t) PROVE t[i] = all[i]
      <3>1. i \in 1..field /\ i - skip = i
        BY <1>1, <1>2, <1>8, <2>5
      <3>2. all[i] = IF i \in 1..m THEN str[i] ELSE padding
        BY <1>2, <3>1
      <3>3. CASE i <= Len(whole)
        <4>1. i \in 1..Len(whole) /\ i \in 1..m
          BY <1>1, <1>6, <3>3
        <4> QED
          BY <1>6, <2>4, <3>2, <3>3, <4>1
      <3>4. CASE ~(i <= Len(whole))
        <4>1. i \notin 1..m /\ i - Len(whole) \in 1..Len(last)
          BY <1>1, <1>6, <2>2, <2>4, <3>4
        <4> QED
          BY <2>2, <2>4, <3>2, <3>4, <4>1
      <3> QED
        BY <3>3, <3>4
    <2> QED
      BY <1>2, <2>4, <2>5, <2>6 DEF IsCut, t, all
  <1>9. CASE ~left
    <2> DEFINE room == size - Len(first)
    <2>1. IsCut(rest, str, room)
      BY <1>7, CopyIs
    <2> HIDE DEF rest
    <2>2. /\ rest \in Seq(Int) /\ Len(rest) = IF m < room THEN m ELSE room
          /\ \A i \in 1..Len(rest) : rest[i] = str[i]
      BY <2>1 DEF IsCut, m
    <2>3. IsJoin(t, first, rest)
      BY <1>3, <1>5, <1>9, <2>2, JoinIs
    <2>4. /\ t \in Seq(Int) /\ Len(t) = Len(first) + Len(rest)
          /\ \A i \in 1..Len(t) : t[i] = IF i <= Len(first) THEN first[i]
                                         ELSE rest[i - Len(first)]
      BY <2>3 DEF IsJoin
    <2>5. Len(t) = (IF Len(all) < size THEN Len(all) ELSE size) /\ Len(t) <= field
      BY <1>1, <1>2, <1>5, <2>2, <2>4, SMTT(30)
    <2>6. ASSUME NEW i \in 1..Len(t) PROVE t[i] = all[i]
      <3>1. i \in 1..field /\ skip = pad
        BY <1>1, <1>2, <1>9, <2>5
      <3>2. all[i] = IF i - pad \in 1..m THEN str[i - pad] ELSE padding
        BY <1>2, <3>1
      <3>3. CASE i <= Len(first)
        <4>1. i \in 1..Len(first) /\ i - pad \notin 1..m
          BY <1>1, <1>5, <3>3
        <4> QED
          BY <1>5, <2>4, <3>2, <3>3, <4>1
      <3>4. CASE ~(i <= Len(first))
        <4>1. /\ Len(first) = pad /\ i - pad \in 1..m
              /\ i - Len(first) \in 1..Len(rest) /\ i - Len(first) = i - pad
          BY <1>1, <1>5, <2>2, <2>4, <3>4, SMTT(30)
        <4> QED
          BY <2>2, <2>4, <3>2, <3>4, <4>1
      <3> QED
        BY <3>3, <3>4
    <2> QED
      BY <1>2, <2>4, <2>5, <2>6 DEF IsCut, t, all
  <1> QED
    BY <1>8, <1>9

\* What one round of the loop of vsnprintf prints.
LEMMA ItemCut ==
    ASSUME NEW item, IsItem(item), NEW size \in Nat \ {0}
    PROVE  IsCut(print_item(item, size), Printed(item), size)
  <1>1. CASE item.conv \in {"lit", "c"}
    <2> DEFINE s == IF item.conv = "lit" THEN <<item.arg>> ELSE <<item.arg % 256>>
    <2>1. /\ item.arg \in Int /\ item.arg % 256 \in Int
          /\ print_item(item, size) = s /\ Printed(item) = s
      BY <1>1 DEF IsItem, print_item, Printed, CHAR_MOD
    <2>2. s \in Seq(Int) /\ Len(s) = 1
      BY <2>1
    <2> HIDE DEF s
    <2>3. IsCut(s, s, size)
      BY <2>2 DEF IsCut
    <2> QED
      BY <2>1, <2>3
  <1>2. CASE item.conv \notin {"lit", "c"}
    <2> DEFINE str == text_of(item)
               left == is_left(item)
               padding == padding_of(item)
    <2>1. str \in Seq(Int) /\ item.width \in Nat /\ str = Unpadded(item)
      BY <1>2, ItemText, ItemUnpadded
    <2>2. padding \in Int
      BY DEF padding_of
    <2>3. print_item(item, size) = copy_with_padding(size, str, left, padding, item.width)
      BY <1>2 DEF print_item
    <2>4. Printed(item) = Padded(str, left, padding, item.width)
      BY <1>2, <2>1 DEF Printed
    <2>5. size \in Nat
      OBVIOUS
    <2> HIDE DEF str, left, padding
    <2>6. IsCut(copy_with_padding(size, str, left, padding, item.width),
                Padded(str, left, padding, item.width), size)
      BY <2>1, <2>2, <2>5, PaddedCut
    <2> QED
      BY <2>3, <2>4, <2>6
  <1> QED
    BY <1>1, <1>2

-----------------------------------------------------------------------------
(* vsnprintf.                                                              *)

\* One round of the loop of vsnprintf.
Put(cur, item, size) ==
    IF Len(cur) < size THEN cur \o print_item(item, size - Len(cur)) ELSE cur

\* What the rounds leave in the buffer.
IsText(f, size, fmt) ==
    /\ f[0] = <<>> /\ \A n \in 1..Len(fmt) : f[n] = Put(f[n - 1], fmt[n], size)
    /\ \A n \in 0..Len(fmt) : f[n] \in Seq(Int) /\ Len(f[n]) <= size

\* With the 0 at its end.
Ended(str, size) ==
    LET len == IF Len(str) < size THEN Len(str) ELSE IF size > 0 THEN size - 1 ELSE 0
    IN [written |-> Len(str), str |-> SubSeq(str, 1, len), ret |-> len]

\* What vsnprintf computes.
LEMMA VsnprintfIs ==
    ASSUME NEW size \in Nat, NEW fmt, IsFormat(fmt)
    PROVE  \E f : IsText(f, size, fmt) /\ vsnprintf(size, fmt) = Ended(f[Len(fmt)], size)
  <1> DEFINE put(cur, item) ==
                 IF Len(cur) < size THEN cur \o print_item(item, size - Len(cur)) ELSE cur
             N == Len(fmt)
             S == {s \in Seq(Int) : Len(s) <= size}
             step == [p \in S \X (1..N) |-> put(p[1], fmt[p[2]])]
  <1>1. N \in Nat /\ <<>> \in S
    BY DEF IsFormat
  <1>2. ASSUME NEW cur \in S, NEW i \in 1..N
        PROVE  put(cur, fmt[i]) \in S
    <2>1. IsItem(fmt[i]) /\ cur \in Seq(Int) /\ Len(cur) \in Nat /\ Len(cur) <= size
      BY DEF IsFormat
    <2>2. CASE Len(cur) < size
      <3> DEFINE room == size - Len(cur)
                 new == print_item(fmt[i], room)
      <3>1. room \in Nat \ {0}
        BY <2>1, <2>2
      <3>2. new \in Seq(Int) /\ Len(new) <= room
        <4> HIDE DEF room
        <4> QED
          BY <2>1, <3>1, ItemRoom
      <3>3. put(cur, fmt[i]) = cur \o new
        BY <2>2
      <3> HIDE DEF new, put
      <3>4. cur \o new \in Seq(Int) /\ Len(cur \o new) = Len(cur) + Len(new)
        BY <2>1, <3>2, Joined
      <3> QED
        BY <2>1, <3>2, <3>3, <3>4
    <2>3. CASE ~(Len(cur) < size)
      BY <2>3
    <2> QED
      BY <2>2, <2>3
  <1>3. step \in [S \X (1..N) -> S]
    <2>1. ASSUME NEW p \in S \X (1..N) PROVE put(p[1], fmt[p[2]]) \in S
      <3>1. p[1] \in S /\ p[2] \in 1..N
        OBVIOUS
      <3> HIDE DEF put, S, N
      <3> QED
        BY <1>2, <3>1
    <2> HIDE DEF put, S
    <2> QED
      BY <2>1
  <1>4. ASSUME NEW s \in S, NEW i \in 1..N PROVE step[<<s, i>>] = put(s, fmt[i])
    <2> HIDE DEF put, S, N
    <2> QED
      OBVIOUS
  <1> HIDE DEF step, S, put
  <1>5. PICK f \in [0..N -> S] : f[0] = <<>> /\ \A i \in 1..N : f[i] = step[<<f[i - 1], i>>]
    <2> DEFINE none == <<>>
    <2>1. none \in S
      BY <1>1
    <2> HIDE DEF none
    <2>2. \E f : IsRun(f, N, S, none, step)
      BY <1>1, <1>3, <2>1, Recursion, Zenon
    <2> QED
      BY <2>2 DEF IsRun, none
  <1> DEFINE Is(g) == g = [n \in 0..N |-> IF n = 0 THEN <<>> ELSE put(g[n - 1], fmt[n])]
  <1>6. Is(f)
    <2>1. ASSUME NEW n \in 0..N PROVE f[n] = IF n = 0 THEN <<>> ELSE put(f[n - 1], fmt[n])
      <3>1. CASE n = 0
        BY <1>5, <3>1
      <3>2. CASE n # 0
        <4>1. n \in 1..N /\ n - 1 \in 0..N
          BY <1>1, <3>2
        <4>2. f[n - 1] \in S
          BY <1>5, <4>1
        <4> QED
          BY <1>4, <1>5, <3>2, <4>1, <4>2
      <3> QED
        BY <3>1, <3>2
    <2>2. f = [n \in 0..N |-> f[n]]
      OBVIOUS
    <2> HIDE DEF N
    <2> QED
      BY <2>1, <2>2
  <1> DEFINE sofar == CHOOSE g : Is(g)
  <1>7. vsnprintf(size, fmt) = Ended(sofar[N], size)
    BY Zenon DEF vsnprintf, put, Ended
  <1>8. Is(sofar)
    <2> HIDE DEF Is
    <2> QED
      BY <1>6
  <1> HIDE DEF sofar
  <1>9. sofar[0] = <<>>
    BY <1>1, <1>8
  <1>10. ASSUME NEW n \in 1..N PROVE sofar[n] = put(sofar[n - 1], fmt[n])
    <2>1. n \in 0..N /\ n # 0
      BY <1>1
    <2> QED
      BY <1>8, <2>1
  <1> DEFINE T == {n \in Nat : n <= N => sofar[n] \in S}
  <1>11. 0 \in T
    BY <1>1, <1>9
  <1>12. ASSUME NEW n \in Nat, n \in T PROVE n + 1 \in T
    <2> SUFFICES ASSUME n + 1 <= N PROVE sofar[n + 1] \in S
      OBVIOUS
    <2>1. sofar[n] \in S /\ n + 1 \in 1..N /\ (n + 1) - 1 = n
      BY <1>1, <1>12
    <2>2. sofar[n + 1] = put(sofar[n], fmt[n + 1])
      BY <1>10, <2>1
    <2> QED
      BY <1>2, <2>1, <2>2
  <1> HIDE DEF T
  <1>13. Nat \subseteq T
    BY <1>11, <1>12, Induction
  <1>14. \A n \in 0..N : sofar[n] \in Seq(Int) /\ Len(sofar[n]) <= size
    BY <1>1, <1>13 DEF T, S
  <1>15. IsText(sofar, size, fmt)
    BY <1>9, <1>10, <1>14, Zenon DEF IsText, Put, put
  <1> QED
    BY <1>7, <1>15

\* What vsnprintf leaves in a buffer of `size' bytes.
Fits(r, size) ==
    /\ r.str \in Seq(Int) /\ r.ret = Len(r.str)
    /\ r.written \in Nat /\ r.written <= size
    /\ IF size = 0 THEN r.ret = 0 ELSE r.ret < size

\* vsnprintf writes nothing behind its buffer, for any format and any size.
LEMMA VsnprintfFits ==
    ASSUME NEW size \in Nat, NEW fmt, IsFormat(fmt)
    PROVE  Fits(vsnprintf(size, fmt), size)
  <1> DEFINE N == Len(fmt)
  <1>1. PICK f : IsText(f, size, fmt) /\ vsnprintf(size, fmt) = Ended(f[N], size)
    BY VsnprintfIs
  <1> DEFINE str == f[N]
             len == IF Len(str) < size THEN Len(str) ELSE IF size > 0 THEN size - 1 ELSE 0
  <1>2. N \in 0..N
    BY DEF IsFormat
  <1>3. str \in Seq(Int) /\ Len(str) \in Nat /\ Len(str) <= size
    BY <1>1, <1>2 DEF IsText
  <1>4. vsnprintf(size, fmt) = [written |-> Len(str), str |-> SubSeq(str, 1, len), ret |-> len]
    BY <1>1 DEF Ended
  <1> HIDE DEF str
  <1>5. len \in Nat /\ len <= Len(str) /\ IF size = 0 THEN len = 0 ELSE len < size
    BY <1>3
  <1> HIDE DEF len
  <1>6. SubSeq(str, 1, len) \in Seq(Int) /\ Len(SubSeq(str, 1, len)) = len
    BY <1>3, <1>5
  <1> QED
    BY <1>3, <1>4, <1>5, <1>6 DEF Fits

\* The text without an end.
IsAll(g, fmt) ==
    /\ g[0] = <<>> /\ \A n \in 1..Len(fmt) : g[n] = g[n - 1] \o Printed(fmt[n])
    /\ \A n \in 0..Len(fmt) : g[n] \in Seq(Int)

\* What the reference prints.
LEMMA AllPrintedIs ==
    ASSUME NEW fmt, IsFormat(fmt)
    PROVE  \E g : IsAll(g, fmt) /\ AllPrinted(fmt) = g[Len(fmt)]
  <1> DEFINE put(cur, item) == cur \o Printed(item)
             N == Len(fmt)
             S == Seq(Int)
             step == [p \in S \X (1..N) |-> put(p[1], fmt[p[2]])]
  <1>1. N \in Nat /\ <<>> \in S
    BY DEF IsFormat
  <1>2. ASSUME NEW cur \in S, NEW i \in 1..N
        PROVE  put(cur, fmt[i]) \in S
    <2> DEFINE one == 1
               new == Printed(fmt[i])
    <2>1. IsItem(fmt[i]) /\ one \in Nat \ {0}
      BY DEF IsFormat
    <2> HIDE DEF one
    <2>2. new \in Seq(Int)
      BY <2>1, ItemCut DEF IsCut
    <2> HIDE DEF new
    <2>3. cur \o new \in Seq(Int)
      BY <2>2, Joined
    <2> QED
      BY <2>3 DEF new
  <1>3. step \in [S \X (1..N) -> S]
    <2>1. ASSUME NEW p \in S \X (1..N) PROVE put(p[1], fmt[p[2]]) \in S
      <3>1. p[1] \in S /\ p[2] \in 1..N
        OBVIOUS
      <3> HIDE DEF put, S, N
      <3> QED
        BY <1>2, <3>1
    <2> HIDE DEF put, S
    <2> QED
      BY <2>1
  <1>4. ASSUME NEW s \in S, NEW i \in 1..N PROVE step[<<s, i>>] = put(s, fmt[i])
    <2> HIDE DEF put, S, N
    <2> QED
      OBVIOUS
  <1> HIDE DEF step, S, put
  <1>5. PICK f \in [0..N -> S] : f[0] = <<>> /\ \A i \in 1..N : f[i] = step[<<f[i - 1], i>>]
    <2> DEFINE none == <<>>
    <2>1. none \in S
      BY <1>1
    <2> HIDE DEF none
    <2>2. \E f : IsRun(f, N, S, none, step)
      BY <1>1, <1>3, <2>1, Recursion, Zenon
    <2> QED
      BY <2>2 DEF IsRun, none
  <1> DEFINE Is(g) == g = [n \in 0..N |-> IF n = 0 THEN <<>> ELSE put(g[n - 1], fmt[n])]
  <1>6. Is(f)
    <2>1. ASSUME NEW n \in 0..N PROVE f[n] = IF n = 0 THEN <<>> ELSE put(f[n - 1], fmt[n])
      <3>1. CASE n = 0
        BY <1>5, <3>1
      <3>2. CASE n # 0
        <4>1. n \in 1..N /\ n - 1 \in 0..N
          BY <1>1, <3>2
        <4>2. f[n - 1] \in S
          BY <1>5, <4>1
        <4> QED
          BY <1>4, <1>5, <3>2, <4>1, <4>2
      <3> QED
        BY <3>1, <3>2
    <2>2. f = [n \in 0..N |-> f[n]]
      OBVIOUS
    <2> HIDE DEF N
    <2> QED
      BY <2>1, <2>2
  <1> DEFINE all == CHOOSE g : Is(g)
  <1>7. AllPrinted(fmt) = all[N]
    BY Zenon DEF AllPrinted, put
  <1>8. Is(all)
    <2> HIDE DEF Is
    <2> QED
      BY <1>6
  <1> HIDE DEF all
  <1>9. all[0] = <<>>
    BY <1>1, <1>8
  <1>10. ASSUME NEW n \in 1..N PROVE all[n] = put(all[n - 1], fmt[n])
    <2>1. n \in 0..N /\ n # 0
      BY <1>1
    <2> QED
      BY <1>8, <2>1
  <1> DEFINE T == {n \in Nat : n <= N => all[n] \in S}
  <1>11. 0 \in T
    BY <1>1, <1>9
  <1>12. ASSUME NEW n \in Nat, n \in T PROVE n + 1 \in T
    <2> SUFFICES ASSUME n + 1 <= N PROVE all[n + 1] \in S
      OBVIOUS
    <2>1. all[n] \in S /\ n + 1 \in 1..N /\ (n + 1) - 1 = n
      BY <1>1, <1>12
    <2>2. all[n + 1] = put(all[n], fmt[n + 1])
      BY <1>10, <2>1
    <2> QED
      BY <1>2, <2>1, <2>2
  <1> HIDE DEF T
  <1>13. Nat \subseteq T
    BY <1>11, <1>12, Induction
  <1>14. \A n \in 0..N : all[n] \in Seq(Int)
    BY <1>1, <1>13 DEF T, S
  <1>15. IsAll(all, fmt)
    BY <1>9, <1>10, <1>14, Zenon DEF IsAll, put
  <1> QED
    BY <1>7, <1>15

\* What does not fit any more is cut off, a text behind another one too.
LEMMA PutCut ==
    ASSUME NEW size \in Nat, NEW cur, NEW all, IsCut(cur, all, size), NEW item, IsItem(item)
    PROVE  IsCut(Put(cur, item, size), all \o Printed(item), size)
  <1> DEFINE new == Printed(item)
             t == all \o new
             one == 1
  <1>1. /\ cur \in Seq(Int) /\ all \in Seq(Int) /\ Len(all) \in Nat /\ Len(cur) \in Nat
        /\ Len(cur) = IF Len(all) < size THEN Len(all) ELSE size
        /\ \A i \in 1..Len(cur) : cur[i] = all[i]
    BY DEF IsCut
  <1>2. one \in Nat \ {0}
    OBVIOUS
  <1> HIDE DEF one
  <1>3. new \in Seq(Int)
    BY <1>2, ItemCut DEF IsCut
  <1> HIDE DEF new
  <1>4. IsJoin(t, all, new)
    BY <1>1, <1>3, JoinIs
  <1> HIDE DEF t
  <1>5. /\ t \in Seq(Int) /\ Len(t) = Len(all) + Len(new) /\ Len(new) \in Nat
        /\ \A i \in 1..Len(t) : t[i] = IF i <= Len(all) THEN all[i] ELSE new[i - Len(all)]
    BY <1>3, <1>4 DEF IsJoin
  <1>6. CASE Len(cur) < size
    <2> DEFINE room == size - Len(cur)
               a == print_item(item, room)
               c == cur \o a
    <2>1. room \in Nat \ {0} /\ Len(all) = Len(cur)
      BY <1>1, <1>6
    <2>2. Put(cur, item, size) = c
      BY <1>6 DEF Put
    <2> HIDE DEF room
    <2>3. IsCut(a, new, room)
      BY <2>1, ItemCut DEF new
    <2> HIDE DEF a
    <2>4. /\ a \in Seq(Int) /\ Len(a) = (IF Len(new) < room THEN Len(new) ELSE room)
          /\ Len(a) \in Nat /\ \A i \in 1..Len(a) : a[i] = new[i]
      BY <2>3 DEF IsCut
    <2>5. IsJoin(c, cur, a)
      BY <1>1, <2>4, JoinIs
    <2> HIDE DEF c
    <2>6. /\ c \in Seq(Int) /\ Len(c) = Len(cur) + Len(a)
          /\ \A i \in 1..Len(c) : c[i] = IF i <= Len(cur) THEN cur[i] ELSE a[i - Len(cur)]
      BY <2>5 DEF IsJoin
    <2>7. Len(c) = (IF Len(t) < size THEN Len(t) ELSE size) /\ Len(c) <= Len(t)
      <3> DEFINE nc == Len(cur)
                 nt == Len(t)
                 na == Len(a)
                 nn == Len(new)
                 nl == Len(c)
      <3>1. nc \in Nat /\ nc < size /\ nt = nc + nn /\ nn \in Nat /\ room = size - nc
        BY <1>1, <1>5, <1>6, <2>1 DEF room
      <3>2. na = (IF nn < room THEN nn ELSE room) /\ nl = nc + na
        BY <2>4, <2>6
      <3> HIDE DEF nc, nt, na, nn, nl
      <3>3. nl = (IF nt < size THEN nt ELSE size) /\ nl <= nt
        BY <3>1, <3>2
      <3> QED
        BY <3>3 DEF nl, nt
    <2>8. ASSUME NEW i \in 1..Len(c) PROVE c[i] = t[i]
      <3>1. i \in 1..Len(t)
        BY <1>5, <2>7
      <3>2. CASE i <= Len(cur)
        <4>1. i \in 1..Len(cur)
          BY <3>2
        <4> QED
          BY <1>1, <1>5, <2>1, <2>6, <3>1, <3>2, <4>1
      <3>3. CASE ~(i <= Len(cur))
        <4>1. i - Len(cur) \in 1..Len(a) /\ i - Len(cur) = i - Len(all)
          <5>1. Len(c) = Len(cur) + Len(a) /\ Len(all) = Len(cur) /\ Len(cur) \in Nat
            BY <1>1, <2>1, <2>6
          <5>2. Len(a) \in Nat
            BY <2>4
          <5> QED
            BY <3>3, <5>1, <5>2
        <4> QED
          BY <1>5, <2>1, <2>4, <2>6, <3>1, <3>3, <4>1
      <3> QED
        BY <3>2, <3>3
    <2>9. IsCut(c, t, size)
      BY <1>5, <2>6, <2>7, <2>8 DEF IsCut
    <2> QED
      BY <2>2, <2>9 DEF t, new
  <1>7. CASE ~(Len(cur) < size)
    <2>1. Put(cur, item, size) = cur
      BY <1>7 DEF Put
    <2>2. Len(cur) = size /\ Len(all) >= size /\ Len(t) >= size
      BY <1>1, <1>5, <1>7
    <2>3. ASSUME NEW i \in 1..Len(cur) PROVE cur[i] = t[i]
      <3>1. i \in 1..Len(t) /\ i <= Len(all)
        BY <1>1, <1>5, <2>2
      <3> QED
        BY <1>1, <1>5, <3>1
    <2>4. IsCut(cur, t, size)
      BY <1>1, <1>5, <2>2, <2>3 DEF IsCut
    <2> QED
      BY <2>1, <2>4 DEF t, new
  <1> QED
    BY <1>6, <1>7

\* vsnprintf makes the text that its format asks for, as much of it as the buffer
\* holds, for any format and any size.
LEMMA VsnprintfFormats ==
    ASSUME NEW size \in Nat, NEW fmt, IsFormat(fmt)
    PROVE  IsFormatted(size, fmt, vsnprintf(size, fmt))
  <1> DEFINE N == Len(fmt)
  <1>1. PICK f : IsText(f, size, fmt) /\ vsnprintf(size, fmt) = Ended(f[N], size)
    BY VsnprintfIs
  <1>2. PICK g : IsAll(g, fmt) /\ AllPrinted(fmt) = g[N]
    BY AllPrintedIs
  <1>3. N \in Nat /\ \A i \in 1..N : IsItem(fmt[i])
    BY DEF IsFormat
  <1> HIDE DEF N
  <1> DEFINE T == {n \in Nat : n <= N => IsCut(f[n], g[n], size)}
  <1>4. 0 \in T
    <2>1. f[0] = <<>> /\ g[0] = <<>>
      BY <1>1, <1>2 DEF IsText, IsAll
    <2>2. IsCut(<<>>, <<>>, size)
      BY DEF IsCut
    <2> QED
      BY <2>1, <2>2
  <1>5. ASSUME NEW n \in Nat, n \in T PROVE n + 1 \in T
    <2> SUFFICES ASSUME n + 1 <= N PROVE IsCut(f[n + 1], g[n + 1], size)
      OBVIOUS
    <2> DEFINE m == n + 1
    <2>1. m \in 1..N /\ m - 1 = n /\ IsCut(f[n], g[n], size) /\ IsItem(fmt[m])
      BY <1>3, <1>5
    <2> HIDE DEF m
    <2>2. f[m] = Put(f[n], fmt[m], size) /\ g[m] = g[n] \o Printed(fmt[m])
      BY <1>1, <1>2, <2>1 DEF IsText, IsAll, N
    <2>3. IsCut(Put(f[n], fmt[m], size), g[n] \o Printed(fmt[m]), size)
      BY <2>1, PutCut, Zenon
    <2> QED
      BY <2>2, <2>3 DEF m
  <1> HIDE DEF T
  <1>6. N \in T
    BY <1>3, <1>4, <1>5, Induction
  <1> DEFINE str == f[N]
             all == g[N]
             len == IF Len(str) < size THEN Len(str) ELSE IF size > 0 THEN size - 1 ELSE 0
             room == IF size = 0 THEN 0 ELSE size - 1
             k == Min({room, Len(all)})
             cut == SubSeq(str, 1, len)
  <1>7. IsCut(str, all, size)
    BY <1>3, <1>6 DEF T
  <1> HIDE DEF str, all
  <1>8. /\ str \in Seq(Int) /\ all \in Seq(Int) /\ Len(str) \in Nat /\ Len(all) \in Nat
        /\ Len(str) = IF Len(all) < size THEN Len(all) ELSE size
        /\ \A i \in 1..Len(str) : str[i] = all[i]
    BY <1>7 DEF IsCut
  <1>9. k = len
    <2>1. room \in Int /\ Len(all) \in Int
      BY <1>8
    <2> HIDE DEF room
    <2>2. k <= room /\ k <= Len(all) /\ k \in {room, Len(all)} /\ k \in Int
      BY <2>1, MinTwo
    <2> HIDE DEF k
    <2> QED
      BY <1>8, <2>2 DEF room
  <1>10. len \in Nat /\ len <= Len(str) /\ len <= Len(all)
    BY <1>8
  <1>11. vsnprintf(size, fmt) = [written |-> Len(str), str |-> cut, ret |-> len]
    BY <1>1 DEF Ended, str
  <1> HIDE DEF len, k
  <1>12. Len(cut) = len /\ cut = SubSeq(all, 1, len)
    BY <1>8, <1>10
  <1>13. Len(str) <= size
    BY <1>8
  <1> HIDE DEF cut, str
  <1>14. /\ vsnprintf(size, fmt).str = cut /\ vsnprintf(size, fmt).ret = len
         /\ vsnprintf(size, fmt).written = Len(str)
    BY <1>11
  <1>15. AllPrinted(fmt) = all
    BY <1>2 DEF all
  <1> HIDE DEF all
  <1>16. cut = SubSeq(all, 1, k)
    BY <1>9, <1>12
  <1> QED
    BY <1>12, <1>13, <1>14, <1>15, <1>16, Zenon DEF IsFormatted, k, room

-----------------------------------------------------------------------------
(* The screen and the paper.                                               *)

Row == [0..COLUMN - 1 -> Int]

\* Screens whose cursor is on them and whose hidden row is blank.
Screens ==
    {s \in [video : [0..LINE -> Row], x : 0..COLUMN - 1, y : 0..LINE - 1] :
        s.video[LINE] = BlankRow}

\* Paper with the cursor on it, of as many rows as the screen shows or more.
Papers ==
    {p \in [rows : UNION {[0..n -> Row] : n \in Nat}, last : Nat, x : 0..COLUMN - 1, y : Nat] :
        p.rows \in [0..p.last -> Row] /\ p.y \in 0..p.last /\ p.last >= LINE - 1}

\* The screen s shows the end of the paper p.
Shown(s, p) ==
    /\ \A y \in 0..LINE - 1 : s.video[y] = p.rows[p.last + 1 - LINE + y]
    /\ s.x = p.x /\ s.y = p.y - (p.last + 1 - LINE)

Agree(s, p) == s \in Screens /\ p \in Papers /\ Shown(s, p)

\* The sizes of the screen.
LEMMA Sizes == COLUMN \in Nat \ {0} /\ LINE \in Nat \ {0} /\ EchoLine \in 0..LINE - 1
  BY ScreenAssumption

\* A blank row is a row.
LEMMA BlankIsRow == BlankRow \in Row
  BY DEF BlankRow, Row, BLANK

\* A character in a row.
LEMMA RowWith ==
    ASSUME NEW r \in Row, NEW x \in 0..COLUMN - 1, NEW c \in Int
    PROVE  [r EXCEPT ![x] = c] \in Row /\ [r EXCEPT ![x] = c][x] = c
  BY DEF Row

\* The screen t is s with the character c at a place.
WithChar(t, s, y, x, c) ==
    /\ t \in Screens /\ t.x = s.x /\ t.y = s.y
    /\ t.video = [s.video EXCEPT ![y] = [s.video[y] EXCEPT ![x] = c]]
    /\ t.video[y][x] = c

\* put_char_at changes one character.
LEMMA CharAt ==
    ASSUME NEW s \in Screens, NEW y \in 0..LINE - 1, NEW x \in 0..COLUMN - 1, NEW c \in Int
    PROVE  WithChar(put_char_at(s, y, x, c), s, y, x, c)
  <1> DEFINE r == [s.video[y] EXCEPT ![x] = c]
             v == [s.video EXCEPT ![y] = r]
             t == [s EXCEPT !.video = v]
  <1>1. /\ s \in [video : [0..LINE -> Row], x : 0..COLUMN - 1, y : 0..LINE - 1]
        /\ s.video[LINE] = BlankRow
    BY DEF Screens
  <1>2. s.video[y] \in Row /\ s.video \in [0..LINE -> Row] /\ y \in 0..LINE /\ y # LINE
    BY <1>1, Sizes
  <1>3. r \in Row /\ r[x] = c
    BY <1>2, RowWith
  <1>4. put_char_at(s, y, x, c) = t
    BY <1>1 DEF put_char_at
  <1> HIDE DEF r
  <1>5. v \in [0..LINE -> Row] /\ v[y] = r /\ v[LINE] = BlankRow
    BY <1>1, <1>2, <1>3, Sizes
  <1> HIDE DEF v
  <1>6. t \in Screens /\ t.x = s.x /\ t.y = s.y /\ t.video = v
    BY <1>1, <1>5 DEF Screens
  <1> HIDE DEF t
  <1>7. WithChar(t, s, y, x, c)
    BY <1>3, <1>5, <1>6 DEF WithChar, v, r
  <1> QED
    BY <1>4, <1>7

\* A character on both.
LEMMA Inked ==
    ASSUME NEW s, NEW p, Agree(s, p), NEW c \in Int
    PROVE  /\ Agree(put_char_at(s, s.y, s.x, c), [p EXCEPT !.rows[p.y][p.x] = c])
           /\ [p EXCEPT !.rows[p.y][p.x] = c].x = p.x
           /\ put_char_at(s, s.y, s.x, c).x = s.x
  <1> DEFINE t == put_char_at(s, s.y, s.x, c)
             r == [p.rows[p.y] EXCEPT ![p.x] = c]
             rows == [p.rows EXCEPT ![p.y] = r]
             q == [p EXCEPT !.rows = rows]
  <1>1. /\ s \in [video : [0..LINE -> Row], x : 0..COLUMN - 1, y : 0..LINE - 1]
        /\ s.x \in 0..COLUMN - 1 /\ s.y \in 0..LINE - 1
        /\ s \in Screens /\ Shown(s, p)
    BY DEF Screens, Agree
  <1>2. /\ p \in [rows : UNION {[0..n -> Row] : n \in Nat}, last : Nat, x : 0..COLUMN - 1, y : Nat]
        /\ p.rows \in [0..p.last -> Row] /\ p.y \in 0..p.last /\ p.last >= LINE - 1
        /\ p.last \in Nat /\ p.x \in 0..COLUMN - 1 /\ p.y \in Nat
    BY DEF Papers, Agree
  <1>3. /\ t \in Screens /\ t.x = s.x /\ t.y = s.y
        /\ t.video = [s.video EXCEPT ![s.y] = [s.video[s.y] EXCEPT ![s.x] = c]]
    <2>1. WithChar(t, s, s.y, s.x, c)
      BY <1>1, CharAt
    <2> HIDE DEF t
    <2> QED
      BY <2>1 DEF WithChar
  <1>4. p.rows[p.y] \in Row
    BY <1>2
  <1>5. r \in Row
    BY <1>2, <1>4, RowWith
  <1>6. [p EXCEPT !.rows[p.y][p.x] = c] = q
    BY <1>2
  <1>7. [s.video[s.y] EXCEPT ![s.x] = c] = r
    <2>1. s.y = p.y - (p.last + 1 - LINE) /\ s.x = p.x
          /\ s.video[s.y] = p.rows[p.last + 1 - LINE + s.y]
      BY <1>1 DEF Shown
    <2>2. p.last + 1 - LINE + s.y = p.y
      BY <1>1, <1>2, <2>1, Sizes
    <2> QED
      BY <2>1, <2>2
  <1> HIDE DEF t, r
  <1>8. /\ rows \in [0..p.last -> Row] /\ rows[p.y] = r
        /\ \A y \in 0..p.last : y # p.y => rows[y] = p.rows[y]
    BY <1>2, <1>5
  <1> HIDE DEF rows
  <1>9. q.rows = rows /\ q.last = p.last /\ q.x = p.x /\ q.y = p.y
    BY <1>2
  <1>10. q \in Papers
    <2>1. rows \in UNION {[0..n -> Row] : n \in Nat}
      BY <1>2, <1>8
    <2> QED
      BY <1>2, <1>8, <2>1 DEF Papers
  <1> HIDE DEF q
  <1>11. Shown(t, q)
    <2>1. t.x = q.x /\ t.y = q.y - (q.last + 1 - LINE)
      BY <1>1, <1>3, <1>9 DEF Shown
    <2>2. ASSUME NEW y \in 0..LINE - 1
          PROVE  t.video[y] = q.rows[q.last + 1 - LINE + y]
      <3> DEFINE above == p.last + 1 - LINE
      <3>1. above \in Nat /\ above + y \in 0..p.last /\ y \in 0..LINE
        BY <1>2, Sizes
      <3>2. s.video \in [0..LINE -> Row] /\ s.y \in 0..LINE
        BY <1>1, Sizes
      <3>3. s.y = p.y - above /\ s.video[y] = p.rows[above + y]
        BY <1>1 DEF Shown
      <3>4. CASE y = s.y
        <4>1. above + y = p.y
          BY <1>2, <3>1, <3>3, <3>4
        <4>2. t.video[y] = r
          BY <1>3, <1>7, <3>2, <3>4
        <4> QED
          BY <1>8, <1>9, <4>1, <4>2
      <3>5. CASE y # s.y
        <4>1. above + y # p.y
          BY <1>2, <3>1, <3>3, <3>5
        <4>2. t.video[y] = s.video[y]
          BY <1>3, <1>7, <3>1, <3>2, <3>5
        <4> QED
          BY <1>8, <1>9, <3>1, <3>3, <4>1, <4>2
      <3> QED
        BY <3>4, <3>5
    <2> QED
      BY <2>1, <2>2 DEF Shown
  <1>12. Agree(t, q)
    BY <1>3, <1>10, <1>11 DEF Agree
  <1> QED
    BY <1>3, <1>6, <1>9, <1>12 DEF t

\* The cursor goes to another column.
LEMMA ColumnSet ==
    ASSUME NEW s, NEW p, Agree(s, p), NEW x \in 0..COLUMN - 1
    PROVE  Agree([s EXCEPT !.x = x], [p EXCEPT !.x = x])
  <1> DEFINE t == [s EXCEPT !.x = x]
             q == [p EXCEPT !.x = x]
  <1>1. t \in Screens /\ t.video = s.video /\ t.x = x /\ t.y = s.y
    BY DEF Agree, Screens
  <1>2. q \in Papers /\ q.rows = p.rows /\ q.last = p.last /\ q.x = x /\ q.y = p.y
    BY DEF Agree, Papers
  <1> HIDE DEF t, q
  <1>3. Shown(t, q)
    BY <1>1, <1>2 DEF Agree, Shown
  <1>4. Agree(t, q)
    BY <1>1, <1>2, <1>3 DEF Agree
  <1> QED
    BY <1>4 DEF t, q

\* The cursor goes to the next row; when it was on the last one the screen
\* scrolls, and the hidden row, which is blank, comes up.
LEMMA RowAdded ==
    ASSUME NEW s, NEW p, Agree(s, p)
    PROVE  Agree(scroll_up([s EXCEPT !.x = 0, !.y = @ + 1]), NextRow(p))
  <1> DEFINE m == [s EXCEPT !.x = 0, !.y = @ + 1]
             t == scroll_up(m)
             q == NextRow(p)
             last == IF p.y = p.last THEN p.last + 1 ELSE p.last
  <1> SUFFICES Agree(t, q)
    OBVIOUS
  <1>1. /\ s \in [video : [0..LINE -> Row], x : 0..COLUMN - 1, y : 0..LINE - 1]
        /\ s.video \in [0..LINE -> Row] /\ s.video[LINE] = BlankRow
        /\ s.x \in 0..COLUMN - 1 /\ s.y \in 0..LINE - 1 /\ Shown(s, p)
    BY DEF Screens, Agree
  <1>2. /\ p.rows \in [0..p.last -> Row] /\ p.y \in 0..p.last /\ p.last >= LINE - 1
        /\ p.last \in Nat /\ p.x \in 0..COLUMN - 1 /\ p.y \in Nat
    BY DEF Papers, Agree
  <1>3. /\ m.video = s.video /\ m.x = 0 /\ m.y = s.y + 1
        /\ m \in [video : [0..LINE -> Row], x : 0..COLUMN - 1, y : 0..LINE]
    <2> DEFINE k == s.y + 1
    <2>1. k \in 0..LINE /\ 0 \in 0..COLUMN - 1
      BY <1>1, Sizes
    <2>2. m = [s EXCEPT !.x = 0, !.y = k]
      BY <1>1
    <2> HIDE DEF k, m
    <2>3. m \in [video : [0..LINE -> Row], x : 0..COLUMN - 1, y : 0..LINE]
      BY <1>1, <2>1, <2>2
    <2>4. m.video = s.video /\ m.x = 0 /\ m.y = k
      BY <1>1, <2>2
    <2> QED
      BY <2>3, <2>4 DEF k
  <1> HIDE DEF m
  <1>4. 0 \in 0..COLUMN - 1
    BY Sizes
  <1>5. /\ q.rows = [y \in 0..last |-> IF y <= p.last THEN p.rows[y] ELSE BlankRow]
        /\ q.last = last /\ q.y = p.y + 1 /\ q.x = 0
    BY DEF NextRow
  <1>6. last \in Nat /\ last >= LINE - 1 /\ p.y + 1 \in 0..last
    BY <1>2, Sizes
  <1>7. q \in Papers
    <2>1. q.rows \in [0..last -> Row]
      BY <1>2, <1>5, <1>6, BlankIsRow
    <2>2. q.rows \in UNION {[0..n -> Row] : n \in Nat}
      BY <1>6, <2>1
    <2>3. q = [rows |-> q.rows, last |-> last, y |-> p.y + 1, x |-> 0]
      BY DEF NextRow
    <2> HIDE DEF q, last
    <2> DEFINE k == p.y + 1
    <2>4. k \in Nat /\ k \in 0..last
      BY <1>2, <1>6
    <2> HIDE DEF k
    <2>5. q = [rows |-> q.rows, last |-> last, y |-> k, x |-> 0]
      BY <2>3 DEF k
    <2>6. q \in [rows : UNION {[0..n -> Row] : n \in Nat}, last : Nat, x : 0..COLUMN - 1, y : Nat]
      BY <1>4, <1>6, <2>2, <2>4, <2>5
    <2>7. q.y = k /\ q.last = last
      BY <1>5 DEF k
    <2> QED
      BY <1>6, <2>1, <2>4, <2>6, <2>7 DEF Papers
  <1>8. /\ s.y = p.y - (p.last + 1 - LINE)
        /\ \A y \in 0..LINE - 1 : s.video[y] = p.rows[p.last + 1 - LINE + y]
    BY <1>1 DEF Shown
  <1> HIDE DEF q
  <1>9. CASE p.y # p.last
    <2>1. s.y + 1 < LINE /\ last = p.last
      BY <1>1, <1>2, <1>8, <1>9, Sizes
    <2>2. t = m
      BY <1>1, <1>3, <2>1 DEF scroll_up
    <2>3. t \in Screens
      BY <1>1, <1>3, <1>4, <2>1, <2>2, Sizes DEF Screens
    <2>4. ASSUME NEW y \in 0..LINE - 1 PROVE t.video[y] = q.rows[q.last + 1 - LINE + y]
      <3>1. p.last + 1 - LINE + y \in 0..p.last
        BY <1>2, Sizes
      <3> HIDE DEF t
      <3> QED
        BY <1>2, <1>3, <1>5, <1>8, <2>1, <2>2, <3>1
    <2>5. t.x = q.x /\ t.y = q.y - (q.last + 1 - LINE)
      <3> HIDE DEF t
      <3>1. t.x = 0 /\ t.y = s.y + 1 /\ q.x = 0 /\ q.y = p.y + 1 /\ q.last = p.last
        BY <1>3, <1>5, <2>1, <2>2
      <3>2. s.y + 1 = q.y - (q.last + 1 - LINE)
        <4>1. p.y \in Int /\ p.last \in Int /\ s.y \in Int /\ LINE \in Int
          BY <1>1, <1>2, Sizes
        <4>2. s.y = p.y - (p.last + 1 - LINE)
          BY <1>8
        <4> QED
          BY <3>1, <4>1, <4>2
      <3> QED
        BY <3>1, <3>2
    <2> HIDE DEF t
    <2>6. Shown(t, q)
      BY <2>4, <2>5 DEF Shown
    <2> QED
      BY <1>7, <2>3, <2>6 DEF Agree
  <1>10. CASE p.y = p.last
    <2>1. s.y + 1 = LINE /\ last = p.last + 1
      BY <1>1, <1>2, <1>8, <1>10, Sizes
    <2> DEFINE v == [y \in 0..LINE |-> IF y < LINE THEN s.video[y + 1] ELSE s.video[y]]
    <2>2. /\ t.video = v /\ t.x = 0 /\ t.y = LINE - 1
          /\ t = [m EXCEPT !.video = v, !.y = LINE - 1]
      BY <1>1, <1>3, <2>1, Sizes DEF scroll_up
    <2>3. /\ v \in [0..LINE -> Row] /\ v[LINE] = BlankRow
          /\ \A y \in 0..LINE - 1 : v[y] = s.video[y + 1]
      BY <1>1, Sizes
    <2> HIDE DEF v, t
    <2>4. t \in Screens
      <3> DEFINE k == LINE - 1
      <3>1. k \in 0..LINE - 1
        BY Sizes
      <3> HIDE DEF k
      <3>2. t = [m EXCEPT !.video = v, !.y = k]
        BY <2>2 DEF k
      <3>3. t \in [video : [0..LINE -> Row], x : 0..COLUMN - 1, y : 0..LINE - 1]
        BY <1>3, <2>3, <3>1, <3>2
      <3> QED
        BY <2>2, <2>3, <3>3 DEF Screens
    <2>5. ASSUME NEW y \in 0..LINE - 1 PROVE t.video[y] = q.rows[q.last + 1 - LINE + y]
      <3> DEFINE k == q.last + 1 - LINE + y
      <3>1. k = p.last + 1 - LINE + (y + 1) /\ k \in 0..last /\ t.video[y] = s.video[y + 1]
        BY <1>2, <1>5, <2>1, <2>2, <2>3, Sizes, SMTT(30)
      <3>2. CASE y + 1 < LINE
        <4>1. y + 1 \in 0..LINE - 1 /\ k <= p.last
          BY <1>2, <3>1, <3>2, Sizes
        <4> HIDE DEF k
        <4> QED
          BY <1>5, <1>8, <3>1, <4>1 DEF k
      <3>3. CASE ~(y + 1 < LINE)
        <4>1. y + 1 = LINE /\ ~(k <= p.last)
          BY <1>2, <3>1, <3>3, Sizes
        <4> HIDE DEF k
        <4> QED
          BY <1>1, <1>5, <3>1, <4>1 DEF k
      <3> QED
        BY <3>2, <3>3
    <2>6. t.x = q.x /\ t.y = q.y - (q.last + 1 - LINE)
      BY <1>1, <1>2, <1>5, <1>10, <2>1, <2>2, Sizes
    <2>7. Shown(t, q)
      BY <2>5, <2>6 DEF Shown
    <2> QED
      BY <1>7, <2>4, <2>7 DEF Agree
  <1> QED
    BY <1>9, <1>10

\* put_char does to the screen what writing does to the paper.
LEMMA CharShown ==
    ASSUME NEW s, NEW p, Agree(s, p), NEW c \in Int
    PROVE  Agree(put_char(s, c), Write(p, c))
  <1>1. /\ s \in [video : [0..LINE -> Row], x : 0..COLUMN - 1, y : 0..LINE - 1]
        /\ s.x \in 0..COLUMN - 1 /\ s.y \in 0..LINE - 1 /\ s.x = p.x
    BY DEF Screens, Agree, Shown
  <1>2. \A t \in Screens : scroll_up(t) = t
    <2>1. \A t \in Screens : t.y < LINE
      BY Sizes DEF Screens
    <2> QED
      BY <2>1 DEF scroll_up
  <1>3. CASE c = NEWLINE
    <2>1. put_char(s, c) = scroll_up([s EXCEPT !.x = 0, !.y = @ + 1])
      BY <1>3 DEF put_char, NEWLINE, RETURN
    <2>2. Write(p, c) = NextRow(p)
      BY <1>3 DEF Write, NEWLINE, RETURN
    <2> QED
      BY <2>1, <2>2, RowAdded
  <1>4. CASE c = RETURN
    <2> DEFINE t == [s EXCEPT !.x = 0]
    <2>1. put_char(s, c) = scroll_up(t) /\ Write(p, c) = [p EXCEPT !.x = 0]
      BY <1>4 DEF put_char, Write, RETURN, NEWLINE
    <2>2. 0 \in 0..COLUMN - 1
      BY Sizes
    <2>3. Agree(t, [p EXCEPT !.x = 0])
      BY <2>2, ColumnSet
    <2>4. scroll_up(t) = t
      BY <1>2, <2>3 DEF Agree
    <2> QED
      BY <2>1, <2>3, <2>4
  <1>5. CASE c # NEWLINE /\ c # RETURN
    <2> DEFINE i == put_char_at(s, s.y, s.x, c)
               ink == [p EXCEPT !.rows[p.y][p.x] = c]
               full == s.x + 1 >= COLUMN
               t == [i EXCEPT !.x = IF full THEN 0 ELSE @ + 1, !.y = IF full THEN @ + 1 ELSE @]
    <2>1. Agree(i, ink) /\ ink.x = p.x /\ i.x = s.x
      BY Inked
    <2>2. put_char(s, c) = scroll_up(t)
      BY <1>5 DEF put_char
    <2>3. Write(p, c) = IF p.x = COLUMN - 1 THEN NextRow(ink) ELSE [ink EXCEPT !.x = @ + 1]
      BY <1>5 DEF Write
    <2>4. full <=> p.x = COLUMN - 1
      BY <1>1, Sizes
    <2>5. i \in [video : [0..LINE -> Row], x : 0..COLUMN - 1, y : 0..LINE - 1]
      BY <2>1 DEF Agree, Screens
    <2> HIDE DEF i, ink
    <2>6. CASE full
      <3>1. t = [i EXCEPT !.x = 0, !.y = @ + 1]
        BY <2>5, <2>6
      <3> HIDE DEF t, full
      <3> QED
        BY <2>1, <2>2, <2>3, <2>4, <2>6, <3>1, RowAdded
    <2>7. CASE ~full
      <3> DEFINE x == s.x + 1
      <3>1. t = [i EXCEPT !.x = x]
        BY <2>1, <2>5, <2>7
      <3>2. x \in 0..COLUMN - 1
        BY <1>1, <2>7, Sizes
      <3>3. Write(p, c) = [ink EXCEPT !.x = x]
        <4>1. Write(p, c) = [ink EXCEPT !.x = @ + 1]
          BY <2>3, <2>4, <2>7
        <4>2. ink \in [rows : UNION {[0..n -> Row] : n \in Nat}, last : Nat, x : 0..COLUMN - 1,
                       y : Nat]
          BY <2>1 DEF Agree, Papers
        <4> QED
          BY <1>1, <2>1, <4>1, <4>2
      <3> HIDE DEF t, full, x
      <3>4. Agree(t, Write(p, c))
        BY <2>1, <3>1, <3>2, <3>3, ColumnSet
      <3>5. scroll_up(t) = t
        BY <1>2, <3>4 DEF Agree
      <3> QED
        BY <2>2, <3>4, <3>5
    <2> QED
      BY <2>6, <2>7
  <1> QED
    BY <1>3, <1>4, <1>5

\* The paper as it is before anything is printed.
Start(s) ==
    [rows |-> [y \in 0..LINE - 1 |-> s.video[y]], last |-> LINE - 1, y |-> s.y, x |-> s.x]

\* At first the paper is what the screen shows.
LEMMA StartAgrees ==
    ASSUME NEW s \in Screens
    PROVE  Agree(s, Start(s))
  <1> DEFINE rows == [y \in 0..LINE - 1 |-> s.video[y]]
             k == LINE - 1
             q == [rows |-> rows, last |-> k, y |-> s.y, x |-> s.x]
  <1>1. s.video \in [0..LINE -> Row] /\ s.x \in 0..COLUMN - 1 /\ s.y \in 0..LINE - 1 /\ s.y \in Nat
    BY Sizes DEF Screens
  <1>2. rows \in [0..k -> Row] /\ k \in Nat /\ \A y \in 0..k : rows[y] = s.video[y]
    BY <1>1, Sizes
  <1>3. q.rows = rows /\ q.last = k /\ q.y = s.y /\ q.x = s.x
    OBVIOUS
  <1>4. Start(s) = q
    BY DEF Start
  <1>5. \A y \in 0..k : k + 1 - LINE + y = y
    BY Sizes
  <1>6. s.y = s.y - (k + 1 - LINE)
    BY <1>1, Sizes
  <1>7. k >= LINE - 1 /\ s.y \in 0..k
    BY <1>1, Sizes
  <1>8. k = LINE - 1
    OBVIOUS
  <1> HIDE DEF rows, k
  <1>9. q \in Papers
    <2>1. rows \in UNION {[0..n -> Row] : n \in Nat}
      BY <1>2
    <2>2. q \in [rows : UNION {[0..n -> Row] : n \in Nat}, last : Nat, x : 0..COLUMN - 1, y : Nat]
      BY <1>1, <1>2, <2>1
    <2> HIDE DEF q
    <2> QED
      BY <1>2, <1>3, <1>7, <2>2 DEF Papers
  <1> HIDE DEF q
  <1>10. Shown(s, q)
    BY <1>2, <1>3, <1>5, <1>6, <1>8 DEF Shown
  <1> QED
    BY <1>4, <1>9, <1>10 DEF Agree

\* After a string the screen is still the end of the paper.
LEMMA StringShown ==
    ASSUME NEW s \in Screens, NEW str \in Seq(Int)
    PROVE  Agree(print_string(s, str), Paper(s, str))
  <1> DEFINE N == Len(str)
             S == {w \in Screens \X Papers : Shown(w[1], w[2])}
             base == <<s, Start(s)>>
             move(w, c) == <<put_char(w[1], c), Write(w[2], c)>>
             step == [p \in S \X (1..N) |-> move(p[1], str[p[2]])]
             Is1(g) == g = [n \in 0..N |-> IF n = 0 THEN s ELSE put_char(g[n - 1], str[n])]
             Is2(g) == g = [n \in 0..N |-> IF n = 0 THEN Start(s) ELSE Write(g[n - 1], str[n])]
  <1>1. N \in Nat /\ \A i \in 1..N : str[i] \in Int
    OBVIOUS
  <1>2. base \in S
    <2> DEFINE q == Start(s)
    <2>1. s \in Screens /\ q \in Papers /\ Shown(s, q)
      BY StartAgrees DEF Agree
    <2> HIDE DEF q
    <2>2. <<s, q>> \in S
      BY <2>1
    <2> QED
      BY <2>2 DEF q
  <1>3. \A w \in S : Agree(w[1], w[2])
    BY DEF Agree
  <1>4. \A a, b : Agree(a, b) => <<a, b>> \in S
    BY DEF Agree
  <1> HIDE DEF S, base
  <1>5. ASSUME NEW w \in S, NEW i \in 1..N
        PROVE  /\ Agree(put_char(w[1], str[i]), Write(w[2], str[i]))
               /\ move(w, str[i]) \in S
    <2>1. Agree(w[1], w[2]) /\ str[i] \in Int
      BY <1>1, <1>3
    <2>2. Agree(put_char(w[1], str[i]), Write(w[2], str[i]))
      BY <2>1, CharShown
    <2> QED
      BY <1>4, <2>2
  <1>6. step \in [S \X (1..N) -> S]
    <2>1. ASSUME NEW p \in S \X (1..N) PROVE move(p[1], str[p[2]]) \in S
      <3>1. p[1] \in S /\ p[2] \in 1..N
        OBVIOUS
      <3> HIDE DEF move, N
      <3> QED
        BY <1>5, <3>1
    <2> HIDE DEF move, N
    <2> QED
      BY <2>1
  <1>7. ASSUME NEW w \in S, NEW i \in 1..N PROVE step[<<w, i>>] = move(w, str[i])
    <2> HIDE DEF move, N
    <2> QED
      OBVIOUS
  <1> HIDE DEF step
  <1>8. PICK f \in [0..N -> S] : f[0] = base /\ \A i \in 1..N : f[i] = step[<<f[i - 1], i>>]
    <2> HIDE DEF N
    <2>1. PICK f : IsRun(f, N, S, base, step)
      BY <1>1, <1>2, <1>6, Recursion
    <2> QED
      BY <2>1 DEF IsRun
  <1>9. ASSUME NEW n \in 1..N
        PROVE  /\ f[n][1] = put_char(f[n - 1][1], str[n])
               /\ f[n][2] = Write(f[n - 1][2], str[n])
    <2>1. n - 1 \in 0..N
      BY <1>1
    <2>2. f[n] = move(f[n - 1], str[n])
      BY <1>7, <1>8, <2>1
    <2> QED
      BY <2>2
  <1>10. f[0][1] = s /\ f[0][2] = Start(s)
    BY <1>8 DEF base
  <1> DEFINE a == [n \in 0..N |-> f[n][1]]
             b == [n \in 0..N |-> f[n][2]]
  <1>11. /\ \A n \in 0..N : a[n] = f[n][1] /\ b[n] = f[n][2]
         /\ DOMAIN a = 0..N /\ DOMAIN b = 0..N
         /\ a = [n \in 0..N |-> a[n]] /\ b = [n \in 0..N |-> b[n]]
    OBVIOUS
  <1> HIDE DEF a, b, move
  <1>12. ASSUME NEW n \in 0..N
         PROVE  /\ a[n] = IF n = 0 THEN s ELSE put_char(a[n - 1], str[n])
                /\ b[n] = IF n = 0 THEN Start(s) ELSE Write(b[n - 1], str[n])
    <2>1. CASE n = 0
      BY <1>10, <1>11, <2>1
    <2>2. CASE n # 0
      <3>1. n \in 1..N /\ n - 1 \in 0..N
        BY <1>1, <2>2
      <3> HIDE DEF N
      <3> QED
        BY <1>9, <1>11, <2>2, <3>1
    <2> QED
      BY <2>1, <2>2
  <1>13. Is1(a) /\ Is2(b)
    <2> HIDE DEF N
    <2> QED
      BY <1>11, <1>12
  <1> DEFINE shown == CHOOSE g : Is1(g)
             paper == CHOOSE g : Is2(g)
  <1>14. Is1(shown) /\ Is2(paper)
    <2> HIDE DEF Is1, Is2
    <2> QED
      BY <1>13
  <1>15. print_string(s, str) = shown[N]
    BY Zenon DEF print_string
  <1>16. Paper(s, str) = paper[N]
    BY Zenon DEF Paper, Start
  <1> HIDE DEF shown, paper
  <1> DEFINE T == {n \in Nat : n <= N => Agree(shown[n], paper[n])}
  <1>17. 0 \in T
    <2>1. shown[0] = s /\ paper[0] = Start(s)
      BY <1>1, <1>14
    <2> QED
      BY <2>1, StartAgrees
  <1>18. ASSUME NEW n \in Nat, n \in T PROVE n + 1 \in T
    <2> SUFFICES ASSUME n + 1 <= N PROVE Agree(shown[n + 1], paper[n + 1])
      OBVIOUS
    <2>1. /\ Agree(shown[n], paper[n]) /\ n + 1 \in 1..N /\ n + 1 \in 0..N /\ n + 1 # 0
          /\ (n + 1) - 1 = n
      BY <1>1, <1>18
    <2>2. /\ shown[n + 1] = put_char(shown[n], str[n + 1])
          /\ paper[n + 1] = Write(paper[n], str[n + 1])
      <3> HIDE DEF N
      <3> QED
        BY <1>14, <2>1
    <2> QED
      BY <1>1, <2>1, <2>2, CharShown
  <1> HIDE DEF T
  <1>19. N \in T
    BY <1>1, <1>17, <1>18, Induction
  <1> QED
    BY <1>1, <1>15, <1>16, <1>19 DEF T

-----------------------------------------------------------------------------
(* What is printed.                                                        *)

\* The screen is whole, its hidden row is blank, and the buffer of printk holds
\* the text that its format asks for.
SInv ==
    /\ screen \in Screens /\ Fits(out.result, out.size)
    /\ IsFormatted(out.size, out.fmt, out.result)

\* After clear_screen.
LEMMA InitSInv ==
    ASSUME Init
    PROVE  SInv
  <1>1. clear_screen \in Screens
    <2> DEFINE v == [y \in 0..LINE |-> BlankRow]
    <2>1. v \in [0..LINE -> Row] /\ v[LINE] = BlankRow
      BY Sizes, BlankIsRow
    <2>2. clear_screen = [video |-> v, x |-> 0, y |-> 0]
      BY DEF clear_screen
    <2> HIDE DEF v
    <2>3. 0 \in 0..COLUMN - 1 /\ 0 \in 0..LINE - 1
      BY Sizes
    <2> QED
      BY <2>1, <2>2, <2>3 DEF Screens
  <1>2. IsFormat(<<>>)
    BY DEF IsFormat
  <1>3. Fits(vsnprintf(0, <<>>), 0)
    BY <1>2, VsnprintfFits
  <1>4. screen = clear_screen /\ out.result = vsnprintf(0, <<>>) /\ out.size = 0 /\ out.fmt = <<>>
    BY DEF Init
  <1>5. IsFormatted(0, <<>>, vsnprintf(0, <<>>))
    BY <1>2, VsnprintfFormats
  <1> QED
    BY <1>1, <1>3, <1>4, <1>5 DEF SInv

\* printk shows the text that vsnprintf made of its arguments.
LEMMA PrintkShows ==
    ASSUME SInv, NEW fmt, IsFormat(fmt), printk(fmt)
    PROVE  SInv' /\ IsEndOfPaper(screen, screen', out'.result.str)
  <1> DEFINE r == vsnprintf(PRINTK_SIZE, fmt)
  <1>1. Fits(r, PRINTK_SIZE) /\ IsFormatted(PRINTK_SIZE, fmt, r)
    BY ScreenAssumption, VsnprintfFits, VsnprintfFormats
  <1> HIDE DEF r
  <1>2. /\ out'.result = r /\ out'.size = PRINTK_SIZE /\ out'.fmt = fmt
        /\ screen' = print_string(screen, r.str)
    BY DEF printk, r
  <1>3. r.str \in Seq(Int) /\ screen \in Screens
    BY <1>1 DEF Fits, SInv
  <1>4. Agree(screen', Paper(screen, r.str))
    BY <1>2, <1>3, StringShown
  <1>5. SInv'
    BY <1>1, <1>2, <1>4 DEF SInv, Agree
  <1>6. IsEndOfPaper(screen, screen', r.str)
    <2> DEFINE p == Paper(screen, r.str)
    <2>1. Shown(screen', p) /\ p \in Papers
      BY <1>4 DEF Agree
    <2> HIDE DEF p
    <2>2. p.last \in Nat /\ p.y \in Nat
      BY <2>1 DEF Papers
    <2>3. LET above == p.last + 1 - LINE
          IN  /\ \A y \in 0..LINE - 1 : screen'.video[y] = p.rows[above + y]
              /\ screen'.x = p.x /\ screen'.y = p.y - above
      BY <2>1 DEF Shown
    <2> QED
      BY <2>3 DEF IsEndOfPaper, p
  <1> QED
    BY <1>2, <1>5, <1>6

\* The texts that the kernel prints.
LEMMA StringItem ==
    ASSUME NEW str \in Seq(Int)
    PROVE  IsItem(String(str))
  BY DEF IsItem, String

\* What boot, processes and exceptions print, panic with two texts of it.
LEMMA Formats ==
    /\ \A fmt \in BootMessages : IsFormat(fmt)
    /\ \A str \in Strings : IsFormat(<<String(str)>>)
    /\ \A fmt \in Reasons : IsFormat(<<String(vsnprintf(PRINTK_SIZE, fmt).str), Literal(NEWLINE),
                                       Literal(NEWLINE), String(Desc)>>)
  <1>1. \A fmt \in BootMessages : IsFormat(fmt)
    BY TextAssumption
  <1>2. ASSUME NEW str \in Strings PROVE IsFormat(<<String(str)>>)
    <2> DEFINE a == String(str)
    <2>1. IsItem(a)
      BY TextAssumption, StringItem
    <2> HIDE DEF a
    <2>2. IsFormat(<<a>>)
      BY <2>1 DEF IsFormat
    <2> QED
      BY <2>2 DEF a
  <1>3. ASSUME NEW fmt \in Reasons
        PROVE  IsFormat(<<String(vsnprintf(PRINTK_SIZE, fmt).str), Literal(NEWLINE),
                          Literal(NEWLINE), String(Desc)>>)
    <2> DEFINE a == String(vsnprintf(PRINTK_SIZE, fmt).str)
               b == Literal(NEWLINE)
               c == String(Desc)
    <2>1. IsFormat(fmt)
      BY TextAssumption
    <2>2. Fits(vsnprintf(PRINTK_SIZE, fmt), PRINTK_SIZE)
      BY <2>1, ScreenAssumption, VsnprintfFits
    <2>3. IsItem(a)
      BY <2>2, StringItem DEF Fits
    <2>4. IsItem(b)
      BY DEF IsItem, Literal, NEWLINE
    <2>5. IsItem(c)
      BY TextAssumption, StringItem
    <2> HIDE DEF a, b, c
    <2> DEFINE f == <<a, b, b, c>>
    <2>6. Len(f) = 4 /\ \A i \in 1..4 : f[i] \in {a, b, c}
      OBVIOUS
    <2> HIDE DEF f
    <2>7. IsFormat(f)
      BY <2>3, <2>4, <2>5, <2>6 DEF IsFormat
    <2> QED
      BY <2>7, Zenon DEF a, b, c, f
  <1> QED
    BY <1>1, <1>2, <1>3

\* What the handler shows is the character typed first.
LEMMA HandlerShows ==
    ASSUME DInv, SInv, keyboard_handler
    PROVE  /\ SInv'
           /\ screen' # screen \/ Len(typed') < Len(typed) =>
                 typed # <<>> /\ screen'.video[EchoLine][0] = typed[1]
  <1>1. PICK ch, c, u : /\ Behind(c, key_states', u, Final) /\ Shows(ch)
                        /\ typed = ch \o u /\ typed' = u /\ ch \in Seq(Int)
    BY Round
  <1>2. u \in Seq(Int)
    BY <1>1, BehindTyped
  <1>3. out' = out
    BY DEF keyboard_handler
  <1>4. CASE ch = <<>> /\ screen' = screen
    <2>1. typed' = typed
      BY <1>1, <1>2, <1>4, NoneAdded
    <2>2. Len(typed) \in Nat
      BY <1>1, <1>2, <2>1
    <2> QED
      BY <1>3, <1>4, <2>1, <2>2 DEF SInv
  <1>5. ASSUME NEW x, ch = <<x>>, screen' = put_char_at(screen, EchoLine, 0, x)
        PROVE  SInv' /\ typed # <<>> /\ screen'.video[EchoLine][0] = typed[1]
    <2>1. x \in Int
      <3>1. Len(<<x>>) = 1 /\ <<x>>[1] = x
        OBVIOUS
      <3> QED
        BY <1>1, <1>5, <3>1, ElementOfSeq
    <2>2. typed # <<>> /\ typed[1] = x
      BY <1>1, <1>2, <1>5, <2>1
    <2>3. 0 \in 0..COLUMN - 1 /\ EchoLine \in 0..LINE - 1 /\ screen \in Screens
      BY Sizes DEF SInv
    <2>4. screen' \in Screens /\ screen'.video[EchoLine][0] = x
      <3>1. WithChar(put_char_at(screen, EchoLine, 0, x), screen, EchoLine, 0, x)
        BY <2>1, <2>3, CharAt
      <3> QED
        BY <1>5, <3>1 DEF WithChar
    <2> QED
      BY <1>3, <2>2, <2>4 DEF SInv
  <1> QED
    BY <1>1, <1>4, <1>5 DEF Shows

\* Every step keeps the invariant.
LEMMA StepSInv ==
    ASSUME DInv, SInv, [Next]_vars
    PROVE  SInv'
  <1>1. ASSUME UNCHANGED <<screen, out>> PROVE SInv'
    BY <1>1 DEF SInv
  <1>2. ASSUME NEW key \in Keys, press(key) PROVE SInv'
    BY <1>1, <1>2 DEF press, text
  <1>3. ASSUME NEW key \in Keys, release(key) PROVE SInv'
    BY <1>1, <1>3 DEF release, text
  <1>4. ASSUME NEW fmt \in BootMessages, boot_message(fmt) PROVE SInv'
    BY <1>4, Formats, PrintkShows DEF boot_message
  <1>5. CASE kbd_initialize
    BY <1>1, <1>5 DEF kbd_initialize, text
  <1>6. CASE scheduler
    BY <1>1, <1>6 DEF scheduler, text
  <1>7. CASE interrupt
    BY <1>1, <1>7 DEF interrupt, text
  <1>8. CASE keyboard_handler
    BY <1>8, HandlerShows
  <1>9. CASE pic_interrupt
    BY <1>1, <1>9 DEF pic_interrupt, text
  <1>10. ASSUME NEW str \in Strings, sys_prints(str) PROVE SInv'
    BY <1>10, Formats, PrintkShows DEF sys_prints
  <1>11. ASSUME NEW fmt \in Reasons, excep_handle(fmt) PROVE SInv'
    BY <1>11, Formats, PrintkShows DEF excep_handle, panic
  <1>12. CASE UNCHANGED vars
    BY <1>1, <1>12 DEF vars, text
  <1> QED
    BY <1>2, <1>3, <1>4, <1>5, <1>6, <1>7, <1>8, <1>9, <1>10, <1>11, <1>12 DEF Next

\* printk and panic never write behind their buffers, and the text in them ends
\* there, for any format, any argument and any PRINTK_SIZE; the cursor stays on
\* the screen.
THEOREM PrintsFit == Spec => []SInv
  <1>1. DInv /\ SInv /\ [Next]_vars => SInv'
    BY StepSInv
  <1> QED
    BY <1>1, InitSInv, Decoding, PTL DEF Spec

\* The text in the buffer of printk or panic is the one that the format asks for:
\* every number in as many digits as it has, every field as wide as asked for and
\* padded on its side, nothing lost or added where the buffer ends, and the number
\* returned is the length of what is in the buffer.
THEOREM PrintsFormatted == Spec => []Formatted
  <1>1. SInv => Formatted
    BY DEF SInv, Formatted
  <1> QED
    BY <1>1, PrintsFit, PTL

\* What keyboard_handler shows is what was typed, for the modifiers at the time,
\* however far it is behind.
THEOREM EchoTyped == Spec => EchoIsTyped
  <1> DEFINE A == cpu = "irq" /\ (screen' # screen \/ Len(typed') < Len(typed)) =>
                     typed # <<>> /\ screen'.video[EchoLine][0] = typed[1]
  <1>1. ASSUME DInv, SInv, [Next]_vars PROVE [A]_vars
    <2> SUFFICES ASSUME Next, cpu = "irq", screen' # screen \/ Len(typed') < Len(typed)
                 PROVE  typed # <<>> /\ screen'.video[EchoLine][0] = typed[1]
      BY <1>1
    <2>1. typed \in Seq(Int)
      BY <1>1, BehindTyped DEF DInv
    <2>2. ASSUME screen' = screen, NEW e, e \in Seq(Int), typed' = typed \o e PROVE FALSE
      <3>1. Len(typed') = Len(typed) + Len(e) /\ Len(typed) \in Nat /\ Len(e) \in Nat
        BY <2>1, <2>2
      <3> QED
        BY <2>2, <3>1
    <2>3. ASSUME screen' = screen, typed' = typed PROVE FALSE
      BY <2>1, <2>3
    <2>4. ASSUME NEW key \in Keys, press(key) PROVE FALSE
      <3>1. Expected(key) \in Seq(Int)
        BY DEF Expected
      <3>2. screen' = screen /\ typed' = typed \o Expected(key)
        BY <2>4 DEF press, text
      <3> QED
        BY <2>2, <3>1, <3>2
    <2>5. ASSUME NEW key \in Keys, release(key) PROVE FALSE
      BY <2>3, <2>5 DEF release, text
    <2>6. CASE keyboard_handler
      BY <1>1, <2>6, HandlerShows
    <2>7. CASE pic_interrupt
      BY <2>3, <2>7 DEF pic_interrupt, text, keyboard
    <2> QED
      BY <2>4, <2>5, <2>6, <2>7
         DEF Next, boot_message, kbd_initialize, scheduler, interrupt, sys_prints, excep_handle
  <1> HIDE DEF A
  <1>2. Spec => [][A]_vars
    BY <1>1, Decoding, PrintsFit, PTL DEF Spec
  <1> QED
    BY <1>2 DEF EchoIsTyped, A

\* What printk and panic print appears at the cursor, and the screen is the end of
\* an endless sheet of paper, for any text and any size of the screen.
THEOREM PrintsAreShown == Spec => ScreenIsPaper
  <1> DEFINE A == prints' # prints => IsEndOfPaper(screen, screen', out'.result.str)
  <1>1. ASSUME SInv, [Next]_vars PROVE [A]_vars
    <2> SUFFICES ASSUME Next, prints' # prints
                 PROVE  IsEndOfPaper(screen, screen', out'.result.str)
      BY <1>1
    <2>1. ASSUME NEW fmt \in BootMessages, boot_message(fmt)
          PROVE  IsEndOfPaper(screen, screen', out'.result.str)
      BY <1>1, <2>1, Formats, PrintkShows DEF boot_message
    <2>2. ASSUME NEW str \in Strings, sys_prints(str)
          PROVE  IsEndOfPaper(screen, screen', out'.result.str)
      BY <1>1, <2>2, Formats, PrintkShows DEF sys_prints
    <2>3. ASSUME NEW fmt \in Reasons, excep_handle(fmt)
          PROVE  IsEndOfPaper(screen, screen', out'.result.str)
      BY <1>1, <2>3, Formats, PrintkShows DEF excep_handle, panic
    <2>4. ASSUME NEW key \in Keys, press(key) \/ release(key) PROVE FALSE
      BY <2>4 DEF press, release, text
    <2>5. ~kbd_initialize /\ ~scheduler /\ ~interrupt /\ ~keyboard_handler /\ ~pic_interrupt
      BY DEF kbd_initialize, scheduler, interrupt, keyboard_handler, pic_interrupt, text
    <2> QED
      BY <2>1, <2>2, <2>3, <2>4, <2>5 DEF Next
  <1> HIDE DEF A
  <1>2. Spec => [][A]_vars
    BY <1>1, PrintsFit, PTL DEF Spec
  <1> QED
    BY <1>2 DEF ScreenIsPaper, A
=============================================================================
