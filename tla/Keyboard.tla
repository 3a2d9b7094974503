------------------------------ MODULE Keyboard ------------------------------
(***************************************************************************)
(* The keyboard's driver: src/src/drivers/ps2_keyboard.c.                  *)
(*                                                                         *)
(* The driver's vector is the first that is free, so its handler runs with *)
(* every interrupt of line 0, whether the keyboard has sent something or   *)
(* not.  Each action is a stretch of the driver in which it makes no       *)
(* difference when a byte arrives.                                         *)
(*                                                                         *)
(* The device and its controller are modelled from the way the driver uses *)
(* them: what is written is answered before the next port access, answers  *)
(* are read before keys, a byte that is written takes back an answer that  *)
(* was not read, and reading with nothing there gives the last byte again. *)
(* The device may refuse a byte now and then.                              *)
(*                                                                         *)
(* ctrldown is set and never read, and scrolllock, numlock, altdown,       *)
(* fndown and is_masked are never set: they are left out.                  *)
(***************************************************************************)
EXTENDS Integers, Sequences

CONSTANTS
  Keys,          \* keys that are struck
  COUNT_LIMIT,   \* 100000, codes that the driver handles
  MAX_EVENTS,    \* bound: times a key goes down or up
  MAX_FAULTS     \* bound: bytes that the device refuses

ASSUME KeyboardAssumption ==
  COUNT_LIMIT \in Nat /\ MAX_EVENTS \in Nat /\ MAX_FAULTS \in Nat

PS2_KEYBOARD_ACK == \hFA
PS2_KEYBOARD_ERROR == \hFC
PS2_KEYBOARD_RESEND == \hFE
PS2_KEYBOARD_ECHO_RESPONSE == \hEE
SET_LEDS == \hED
SCANCODES == \hF0
SUPPOTED_SET == 2
TRANSLATED == \h41    \* what the controller makes of set 2 while it translates
CAPS_LED == 4

CAPSLOCK == \h58
SHIFT == \h12
SPACE == \h29
ENTER == \h5A
BACKSPACE == \h66

(* A to Z; the digits, SLASH, DOT and COMMA. *)
LetterCodes ==
  {\h1C, \h32, \h21, \h23, \h24, \h2B, \h34, \h33, \h43, \h3B, \h42, \h4B, \h3A,
   \h31, \h44, \h4D, \h15, \h2D, \h1B, \h2C, \h3C, \h2A, \h1D, \h22, \h35, \h1A}
SymbolCodes ==
  {\h16, \h1E, \h26, \h25, \h2E, \h36, \h3D, \h3E, \h46, \h45, \h4A, \h49, \h41}

VARIABLES
  device,        \* the keyboard and its controller
  coming,        \* bytes of a key that have not arrived yet
  pc,            \* where in init_keyboard() or keyboard_handler() the driver is
  after,         \* where keyboard_send_command() returns to
  command, operand, tries,      \* its arguments, and timeout
  scancode,      \* bytes that ps2_keyboard_get_scancode() has read
  scan_set, capslock, shiftdown, counter,
  acknowledged,  \* the handler has sent its end of interrupt
  text,          \* history: what was typed before anything slipped, see Typist
  struck,        \* history: the key whose code has not been handled
  held,          \* history: keys that are down
  events,        \* history: how often a key went down or up
  slipped        \* history: a key came while the driver was not waiting for it

lineVars == <<device, coming>>
commandVars == <<after, command, operand, tries>>
stateVars == <<scan_set, capslock, shiftdown, counter>>
historyVars == <<text, struck, held, events, slipped>>
vars == <<lineVars, pc, commandVars, scancode, stateVars, acknowledged, historyVars>>

-----------------------------------------------------------------------------
(* The device.                                                              *)

Devices(faults) ==
  [answer : {<< >>}, keys : {<< >>}, last : {0, \h47}, expects : {"command"},
   leds : {0}, set : {1, SUPPOTED_SET}, translates : {TRUE}, faults : {faults}]

Reported(d) == IF d.translates THEN TRANSLATED ELSE d.set

(* What a byte on the data port does, and what the device answers. *)
Obeyed(d, byte) ==
  CASE d.expects = "leds" ->
         [d EXCEPT !.leds = byte, !.expects = "command", !.answer = <<PS2_KEYBOARD_ACK>>]
    [] d.expects = "set" /\ byte = 0 ->
         [d EXCEPT !.expects = "command", !.answer = <<PS2_KEYBOARD_ACK, Reported(d)>>]
    [] d.expects = "set" /\ byte # 0 ->
         [d EXCEPT !.set = byte, !.expects = "command", !.answer = <<PS2_KEYBOARD_ACK>>]
    [] d.expects = "command" /\ byte = PS2_KEYBOARD_ECHO_RESPONSE ->
         [d EXCEPT !.answer = <<byte>>]
    [] d.expects = "command" /\ byte = SET_LEDS ->
         [d EXCEPT !.expects = "leds", !.answer = <<PS2_KEYBOARD_ACK>>]
    [] d.expects = "command" /\ byte = SCANCODES ->
         [d EXCEPT !.expects = "set", !.answer = <<PS2_KEYBOARD_ACK>>]
    [] OTHER -> [d EXCEPT !.answer = <<PS2_KEYBOARD_RESEND>>]

Refused(d) ==
  {[d EXCEPT !.expects = "command", !.answer = <<no>>, !.faults = @ + 1] :
     no \in {PS2_KEYBOARD_RESEND, PS2_KEYBOARD_ERROR}}

(* outb to the data port, and two of them. *)
Out(d, byte) == {Obeyed(d, byte)} \cup IF d.faults < MAX_FAULTS THEN Refused(d) ELSE {}
OutBoth(d, first, second) == UNION {Out(e, second) : e \in Out(d, first)}

(* inb from the data port: afterwards the byte read is the last one. *)
In(d) ==
  CASE d.answer # << >> -> [d EXCEPT !.answer = Tail(@), !.last = Head(d.answer)]
    [] d.answer = << >> /\ d.keys # << >> -> [d EXCEPT !.keys = Tail(@), !.last = Head(d.keys)]
    [] OTHER -> d

(* The bytes of a key.  Print screen is two keys in one, unless shift is    *)
(* held, and pause is sent whole when it goes down.                         *)
Code == [a |-> \h1C, two |-> \h1E, space |-> SPACE, enter |-> ENTER, back |-> BACKSPACE,
         shift |-> SHIFT, caps |-> CAPSLOCK]

ASSUME KeysAssumption == Keys \subseteq DOMAIN Code \cup {"arrow", "print", "pause"}

Bytes(key, down) ==
  CASE key = "arrow" -> IF down THEN <<\hE0, \h75>> ELSE <<\hE0, \hF0, \h75>>
    [] key = "print" /\ "shift" \in held ->
         IF down THEN <<\hE0, \h7C>> ELSE <<\hE0, \hF0, \h7C>>
    [] key = "print" /\ "shift" \notin held ->
         IF down THEN <<\hE0, \h12, \hE0, \h7C>>
         ELSE <<\hE0, \hF0, \h7C, \hE0, \hF0, \h12>>
    [] key = "pause" -> <<\hE1, \h14, \h77, \hE1, \hF0, \h14, \hF0, \h77>>
    [] OTHER -> IF down THEN <<Code[key]>> ELSE <<\hF0, Code[key]>>

Nothing == [key |-> "none", down |-> FALSE]

(* A key goes down or up; all its bytes but the first may be late.  Keys     *)
(* struck before the driver has set the device up are left out.              *)
Strike(key, down) ==
  /\ ~device.translates /\ device.set = SUPPOTED_SET
  /\ events < MAX_EVENTS /\ coming = << >>
  /\ down \/ (key \in held /\ key # "pause")
  /\ \E n \in {1, Len(Bytes(key, down))} :
       /\ device' = [device EXCEPT !.keys = @ \o SubSeq(Bytes(key, down), 1, n)]
       /\ coming' = SubSeq(Bytes(key, down), n + 1, Len(Bytes(key, down)))
  /\ held' = IF down THEN held \cup {key} ELSE held \ {key}
  /\ events' = events + 1
  /\ slipped' = (slipped \/ pc # "idle" \/ struck # Nothing)
  /\ struck' = IF slipped' THEN Nothing ELSE [key |-> key, down |-> down]
  /\ UNCHANGED <<pc, commandVars, scancode, stateVars, acknowledged, text>>

Arrive ==
  /\ coming # << >>
  /\ device' = [device EXCEPT !.keys = @ \o coming] /\ coming' = << >>
  /\ UNCHANGED <<pc, commandVars, scancode, stateVars, acknowledged, historyVars>>

-----------------------------------------------------------------------------
(* Definitions named Name_Fault are faulty variants of Name: each breaks one *)
(* of the properties at the end of this module.                              *)

Init ==
  /\ device \in Devices(0) /\ coming = << >>
  /\ pc = "off" /\ after = "off" /\ command = 0 /\ operand = 0 /\ tries = 0
  /\ scancode = << >>
  /\ scan_set = 0 /\ capslock = FALSE /\ shiftdown = FALSE /\ counter = 0
  /\ acknowledged = TRUE
  /\ text = << >> /\ struck = Nothing /\ held = {} /\ events = 0 /\ slipped = FALSE

(* The pulse on the processor's reset line starts the machine anew.  It is  *)
(* still in init_keyboard(): nothing has been typed.                        *)
Restart ==
  /\ pc = "reset" /\ pc' = "off"
  /\ device' \in Devices(device.faults) /\ coming' = << >>
  /\ scan_set' = 0
  /\ struck' = Nothing /\ held' = {} /\ slipped' = FALSE
  /\ UNCHANGED <<commandVars, scancode, capslock, shiftdown, counter, acknowledged,
                 text, events>>

SendCommand(cmd, op, return) ==
  /\ command' = cmd /\ operand' = op /\ after' = return
  /\ pc' = "echo"

(* keyboard_send_command: responsivity_test, *)
Echo ==
  /\ pc = "echo"
  /\ \E d \in Out(device, PS2_KEYBOARD_ECHO_RESPONSE) :
       /\ device' = In(d)
       /\ pc' = IF In(d).last = PS2_KEYBOARD_ECHO_RESPONSE THEN "send" ELSE after
  /\ UNCHANGED <<coming, commandVars, scancode, stateVars, acknowledged, historyVars>>

(* then one byte read, and the command with its operand. *)
Send ==
  /\ pc = "send"
  /\ device' \in IF In(device).last = PS2_KEYBOARD_ERROR THEN {In(device)}
                 ELSE OutBoth(In(device), command, operand)
  /\ tries' = 0 /\ pc' = "await"
  /\ UNCHANGED <<coming, after, command, operand, scancode, stateVars, acknowledged,
                 historyVars>>

(* The loop, one turn.  A byte that is asked for again is written to the    *)
(* command port, where f0 is a pulse on the reset line and ed has no effect.*)
Await_NoLimit ==
  LET st    == device.last
      again == st = PS2_KEYBOARD_RESEND
  IN  /\ pc = "await"
      /\ tries' = IF again THEN tries + 1 ELSE tries
      /\ \/ /\ st \in {PS2_KEYBOARD_ACK, PS2_KEYBOARD_ERROR}
            /\ pc' = after /\ UNCHANGED device
         \/ /\ again /\ command = SCANCODES
            /\ pc' = "reset" /\ UNCHANGED device
         \/ /\ st \notin {PS2_KEYBOARD_ACK, PS2_KEYBOARD_ERROR}
            /\ ~(again /\ command = SCANCODES)
            /\ device' = In(device) /\ UNCHANGED pc
      /\ UNCHANGED <<coming, after, command, operand, scancode, stateVars, acknowledged,
                     historyVars>>

Await ==
  LET st    == device.last
      again == st = PS2_KEYBOARD_RESEND /\ tries < 1
  IN  /\ pc = "await"
      /\ tries' = IF again THEN tries + 1 ELSE tries
      /\ \/ /\ st \in {PS2_KEYBOARD_ACK, PS2_KEYBOARD_ERROR}
            /\ pc' = after /\ UNCHANGED device
         \/ /\ again /\ command = SCANCODES
            /\ pc' = "reset" /\ UNCHANGED device
         \/ /\ st \notin {PS2_KEYBOARD_ACK, PS2_KEYBOARD_ERROR}
            /\ ~(again /\ command = SCANCODES)
            /\ device' = In(device) /\ UNCHANGED pc
      /\ UNCHANGED <<coming, after, command, operand, scancode, stateVars, acknowledged,
                     historyVars>>

Leds_Late == IF capslock THEN CAPS_LED ELSE 0
Leds == IF capslock' THEN CAPS_LED ELSE 0

(* keyboard_sync_leds *)
SyncLeds(return) == SendCommand(SET_LEDS, Leds, return)

-----------------------------------------------------------------------------
(* init_keyboard *)
InitKeyboard ==
  /\ pc = "off" /\ pc' = "translation"
  /\ UNCHANGED <<lineVars, commandVars, scancode, stateVars, acknowledged, historyVars>>

(* ps2_keyboard_set_scancodes.  ps2_keyboard_disable_set_translation passes *)
(* 3 for a command, so that the configuration it writes back is whatever    *)
(* byte is there, without the bit of the translation.                       *)
SetScancodes ==
  /\ pc = "translation"
  /\ device' = [In(device) EXCEPT !.translates = FALSE]
  /\ scan_set' = SUPPOTED_SET
  /\ SendCommand(SCANCODES, SUPPOTED_SET, "verify")
  /\ UNCHANGED <<coming, tries, scancode, capslock, shiftdown, counter, acknowledged,
                 historyVars>>

(* Its end: it calls itself until the device reports the set.  Then         *)
(* keyboard_reset_state.                                                    *)
Verify_Once ==
  /\ pc = "verify"
  /\ \E d \in OutBoth(device, SCANCODES, 0) : device' = In(In(d))
  /\ capslock' = FALSE /\ shiftdown' = FALSE /\ SyncLeds("install")
  /\ UNCHANGED <<coming, tries, scancode, scan_set, counter, acknowledged, historyVars>>

Verify ==
  /\ pc = "verify"
  /\ \E d \in OutBoth(device, SCANCODES, 0) : device' = In(In(d))
  /\ IF device'.last # scan_set
     THEN pc' = "translation" /\ UNCHANGED <<after, command, operand, capslock, shiftdown>>
     ELSE capslock' = FALSE /\ shiftdown' = FALSE /\ SyncLeds("install")
  /\ UNCHANGED <<coming, tries, scancode, scan_set, counter, acknowledged, historyVars>>

(* The end of init_keyboard; see Interrupts for the vector. *)
Install ==
  /\ pc = "install" /\ pc' = "idle"
  /\ \E d \in Out(device, PS2_KEYBOARD_ECHO_RESPONSE) : device' = In(d)
  /\ UNCHANGED <<coming, commandVars, scancode, stateVars, acknowledged, historyVars>>

-----------------------------------------------------------------------------
Interrupt_Deaf ==
  /\ pc = "idle"
  /\ scancode' = << >>
  /\ IF counter < COUNT_LIMIT THEN pc' = "read" /\ acknowledged' = FALSE
     ELSE UNCHANGED <<pc, acknowledged>>
  /\ slipped' = (slipped \/ coming # << >>)
  /\ struck' = IF slipped' THEN Nothing ELSE struck
  /\ UNCHANGED <<lineVars, commandVars, stateVars, text, held, events>>

(* keyboard_handler.  A key whose bytes have not all arrived is cut. *)
Interrupt ==
  /\ pc = "idle"
  /\ scancode' = << >>
  /\ pc' = IF scan_set = SUPPOTED_SET THEN "read" ELSE "idle"
  /\ acknowledged' = FALSE
  /\ slipped' = (slipped \/ coming # << >>)
  /\ struck' = IF slipped' THEN Nothing ELSE struck
  /\ UNCHANGED <<lineVars, commandVars, stateVars, text, held, events>>

next_byte_check_First(s) ==
  LET bytes == Len(s)
  IN  CASE bytes = 1 -> s[1] \in {\hE0, \hF0, \hE1}
        [] bytes = 2 -> s[2] = \hF0
        [] OTHER     -> FALSE

next_byte_check_Endless(s) == Len(s) = 8 \/ s[1] \in {\hE0, \hF0, \hE1}

next_byte_check(s) ==
  LET bytes == Len(s)
  IN  CASE bytes = 1 -> s[1] \in {\hE0, \hF0, \hE1}
        [] bytes = 2 -> \/ s[2] = \hF0
                        \/ s = <<\hE0, \h12>> \/ s = <<\hE1, \h14>>
        [] bytes = 3 -> s[3] \in {\h77, \h7C, \hE0}
        [] bytes = 4 -> s[4] \in {\hE0, \hE1}
        [] bytes = 5 -> s[5] = \hF0
        [] bytes = 6 -> s[6] = \h14
        [] bytes = 7 -> s[7] = \hF0
        [] OTHER     -> FALSE

(* ps2_keyboard_get_scancode: 0 bytes if more than eight are needed, and    *)
(* then the handler returns. *)
GetScancode ==
  LET s == Append(scancode, device'.last)
  IN  /\ pc = "read"
      /\ device' = In(device) /\ scancode' = s
      /\ pc' = IF ~next_byte_check(s) THEN "code" ELSE IF Len(s) < 8 THEN "read" ELSE "idle"
      /\ UNCHANGED <<coming, commandVars, stateVars, acknowledged, historyVars>>

(* analayze_ascii, for a code of one byte or of several. *)
Char(s) ==
  LET code == s[1]
  IN  CASE Len(s) = 1 /\ code \in LetterCodes ->
             <<[char |-> code, upper |-> shiftdown \/ capslock]>>
        [] Len(s) = 1 /\ code \in SymbolCodes -> <<[char |-> code, upper |-> shiftdown]>>
        [] Len(s) = 1 /\ code \in {SPACE, ENTER, BACKSPACE} -> <<[char |-> code, upper |-> FALSE]>>
        [] OTHER -> << >>

HandleScancode ==
  /\ pc = "code"
  /\ IF counter = COUNT_LIMIT THEN UNCHANGED <<counter, text, shiftdown, capslock>>
     ELSE /\ counter' = counter + 1
          /\ text' = IF slipped THEN text ELSE text \o Char(scancode)
          /\ shiftdown' = (scancode = <<SHIFT>> \/ (shiftdown /\ scancode # <<\hF0, SHIFT>>))
          /\ capslock' = IF scancode = <<CAPSLOCK>> THEN ~capslock ELSE capslock
  /\ struck' = Nothing
  /\ SyncLeds("end")
  /\ UNCHANGED <<lineVars, tries, scancode, scan_set, acknowledged, held, events, slipped>>

(* pic_send_eoi *)
HandlerEnd ==
  /\ pc = "end" /\ pc' = "idle" /\ acknowledged' = TRUE
  /\ UNCHANGED <<lineVars, commandVars, scancode, stateVars, historyVars>>

-----------------------------------------------------------------------------
DriverStep ==
  \/ InitKeyboard \/ SetScancodes \/ Verify \/ Install
  \/ Echo \/ Send \/ Await
  \/ GetScancode \/ HandleScancode \/ HandlerEnd

Next ==
  \/ \E key \in Keys, down \in BOOLEAN : Strike(key, down)
  \/ Arrive \/ Restart \/ Interrupt \/ DriverStep

Spec == Init /\ [][Next]_vars

(* The driver runs until it returns, and line 0, the timer's, keeps asking  *)
(* for its handler.                                                         *)
FairSpec ==
  Spec /\ WF_vars(DriverStep) /\ WF_vars(Interrupt) /\ WF_vars(Arrive) /\ WF_vars(Restart)

-----------------------------------------------------------------------------
TypeOK ==
  /\ device.last \in 0 .. 255 /\ device.set \in 1 .. 3 /\ device.leds \in 0 .. 7
  /\ device.faults \in 0 .. MAX_FAULTS /\ Len(device.answer) <= 2
  /\ pc \in {"off", "translation", "verify", "install", "idle", "read", "code", "end",
             "echo", "send", "await", "reset"}
  /\ after \in {"off", "verify", "install", "end"} /\ tries \in 0 .. 1
  /\ Len(scancode) <= 8 /\ counter \in 0 .. COUNT_LIMIT
  /\ scan_set \in {0, SUPPOTED_SET} /\ capslock \in BOOLEAN /\ shiftdown \in BOOLEAN

(* The driver and the device speak of the same set of scan codes, and       *)
(* nobody translates it, however often the device has refused a byte while  *)
(* the two were agreeing.                                                   *)
SetAgreed ==
  pc = "idle" \/ after = "end" => device.set = scan_set /\ ~device.translates

(* Between interrupts the light of caps lock shows what the driver makes of *)
(* the next letter, whatever keys came in the middle of a handler, as long  *)
(* as the device refuses nothing.                                           *)
LedsFollow ==
  pc = "idle" /\ device.faults = 0 => (device.leds = CAPS_LED <=> capslock)

(* No way through the handler leaves without its end of interrupt: neither  *)
(* does a code come out as no bytes at all, even when it is read from an    *)
(* empty port, nor does the device's refusal cut the handler short.         *)
Acknowledged == pc = "idle" => acknowledged

Keyboardist ==
  INSTANCE Typist WITH
    Letters <- [key \in {"a"} |-> Code[key]],
    Symbols <- [key \in {"two"} |-> Code[key]],
    Plain <- [key \in {"space", "enter", "back"} |-> Code[key]],
    shift <- shiftdown, caps <- capslock, codes <- counter

(* As long as no key comes while the driver is busy and no code is cut, the *)
(* driver types what the keys say: codes of one to eight bytes are told     *)
(* apart, and nothing of shift, caps lock and the interrupts in between is  *)
(* lost.                                                                    *)
TypesKeys ==
  /\ Keyboardist!Init
  /\ [][slipped' \/ Keyboardist!Next]_(Keyboardist!vars)

(* The driver returns to the program, and all that has arrived is read;     *)
(* but for one case: it waits for ever when the device asks for a byte of a *)
(* command again.                                                           *)
Served ==
  \/ []<>(pc = "idle" /\ coming = << >> /\ device.keys = << >>)
  \/ <>[](pc = "await" /\ tries = 1)
=============================================================================
