---------------------------- MODULE KeyboardProofs ----------------------------
(***************************************************************************)
(* Proofs about module Keyboard, for any of its keys and any number of     *)
(* events and of bytes that the device refuses.                            *)
(***************************************************************************)
EXTENDS Keyboard, SequenceTheorems, TLAPS

(* Bytes of keys: none of them is an answer, or the number of a set.         *)
KeyBytes == 3 .. \hF0

(* What is true of the device at every port access, *)
IsDevice(d) ==
  /\ DOMAIN d = {"answer", "keys", "last", "expects", "leds", "set", "translates", "faults"}
  /\ d.answer \in Seq(0 .. 255) /\ Len(d.answer) <= 2
  /\ d.keys \in Seq(KeyBytes) /\ d.last \in 0 .. 255
  /\ d.leds \in {0, CAPS_LED} /\ d.set \in {1, SUPPOTED_SET}
  /\ d.translates \in BOOLEAN /\ d.faults \in 0 .. MAX_FAULTS

(* and between the driver's steps: no command waits for its operand.         *)
Idle(d) == IsDevice(d) /\ d.expects = "command"

Typed ==
  /\ Idle(device) /\ coming \in Seq(KeyBytes)
  /\ pc \in {"off", "translation", "verify", "install", "idle", "read", "code", "end",
             "echo", "send", "await", "reset"}
  /\ after \in {"off", "verify", "install", "end"} /\ tries \in 0 .. 1
  /\ scancode \in Seq(0 .. 255) /\ Len(scancode) <= 8 /\ counter \in 0 .. COUNT_LIMIT
  /\ scan_set \in {0, SUPPOTED_SET} /\ capslock \in BOOLEAN /\ shiftdown \in BOOLEAN
  /\ held \subseteq Keys /\ events \in 0 .. MAX_EVENTS

(* Which command is under way, and where to.                                 *)
Phases ==
  /\ pc \in {"off", "translation", "verify", "reset"} => after \in {"off", "verify"}
  /\ pc = "install" => after = "install"
  /\ pc \in {"idle", "read", "code"} => after \in {"install", "end"}
  /\ pc = "end" => after = "end"
  /\ pc \in {"echo", "send", "await"} => after # "off"
  /\ after = "verify" => command = SCANCODES /\ operand = SUPPOTED_SET
  /\ after \in {"install", "end"} =>
       command = SET_LEDS /\ operand = IF capslock THEN CAPS_LED ELSE 0

(* From the test of the set on, the device sends it as it is.                *)
SetKept ==
  /\ pc \notin {"off", "translation", "reset"} => scan_set = SUPPOTED_SET
  /\ after \in {"install", "end"} => device.set = SUPPOTED_SET /\ ~device.translates

(* Only the handler owes an end of interrupt, and it has room for a byte.    *)
HandlerKept ==
  /\ acknowledged \/ pc \in {"read", "code", "end"}
       \/ (pc \in {"echo", "send", "await"} /\ after = "end")
  /\ pc = "read" => Len(scancode) < 8

(* A device that refuses nothing hears of every change of caps lock.         *)
LightKept ==
  device.faults = 0 =>
    /\ pc \in {"install", "idle", "read", "code", "end"} => (device.leds = CAPS_LED <=> capslock)
    /\ pc = "send" => device.last = PS2_KEYBOARD_ECHO_RESPONSE /\ device.answer = << >>
    /\ pc = "await" /\ after # "verify" => device.leds = operand

IInv == Typed /\ Phases /\ SetKept /\ HandlerKept /\ LightKept

-----------------------------------------------------------------------------
(* The codes of the keys are sequences of such bytes.                        *)
LEMMA BytesTyped ==
  ASSUME NEW key \in Keys, NEW down \in BOOLEAN
  PROVE  Bytes(key, down) \in Seq(KeyBytes) /\ Len(Bytes(key, down)) \in 1 .. 8
<1> DEFINE bytes == Bytes(key, down)
           Good == bytes \in Seq(KeyBytes) /\ Len(bytes) \in 1 .. 8
<1>1. CASE key \in DOMAIN Code
  <2>1. Code[key] \in KeyBytes /\ key \notin {"arrow", "print", "pause"}
    BY <1>1 DEF Code, KeyBytes, SPACE, ENTER, BACKSPACE, SHIFT, CAPSLOCK
  <2>2. CASE down
    <3>1. bytes = <<Code[key]>>
      BY <2>1, <2>2 DEF Bytes
    <3> QED
      BY <2>1, <3>1
  <2>3. CASE ~down
    <3>1. bytes = <<\hF0, Code[key]>> /\ \hF0 \in KeyBytes
      BY <2>1, <2>3 DEF Bytes, KeyBytes
    <3> QED
      BY <2>1, <3>1
  <2> QED
    BY <2>2, <2>3
<1>2. CASE key = "arrow"
  <2>1. bytes = IF down THEN <<\hE0, \h75>> ELSE <<\hE0, \hF0, \h75>>
    BY <1>2 DEF Bytes
  <2>2. CASE down
    BY <2>1, <2>2 DEF KeyBytes
  <2>3. CASE ~down
    BY <2>1, <2>3 DEF KeyBytes
  <2> QED
    BY <2>2, <2>3
<1>3. CASE key = "print" /\ "shift" \in held
  <2>1. bytes = IF down THEN <<\hE0, \h7C>> ELSE <<\hE0, \hF0, \h7C>>
    BY <1>3 DEF Bytes
  <2>2. CASE down
    BY <2>1, <2>2 DEF KeyBytes
  <2>3. CASE ~down
    BY <2>1, <2>3 DEF KeyBytes
  <2> QED
    BY <2>2, <2>3
<1>4. CASE key = "print" /\ "shift" \notin held
  <2>1. bytes = IF down THEN <<\hE0, \h12, \hE0, \h7C>>
                ELSE <<\hE0, \hF0, \h7C, \hE0, \hF0, \h12>>
    BY <1>4 DEF Bytes
  <2>2. CASE down
    BY <2>1, <2>2 DEF KeyBytes
  <2>3. CASE ~down
    BY <2>1, <2>3 DEF KeyBytes
  <2> QED
    BY <2>2, <2>3
<1>5. CASE key = "pause"
  <2>1. bytes = <<\hE1, \h14, \h77, \hE1, \hF0, \h14, \hF0, \h77>>
    BY <1>5 DEF Bytes
  <2> QED
    BY <2>1 DEF KeyBytes
<1> QED
  BY <1>1, <1>2, <1>3, <1>4, <1>5, KeysAssumption

(* Reading changes nothing but the answer, the keys and the last byte.       *)
LEMMA InTyped ==
  ASSUME NEW d, IsDevice(d)
  PROVE  /\ IsDevice(In(d)) /\ In(d).expects = d.expects /\ In(d).leds = d.leds
         /\ In(d).set = d.set /\ In(d).translates = d.translates /\ In(d).faults = d.faults
<1>1. CASE d.answer # << >>
  <2>1. /\ Head(d.answer) \in 0 .. 255 /\ Tail(d.answer) \in Seq(0 .. 255)
        /\ Len(Tail(d.answer)) = Len(d.answer) - 1 /\ Len(d.answer) \in Nat
    BY <1>1, HeadTailProperties DEF IsDevice
  <2> QED
    BY <1>1, <2>1 DEF In, IsDevice
<1>2. CASE d.answer = << >> /\ d.keys # << >>
  <2>1. Head(d.keys) \in KeyBytes /\ Tail(d.keys) \in Seq(KeyBytes)
    BY <1>2, HeadTailProperties DEF IsDevice
  <2>2. KeyBytes \subseteq 0 .. 255
    BY DEF KeyBytes
  <2> QED
    BY <1>2, <2>1, <2>2 DEF In, IsDevice
<1>3. CASE d.answer = << >> /\ d.keys = << >>
  BY <1>3 DEF In, IsDevice
<1> QED
  BY <1>1, <1>2, <1>3

(* The byte read is the answer's first, else the first of the keys, else the *)
(* last one again.                                                           *)
LEMMA InReads ==
  ASSUME NEW d, IsDevice(d)
  PROVE  /\ d.answer # << >> => In(d).last = d.answer[1] /\ In(d).keys = d.keys
         /\ Len(d.answer) = 2 => Len(In(d).answer) = 1 /\ In(d).answer[1] = d.answer[2]
         /\ Len(d.answer) \in 0 .. 1 => In(d).answer = << >>
         /\ d.answer = << >> => In(d).last \in KeyBytes \cup {d.last}
<1>1. CASE d.answer # << >>
  <2>1. /\ Tail(d.answer) \in Seq(0 .. 255) /\ Len(Tail(d.answer)) = Len(d.answer) - 1
        /\ Len(d.answer) \in 1 .. 2 /\ Head(d.answer) = d.answer[1]
        /\ \A i \in 1 .. Len(Tail(d.answer)) : Tail(d.answer)[i] = d.answer[i + 1]
    <3>1. d.answer \in Seq(0 .. 255) /\ Len(d.answer) <= 2
      BY DEF IsDevice
    <3>2. Len(d.answer) \in Nat \ {0}
      BY <1>1, <3>1, EmptySeq
    <3>3. \A n \in Nat \ {0} : n <= 2 => n \in 1 .. 2
      OBVIOUS
    <3>4. Len(d.answer) \in 1 .. 2
      BY <3>1, <3>2, <3>3, Zenon
    <3> QED
      BY <1>1, <3>1, <3>4, HeadTailProperties
  <2>2. Len(Tail(d.answer)) = 0 => Tail(d.answer) = << >>
    BY <2>1, EmptySeq
  <2>3. In(d).answer = Tail(d.answer) /\ In(d).last = Head(d.answer) /\ In(d).keys = d.keys
    BY <1>1 DEF In, IsDevice
  <2> QED
    BY <1>1, <2>1, <2>2, <2>3
<1>2. CASE d.answer = << >> /\ d.keys # << >>
  <2>1. Head(d.keys) \in KeyBytes
    BY <1>2, HeadTailProperties DEF IsDevice
  <2>2. In(d).answer = << >> /\ In(d).last = Head(d.keys)
    BY <1>2 DEF In, IsDevice
  <2> QED
    BY <1>2, <2>1, <2>2
<1>3. CASE d.answer = << >> /\ d.keys = << >>
  BY <1>3 DEF In
<1> QED
  BY <1>1, <1>2, <1>3

(* A device that differs in these fields only.                               *)
Differs(e, d, answer, expects, leds, set) ==
  /\ DOMAIN e = DOMAIN d /\ e.answer = answer /\ e.expects = expects
  /\ e.leds = leds /\ e.set = set /\ e.keys = d.keys /\ e.last = d.last
  /\ e.translates = d.translates /\ e.faults = d.faults

LEMMA DiffersTyped ==
  ASSUME NEW d, IsDevice(d), NEW e, NEW expects,
         NEW answer \in Seq(0 .. 255), Len(answer) <= 2, answer # << >>,
         NEW leds \in {0, CAPS_LED}, NEW set \in {1, SUPPOTED_SET},
         Differs(e, d, answer, expects, leds, set)
  PROVE  /\ IsDevice(e) /\ e.answer # << >> /\ e.keys = d.keys /\ e.last = d.last
         /\ e.translates = d.translates /\ e.faults = d.faults
  BY DEF IsDevice, Differs

(* What the device makes of a byte.                                          *)
LEMMA ObeyedIs ==
  ASSUME NEW d, IsDevice(d), NEW byte
  PROVE  /\ d.expects = "leds" =>
              Differs(Obeyed(d, byte), d, <<PS2_KEYBOARD_ACK>>, "command", byte, d.set)
         /\ d.expects = "set" /\ byte = 0 =>
              Differs(Obeyed(d, byte), d, <<PS2_KEYBOARD_ACK, Reported(d)>>, "command", d.leds, d.set)
         /\ d.expects = "set" /\ byte # 0 =>
              Differs(Obeyed(d, byte), d, <<PS2_KEYBOARD_ACK>>, "command", d.leds, byte)
         /\ d.expects = "command" /\ byte = PS2_KEYBOARD_ECHO_RESPONSE =>
              Differs(Obeyed(d, byte), d, <<byte>>, "command", d.leds, d.set)
         /\ d.expects = "command" /\ byte = SET_LEDS =>
              Differs(Obeyed(d, byte), d, <<PS2_KEYBOARD_ACK>>, "leds", d.leds, d.set)
         /\ d.expects = "command" /\ byte = SCANCODES =>
              Differs(Obeyed(d, byte), d, <<PS2_KEYBOARD_ACK>>, "set", d.leds, d.set)
         /\ d.expects = "command" /\ byte \notin {PS2_KEYBOARD_ECHO_RESPONSE, SET_LEDS, SCANCODES} =>
              Differs(Obeyed(d, byte), d, <<PS2_KEYBOARD_RESEND>>, "command", d.leds, d.set)
<1>1. /\ PS2_KEYBOARD_ECHO_RESPONSE # SET_LEDS /\ PS2_KEYBOARD_ECHO_RESPONSE # SCANCODES
      /\ SET_LEDS # SCANCODES
  BY DEF PS2_KEYBOARD_ECHO_RESPONSE, SET_LEDS, SCANCODES
<1>2. DOMAIN d = {"answer", "keys", "last", "expects", "leds", "set", "translates", "faults"}
  BY DEF IsDevice
<1>3. CASE d.expects = "leds"
  <2>1. Obeyed(d, byte) = [d EXCEPT !.leds = byte, !.expects = "command", !.answer = <<PS2_KEYBOARD_ACK>>]
    BY <1>1, <1>3 DEF Obeyed
  <2> QED
    BY <1>1, <1>2, <1>3, <2>1 DEF Differs
<1>4. CASE d.expects = "set" /\ byte = 0
  <2>1. Obeyed(d, byte) = [d EXCEPT !.expects = "command", !.answer = <<PS2_KEYBOARD_ACK, Reported(d)>>]
    BY <1>1, <1>4 DEF Obeyed
  <2> QED
    BY <1>1, <1>2, <1>4, <2>1 DEF Differs
<1>5. CASE d.expects = "set" /\ byte # 0
  <2>1. Obeyed(d, byte) = [d EXCEPT !.set = byte, !.expects = "command", !.answer = <<PS2_KEYBOARD_ACK>>]
    BY <1>1, <1>5 DEF Obeyed
  <2> QED
    BY <1>1, <1>2, <1>5, <2>1 DEF Differs
<1>6. CASE d.expects = "command" /\ byte = PS2_KEYBOARD_ECHO_RESPONSE
  <2>1. Obeyed(d, byte) = [d EXCEPT !.answer = <<byte>>]
    BY <1>1, <1>6 DEF Obeyed
  <2> QED
    BY <1>1, <1>2, <1>6, <2>1 DEF Differs
<1>7. CASE d.expects = "command" /\ byte = SET_LEDS
  <2>1. Obeyed(d, byte) = [d EXCEPT !.expects = "leds", !.answer = <<PS2_KEYBOARD_ACK>>]
    BY <1>1, <1>7 DEF Obeyed
  <2> QED
    BY <1>1, <1>2, <1>7, <2>1 DEF Differs
<1>8. CASE d.expects = "command" /\ byte = SCANCODES
  <2>1. Obeyed(d, byte) = [d EXCEPT !.expects = "set", !.answer = <<PS2_KEYBOARD_ACK>>]
    BY <1>1, <1>8 DEF Obeyed
  <2> QED
    BY <1>1, <1>2, <1>8, <2>1 DEF Differs
<1>9. CASE d.expects = "command" /\ byte \notin {PS2_KEYBOARD_ECHO_RESPONSE, SET_LEDS, SCANCODES}
  <2>1. Obeyed(d, byte) = [d EXCEPT !.answer = <<PS2_KEYBOARD_RESEND>>]
    BY <1>1, <1>9 DEF Obeyed
  <2> QED
    BY <1>1, <1>2, <1>9, <2>1 DEF Differs
<1> QED
  BY <1>3, <1>4, <1>5, <1>6, <1>7, <1>8, <1>9, Zenon

LEMMA ObeyedTyped ==
  ASSUME NEW d, IsDevice(d), NEW byte \in 0 .. 255,
         d.expects \in {"command", "leds", "set"},
         d.expects = "leds" => byte \in {0, CAPS_LED},
         d.expects = "set" => byte \in {0, SUPPOTED_SET}
  PROVE  /\ IsDevice(Obeyed(d, byte)) /\ Obeyed(d, byte).answer # << >>
         /\ Obeyed(d, byte).keys = d.keys /\ Obeyed(d, byte).last = d.last
         /\ Obeyed(d, byte).translates = d.translates /\ Obeyed(d, byte).faults = d.faults
<1>1. d.leds \in {0, CAPS_LED} /\ d.set \in {1, SUPPOTED_SET}
  BY DEF IsDevice
<1>2. /\ PS2_KEYBOARD_ACK \in 0 .. 255 /\ PS2_KEYBOARD_RESEND \in 0 .. 255
      /\ Reported(d) \in 0 .. 255
  BY <1>1 DEF PS2_KEYBOARD_ACK, PS2_KEYBOARD_RESEND, Reported, TRANSLATED, SUPPOTED_SET
<1> DEFINE Good == /\ IsDevice(Obeyed(d, byte)) /\ Obeyed(d, byte).answer # << >>
                   /\ Obeyed(d, byte).keys = d.keys /\ Obeyed(d, byte).last = d.last
                   /\ Obeyed(d, byte).translates = d.translates
                   /\ Obeyed(d, byte).faults = d.faults
<1>3. Good
  <2>1. CASE d.expects = "leds"
    <3> DEFINE answer == <<PS2_KEYBOARD_ACK>>
    <3>1. answer \in Seq(0 .. 255) /\ Len(answer) <= 2 /\ answer # << >>
      BY <1>2
    <3>2. Differs(Obeyed(d, byte), d, answer, "command", byte, d.set)
      BY <2>1, ObeyedIs
    <3> HIDE DEF answer
    <3> QED
      BY DiffersTyped, <1>1, <2>1, <3>1, <3>2
  <2>2. CASE d.expects = "set" /\ byte = 0
    <3> DEFINE answer == <<PS2_KEYBOARD_ACK, Reported(d)>>
    <3>1. answer \in Seq(0 .. 255) /\ Len(answer) <= 2 /\ answer # << >>
      BY <1>2
    <3>2. Differs(Obeyed(d, byte), d, answer, "command", d.leds, d.set)
      BY <2>2, ObeyedIs
    <3> HIDE DEF answer
    <3> QED
      BY DiffersTyped, <1>1, <2>2, <3>1, <3>2
  <2>3. CASE d.expects = "set" /\ byte # 0
    <3> DEFINE answer == <<PS2_KEYBOARD_ACK>>
    <3>1. answer \in Seq(0 .. 255) /\ Len(answer) <= 2 /\ answer # << >>
      BY <1>2
    <3>2. Differs(Obeyed(d, byte), d, answer, "command", d.leds, byte)
      BY <2>3, ObeyedIs
    <3> HIDE DEF answer
    <3> QED
      BY DiffersTyped, <1>1, <2>3, <3>1, <3>2
  <2>4. CASE d.expects = "command" /\ byte = PS2_KEYBOARD_ECHO_RESPONSE
    <3> DEFINE answer == <<byte>>
    <3>1. answer \in Seq(0 .. 255) /\ Len(answer) <= 2 /\ answer # << >>
      BY <1>2
    <3>2. Differs(Obeyed(d, byte), d, answer, "command", d.leds, d.set)
      BY <2>4, ObeyedIs
    <3> HIDE DEF answer
    <3> QED
      BY DiffersTyped, <1>1, <2>4, <3>1, <3>2
  <2>5. CASE d.expects = "command" /\ byte = SET_LEDS
    <3> DEFINE answer == <<PS2_KEYBOARD_ACK>>
    <3>1. answer \in Seq(0 .. 255) /\ Len(answer) <= 2 /\ answer # << >>
      BY <1>2
    <3>2. Differs(Obeyed(d, byte), d, answer, "leds", d.leds, d.set)
      BY <2>5, ObeyedIs
    <3> HIDE DEF answer
    <3> QED
      BY DiffersTyped, <1>1, <2>5, <3>1, <3>2
  <2>6. CASE d.expects = "command" /\ byte = SCANCODES
    <3> DEFINE answer == <<PS2_KEYBOARD_ACK>>
    <3>1. answer \in Seq(0 .. 255) /\ Len(answer) <= 2 /\ answer # << >>
      BY <1>2
    <3>2. Differs(Obeyed(d, byte), d, answer, "set", d.leds, d.set)
      BY <2>6, ObeyedIs
    <3> HIDE DEF answer
    <3> QED
      BY DiffersTyped, <1>1, <2>6, <3>1, <3>2
  <2>7. CASE d.expects = "command" /\ byte \notin {PS2_KEYBOARD_ECHO_RESPONSE, SET_LEDS, SCANCODES}
    <3> DEFINE answer == <<PS2_KEYBOARD_RESEND>>
    <3>1. answer \in Seq(0 .. 255) /\ Len(answer) <= 2 /\ answer # << >>
      BY <1>2
    <3>2. Differs(Obeyed(d, byte), d, answer, "command", d.leds, d.set)
      BY <2>7, ObeyedIs
    <3> HIDE DEF answer
    <3> QED
      BY DiffersTyped, <1>1, <2>7, <3>1, <3>2
  <2> QED
    BY <2>1, <2>2, <2>3, <2>4, <2>5, <2>6, <2>7
<1> QED
  BY <1>3

(* The same when it may refuse the byte.                                     *)
LEMMA OutTyped ==
  ASSUME NEW d, IsDevice(d), NEW byte \in 0 .. 255,
         d.expects \in {"command", "leds", "set"},
         d.expects = "leds" => byte \in {0, CAPS_LED},
         d.expects = "set" => byte \in {0, SUPPOTED_SET},
         NEW e \in Out(d, byte)
  PROVE  /\ IsDevice(e) /\ e.answer # << >>
         /\ e.translates = d.translates /\ e.keys = d.keys /\ e.last = d.last
         /\ \/ e = Obeyed(d, byte) /\ e.faults = d.faults
            \/ /\ e.faults = d.faults + 1 /\ e.expects = "command"
               /\ e.set = d.set /\ e.leds = d.leds /\ Len(e.answer) = 1
               /\ e.answer[1] \in {PS2_KEYBOARD_RESEND, PS2_KEYBOARD_ERROR}
<1>1. CASE e = Obeyed(d, byte)
  BY <1>1, ObeyedTyped
<1>2. CASE e # Obeyed(d, byte)
  <2>1. d.faults < MAX_FAULTS /\ e \in Refused(d)
    BY <1>2 DEF Out
  <2>2. PICK no \in {PS2_KEYBOARD_RESEND, PS2_KEYBOARD_ERROR} :
          e = [d EXCEPT !.expects = "command", !.answer = <<no>>, !.faults = @ + 1]
    BY <2>1 DEF Refused
  <2>3. <<no>> \in Seq(0 .. 255) /\ Len(<<no>>) = 1 /\ <<no>> # << >>
       /\ <<no>>[1] = no
    BY DEF PS2_KEYBOARD_RESEND, PS2_KEYBOARD_ERROR
  <2>4. d.faults + 1 \in 0 .. MAX_FAULTS
    BY <2>1, KeyboardAssumption DEF IsDevice
  <2> QED
    BY <2>2, <2>3, <2>4 DEF IsDevice
<1> QED
  BY <1>1, <1>2

(* The test whether it answers.                                              *)
LEMMA EchoOut ==
  ASSUME NEW d, Idle(d), NEW e \in Out(d, PS2_KEYBOARD_ECHO_RESPONSE)
  PROVE  /\ Idle(e) /\ e.set = d.set /\ e.leds = d.leds /\ e.translates = d.translates
         /\ e.faults \in {d.faults, d.faults + 1} /\ e.answer # << >>
         /\ e.faults = d.faults => e.answer = <<PS2_KEYBOARD_ECHO_RESPONSE>>
<1>1. IsDevice(d) /\ d.expects = "command" /\ d.faults \in Nat
  BY DEF Idle, IsDevice
<1>2. PS2_KEYBOARD_ECHO_RESPONSE \in 0 .. 255
  BY DEF PS2_KEYBOARD_ECHO_RESPONSE
<1>3. Differs(Obeyed(d, PS2_KEYBOARD_ECHO_RESPONSE), d, <<PS2_KEYBOARD_ECHO_RESPONSE>>,
              "command", d.leds, d.set)
  BY <1>1, ObeyedIs
<1>4. /\ IsDevice(e) /\ e.answer # << >> /\ e.translates = d.translates
      /\ \/ e = Obeyed(d, PS2_KEYBOARD_ECHO_RESPONSE) /\ e.faults = d.faults
         \/ /\ e.faults = d.faults + 1 /\ e.expects = "command"
            /\ e.set = d.set /\ e.leds = d.leds
  BY <1>1, <1>2, OutTyped
<1> QED
  BY <1>1, <1>3, <1>4 DEF Idle, Differs

(* A command and its operand, whichever of the two are refused.              *)
LEMMA LedsOut ==
  ASSUME NEW d, Idle(d), NEW op \in {0, CAPS_LED}, NEW e \in OutBoth(d, SET_LEDS, op)
  PROVE  /\ Idle(e) /\ e.set = d.set /\ e.translates = d.translates
         /\ e.faults \in d.faults .. d.faults + 2
         /\ e.faults = d.faults => e.leds = op
<1>1. IsDevice(d) /\ d.expects = "command" /\ d.faults \in Nat
  BY DEF Idle, IsDevice
<1>2. /\ SET_LEDS \in 0 .. 255 /\ op \in 0 .. 255
      /\ op \notin {PS2_KEYBOARD_ECHO_RESPONSE, SET_LEDS, SCANCODES}
  BY DEF PS2_KEYBOARD_ECHO_RESPONSE, SET_LEDS, SCANCODES, CAPS_LED
<1>3. PICK f \in Out(d, SET_LEDS) : e \in Out(f, op)
  BY DEF OutBoth
<1>4. Differs(Obeyed(d, SET_LEDS), d, <<PS2_KEYBOARD_ACK>>, "leds", d.leds, d.set)
  BY <1>1, ObeyedIs
<1>5. /\ IsDevice(f) /\ f.translates = d.translates /\ f.set = d.set
      /\ \/ f.expects = "leds" /\ f.faults = d.faults
         \/ f.expects = "command" /\ f.faults = d.faults + 1
  BY <1>1, <1>2, <1>4, OutTyped DEF Differs
<1>6. /\ f.expects = "leds" =>
           Differs(Obeyed(f, op), f, <<PS2_KEYBOARD_ACK>>, "command", op, f.set)
      /\ f.expects = "command" =>
           Differs(Obeyed(f, op), f, <<PS2_KEYBOARD_RESEND>>, "command", f.leds, f.set)
  BY <1>2, <1>5, ObeyedIs
<1>7. /\ IsDevice(e) /\ e.translates = f.translates
      /\ \/ e = Obeyed(f, op) /\ e.faults = f.faults
         \/ /\ e.faults = f.faults + 1 /\ e.expects = "command" /\ e.set = f.set
  <2>1. /\ f.expects \in {"command", "leds", "set"} /\ op \in 0 .. 255
        /\ f.expects = "leds" => op \in {0, CAPS_LED}
        /\ f.expects = "set" => op \in {0, SUPPOTED_SET}
    BY <1>2, <1>5
  <2> QED
    BY <1>3, <1>5, <2>1, OutTyped
<1> QED
  BY <1>1, <1>5, <1>6, <1>7 DEF Idle, Differs

LEMMA SetOut ==
  ASSUME NEW d, Idle(d), NEW e \in OutBoth(d, SCANCODES, SUPPOTED_SET)
  PROVE  /\ Idle(e) /\ e.leds = d.leds /\ e.translates = d.translates
         /\ e.faults \in d.faults .. d.faults + 2
<1>1. IsDevice(d) /\ d.expects = "command" /\ d.faults \in Nat
  BY DEF Idle, IsDevice
<1>2. /\ SCANCODES \in 0 .. 255 /\ SUPPOTED_SET \in 0 .. 255 /\ SUPPOTED_SET # 0
      /\ SUPPOTED_SET \notin {PS2_KEYBOARD_ECHO_RESPONSE, SET_LEDS, SCANCODES}
  BY DEF PS2_KEYBOARD_ECHO_RESPONSE, SET_LEDS, SCANCODES, SUPPOTED_SET
<1>3. PICK f \in Out(d, SCANCODES) : e \in Out(f, SUPPOTED_SET)
  BY DEF OutBoth
<1>4. Differs(Obeyed(d, SCANCODES), d, <<PS2_KEYBOARD_ACK>>, "set", d.leds, d.set)
  BY <1>1, ObeyedIs
<1>5. /\ IsDevice(f) /\ f.translates = d.translates /\ f.leds = d.leds
      /\ \/ f.expects = "set" /\ f.faults = d.faults
         \/ f.expects = "command" /\ f.faults = d.faults + 1
  BY <1>1, <1>2, <1>4, OutTyped DEF Differs
<1>6. /\ f.expects = "set" =>
           Differs(Obeyed(f, SUPPOTED_SET), f, <<PS2_KEYBOARD_ACK>>, "command", f.leds,
                   SUPPOTED_SET)
      /\ f.expects = "command" =>
           Differs(Obeyed(f, SUPPOTED_SET), f, <<PS2_KEYBOARD_RESEND>>, "command", f.leds, f.set)
  BY <1>2, <1>5, ObeyedIs
<1>7. /\ IsDevice(e) /\ e.translates = f.translates
      /\ \/ e = Obeyed(f, SUPPOTED_SET) /\ e.faults = f.faults
         \/ e.faults = f.faults + 1 /\ e.expects = "command" /\ e.leds = f.leds
  <2>1. /\ f.expects \in {"command", "leds", "set"} /\ SUPPOTED_SET \in 0 .. 255
        /\ f.expects = "leds" => SUPPOTED_SET \in {0, CAPS_LED}
        /\ f.expects = "set" => SUPPOTED_SET \in {0, SUPPOTED_SET}
    BY <1>2, <1>5
  <2> QED
    BY <1>3, <1>5, <2>1, OutTyped
<1> QED
  BY <1>1, <1>5, <1>6, <1>7 DEF Idle, Differs

(* The question for the set: the answer is the driver's number only from a   *)
(* device that uses it, and that nobody translates.                          *)
LEMMA ReportOut ==
  ASSUME NEW d, Idle(d), NEW e \in OutBoth(d, SCANCODES, 0)
  PROVE  /\ Idle(In(In(e))) /\ In(In(e)).leds = d.leds /\ In(In(e)).set = d.set
         /\ In(In(e)).translates = d.translates
         /\ In(In(e)).faults \in d.faults .. d.faults + 2
         /\ In(In(e)).last = SUPPOTED_SET => d.set = SUPPOTED_SET /\ ~d.translates
<1>1. IsDevice(d) /\ d.expects = "command" /\ d.faults \in Nat /\ d.translates \in BOOLEAN
  BY DEF Idle, IsDevice
<1>2. /\ SCANCODES \in 0 .. 255 /\ 0 \notin {PS2_KEYBOARD_ECHO_RESPONSE, SET_LEDS, SCANCODES}
  BY DEF PS2_KEYBOARD_ECHO_RESPONSE, SET_LEDS, SCANCODES
<1>3. PICK f \in Out(d, SCANCODES) : e \in Out(f, 0)
  BY DEF OutBoth
<1>4. Differs(Obeyed(d, SCANCODES), d, <<PS2_KEYBOARD_ACK>>, "set", d.leds, d.set)
  BY <1>1, ObeyedIs
<1>5. /\ IsDevice(f) /\ f.translates = d.translates /\ f.leds = d.leds /\ f.set = d.set
      /\ \/ f.expects = "set" /\ f.faults = d.faults
         \/ f.expects = "command" /\ f.faults = d.faults + 1
  BY <1>1, <1>2, <1>4, OutTyped DEF Differs
<1>6. /\ f.expects = "set" =>
           Differs(Obeyed(f, 0), f, <<PS2_KEYBOARD_ACK, Reported(f)>>, "command", f.leds, f.set)
      /\ f.expects = "command" =>
           Differs(Obeyed(f, 0), f, <<PS2_KEYBOARD_RESEND>>, "command", f.leds, f.set)
  BY <1>2, <1>5, ObeyedIs
<1>7. /\ IsDevice(e) /\ e.translates = f.translates /\ e.answer # << >>
      /\ \/ e = Obeyed(f, 0) /\ e.faults = f.faults
         \/ /\ e.faults = f.faults + 1 /\ e.expects = "command"
            /\ e.leds = f.leds /\ e.set = f.set /\ Len(e.answer) = 1
            /\ e.answer[1] \in {PS2_KEYBOARD_RESEND, PS2_KEYBOARD_ERROR}
  <2>1. /\ f.expects \in {"command", "leds", "set"} /\ 0 \in 0 .. 255
        /\ f.expects = "leds" => 0 \in {0, CAPS_LED}
        /\ f.expects = "set" => 0 \in {0, SUPPOTED_SET}
    BY <1>2, <1>5
  <2> QED
    BY <1>3, <1>5, <2>1, OutTyped
<1>8. Idle(e) /\ e.leds = d.leds /\ e.set = d.set /\ e.translates = d.translates
      /\ e.faults \in d.faults .. d.faults + 2
  BY <1>1, <1>5, <1>6, <1>7 DEF Idle, Differs
<1>9. /\ IsDevice(In(e)) /\ Idle(In(In(e))) /\ In(In(e)).leds = d.leds /\ In(In(e)).set = d.set
      /\ In(In(e)).translates = d.translates /\ In(In(e)).faults = e.faults
  BY <1>8, InTyped DEF Idle
<1>10. \/ Len(e.answer) = 2 /\ e.answer[2] = Reported(d)
       \/ Len(e.answer) = 1 /\ e.answer[1] \in {PS2_KEYBOARD_RESEND, PS2_KEYBOARD_ERROR}
  <2>1. Reported(f) = Reported(d)
    BY <1>5 DEF Reported
  <2>2. \A a, b : <<a, b>>[2] = b /\ Len(<<a, b>>) = 2 /\ <<a>>[1] = a /\ Len(<<a>>) = 1
    OBVIOUS
  <2>3. CASE f.expects = "set" /\ e = Obeyed(f, 0)
    <3>1. e.answer = <<PS2_KEYBOARD_ACK, Reported(d)>>
      BY <1>6, <2>1, <2>3 DEF Differs
    <3> QED
      BY <3>1
  <2>4. CASE f.expects = "command" /\ e = Obeyed(f, 0)
    <3>1. e.answer = <<PS2_KEYBOARD_RESEND>>
      BY <1>6, <2>4 DEF Differs
    <3> QED
      BY <3>1
  <2> QED
    BY <1>5, <1>7, <2>3, <2>4
<1>11. CASE Len(e.answer) = 2 /\ e.answer[2] = Reported(d)
  <2>1. In(e).answer # << >> /\ In(e).answer[1] = Reported(d)
    BY <1>8, <1>11, InReads, EmptySeq DEF Idle
  <2>2. In(In(e)).last = Reported(d)
    BY <1>9, <2>1, InReads
  <2>3. TRANSLATED # SUPPOTED_SET
    BY DEF TRANSLATED, SUPPOTED_SET
  <2> QED
    BY <1>1, <1>8, <1>9, <2>2, <2>3 DEF Reported
<1>12. CASE Len(e.answer) = 1 /\ e.answer[1] \in {PS2_KEYBOARD_RESEND, PS2_KEYBOARD_ERROR}
  <2>1. In(e).answer = << >> /\ In(e).last \in {PS2_KEYBOARD_RESEND, PS2_KEYBOARD_ERROR}
    BY <1>7, <1>12, InReads
  <2>2. In(In(e)).last \in KeyBytes \cup {PS2_KEYBOARD_RESEND, PS2_KEYBOARD_ERROR}
    BY <1>9, <2>1, InReads
  <2>3. SUPPOTED_SET \notin KeyBytes \cup {PS2_KEYBOARD_RESEND, PS2_KEYBOARD_ERROR}
    BY DEF SUPPOTED_SET, KeyBytes, PS2_KEYBOARD_RESEND, PS2_KEYBOARD_ERROR
  <2> QED
    BY <1>8, <1>9, <2>2, <2>3
<1> QED
  BY <1>10, <1>11, <1>12

-----------------------------------------------------------------------------
(* A device that was switched on.                                            *)
LEMMA DevicesTyped ==
  ASSUME NEW n \in 0 .. MAX_FAULTS, NEW d \in Devices(n)
  PROVE  Idle(d) /\ d.faults = n
<1>1. << >> \in Seq(0 .. 255) /\ << >> \in Seq(KeyBytes) /\ Len(<< >>) = 0
  BY EmptySeq
<1>2. d \in [answer : {<< >>}, keys : {<< >>}, last : {0, \h47}, expects : {"command"},
             leds : {0}, set : {1, SUPPOTED_SET}, translates : {TRUE}, faults : {n}]
  BY DEF Devices
<1>3. /\ DOMAIN d = {"answer", "keys", "last", "expects", "leds", "set", "translates", "faults"}
      /\ d.answer = << >> /\ d.keys = << >> /\ d.last \in {0, \h47} /\ d.expects = "command"
      /\ d.leds = 0 /\ d.set \in {1, SUPPOTED_SET} /\ d.translates = TRUE /\ d.faults = n
  BY <1>2
<1> HIDE <1>2
<1>4. d.answer \in Seq(0 .. 255) /\ Len(d.answer) <= 2 /\ d.keys \in Seq(KeyBytes)
  BY <1>1, <1>3
<1>5. d.last \in 0 .. 255 /\ d.translates \in BOOLEAN /\ d.faults \in 0 .. MAX_FAULTS
  <2>1. d.last \in 0 .. 255
    BY <1>3
  <2> QED
    BY <1>3, <2>1, Zenon
<1> QED
  BY <1>3, <1>4, <1>5 DEF Idle, IsDevice

LEMMA InitInv == Init => IInv
<1> SUFFICES ASSUME Init PROVE IInv
  OBVIOUS
<1>1. Idle(device)
  BY KeyboardAssumption, DevicesTyped DEF Init
<1>2. << >> \in Seq(0 .. 255) /\ << >> \in Seq(KeyBytes) /\ Len(<< >>) = 0
  BY EmptySeq
<1>3. Typed
  <2>1. scancode \in Seq(0 .. 255) /\ Len(scancode) <= 8 /\ coming \in Seq(KeyBytes)
    BY <1>2 DEF Init
  <2>2. counter \in 0 .. COUNT_LIMIT /\ events \in 0 .. MAX_EVENTS
    BY KeyboardAssumption DEF Init
  <2>3. capslock \in BOOLEAN /\ shiftdown \in BOOLEAN /\ scan_set \in {0, SUPPOTED_SET}
    BY Zenon DEF Init
  <2>4. tries \in 0 .. 1 /\ held \subseteq Keys
    BY DEF Init
  <2> QED
    BY <1>1, <2>1, <2>2, <2>3, <2>4 DEF Init, Typed
<1>4. Phases /\ SetKept /\ HandlerKept /\ LightKept
  BY DEF Init, Phases, SetKept, HandlerKept, LightKept
<1> QED
  BY <1>3, <1>4 DEF IInv

(* Keys that are struck and bytes that arrive, at any moment, *)
LEMMA KeysInv ==
  ASSUME IInv, Arrive \/ \E key \in Keys, down \in BOOLEAN : Strike(key, down)
  PROVE  IInv'
<1>1. Idle(device) /\ coming \in Seq(KeyBytes) /\ events \in 0 .. MAX_EVENTS /\ held \subseteq Keys
  BY DEF IInv, Typed
<1>2. PICK more \in Seq(KeyBytes) :
        /\ device' = [device EXCEPT !.keys = @ \o more]
        /\ coming' \in Seq(KeyBytes) /\ events' \in 0 .. MAX_EVENTS /\ held' \subseteq Keys
        /\ UNCHANGED <<pc, commandVars, scancode, stateVars, acknowledged>>
  <2>1. CASE Arrive
    <3>1. << >> \in Seq(KeyBytes)
      BY EmptySeq
    <3> QED
      BY <1>1, <2>1, <3>1 DEF Arrive, historyVars
  <2>2. CASE \E key \in Keys, down \in BOOLEAN : Strike(key, down)
    <3>1. PICK key \in Keys, down \in BOOLEAN : Strike(key, down)
      BY <2>2
    <3> DEFINE bytes == Bytes(key, down)
    <3>2. PICK n \in {1, Len(bytes)} :
            /\ device' = [device EXCEPT !.keys = @ \o SubSeq(bytes, 1, n)]
            /\ coming' = SubSeq(bytes, n + 1, Len(bytes))
      BY <3>1 DEF Strike
    <3>3. events' \in 0 .. MAX_EVENTS /\ held' \subseteq Keys
          /\ UNCHANGED <<pc, commandVars, scancode, stateVars, acknowledged>>
      BY <1>1, <3>1, KeyboardAssumption DEF Strike
    <3>4. bytes \in Seq(KeyBytes) /\ Len(bytes) \in 1 .. 8
      BY BytesTyped
    <3> HIDE DEF bytes
    <3>5. \A i \in 1 .. Len(bytes) : bytes[i] \in KeyBytes
      BY <3>4, ElementOfSeq
    <3>6. SubSeq(bytes, 1, n) \in Seq(KeyBytes)
      <4>1. 1 \in Int /\ n \in Int /\ \A i \in 1 .. n : bytes[i] \in KeyBytes
        BY <3>4, <3>5
      <4> QED
        BY <4>1, SubSeqProperties
    <3>7. SubSeq(bytes, n + 1, Len(bytes)) \in Seq(KeyBytes)
      <4>1. n + 1 \in Int /\ Len(bytes) \in Int /\ \A i \in n + 1 .. Len(bytes) : bytes[i] \in KeyBytes
        BY <3>4, <3>5
      <4> QED
        BY <4>1, SubSeqProperties
    <3> QED
      BY <3>2, <3>3, <3>6, <3>7
  <2> QED
    BY <2>1, <2>2
<1>3. device.keys \o more \in Seq(KeyBytes)
  BY <1>1, ConcatProperties DEF Idle, IsDevice
<1>4. /\ Idle(device') /\ device'.faults = device.faults /\ device'.leds = device.leds
      /\ device'.set = device.set /\ device'.translates = device.translates
      /\ device'.last = device.last /\ device'.answer = device.answer
  BY <1>1, <1>2, <1>3 DEF Idle, IsDevice
<1> USE <1>2, <1>4 DEF commandVars, stateVars
<1>5. Typed'
  BY DEF IInv, Typed
<1>6. Phases' /\ SetKept' /\ HandlerKept' /\ LightKept'
  BY DEF IInv, Phases, SetKept, HandlerKept, LightKept
<1> QED
  BY <1>5, <1>6 DEF IInv

(* the machine that starts anew, *)
LEMMA RestartInv == ASSUME IInv, Restart PROVE IInv'
<1>1. device.faults \in 0 .. MAX_FAULTS
  BY DEF IInv, Typed, Idle, IsDevice
<1>2. Idle(device') /\ device'.faults = device.faults
  BY <1>1, DevicesTyped DEF Restart
<1>3. << >> \in Seq(KeyBytes)
  BY EmptySeq
<1>4. Typed'
  BY <1>2, <1>3 DEF IInv, Typed, Restart, commandVars
<1>5. Phases' /\ SetKept' /\ HandlerKept' /\ LightKept'
  BY <1>2 DEF IInv, Phases, SetKept, HandlerKept, LightKept, Restart, commandVars
<1> QED
  BY <1>4, <1>5 DEF IInv

(* the start of the driver, *)
LEMMA InitKeyboardInv == ASSUME IInv, InitKeyboard PROVE IInv'
<1>1. Typed'
  BY DEF IInv, Typed, InitKeyboard, lineVars, commandVars, stateVars, historyVars
<1>2. Phases' /\ SetKept' /\ HandlerKept' /\ LightKept'
  BY DEF IInv, Phases, SetKept, HandlerKept, LightKept, InitKeyboard, lineVars, commandVars,
         stateVars, historyVars
<1> QED
  BY <1>1, <1>2 DEF IInv

LEMMA SetScancodesInv == ASSUME IInv, SetScancodes PROVE IInv'
<1>1. IsDevice(In(device)) /\ In(device).expects = "command"
  BY InTyped DEF IInv, Typed, Idle
<1>2. Idle(device')
  BY <1>1 DEF SetScancodes, Idle, IsDevice
<1>3. Typed'
  BY <1>2 DEF IInv, Typed, SetScancodes, SendCommand, historyVars
<1>4. Phases' /\ SetKept' /\ HandlerKept' /\ LightKept'
  BY DEF IInv, Phases, SetKept, HandlerKept, LightKept, SetScancodes, SendCommand, historyVars
<1> QED
  BY <1>3, <1>4 DEF IInv

(* the question for the set, *)
LEMMA VerifyInv == ASSUME IInv, Verify PROVE IInv'
<1>1. Idle(device) /\ pc = "verify" /\ scan_set = SUPPOTED_SET
  BY DEF IInv, Typed, Verify, SetKept
<1>2. /\ Idle(device') /\ device'.set = device.set /\ device'.translates = device.translates
      /\ device'.last = SUPPOTED_SET => device.set = SUPPOTED_SET /\ ~device.translates
  BY <1>1, ReportOut DEF Verify
<1>3. CASE device'.last # scan_set
  <2> USE <1>1, <1>2, <1>3 DEF Verify, historyVars
  <2>1. Typed'
    BY DEF IInv, Typed
  <2>2. Phases' /\ SetKept' /\ HandlerKept' /\ LightKept'
    BY DEF IInv, Phases, SetKept, HandlerKept, LightKept
  <2> QED
    BY <2>1, <2>2 DEF IInv
<1>4. CASE device'.last = scan_set
  <2> USE <1>1, <1>2, <1>4 DEF Verify, SyncLeds, SendCommand, Leds, historyVars
  <2>1. Typed'
    BY DEF IInv, Typed
  <2>2. Phases' /\ SetKept' /\ HandlerKept' /\ LightKept'
    BY DEF IInv, Phases, SetKept, HandlerKept, LightKept
  <2> QED
    BY <2>1, <2>2 DEF IInv
<1> QED
  BY <1>3, <1>4

(* and its end.                                                              *)
LEMMA InstallInv == ASSUME IInv, Install PROVE IInv'
<1>1. Idle(device) /\ pc = "install"
  BY DEF IInv, Typed, Install
<1>2. PICK d \in Out(device, PS2_KEYBOARD_ECHO_RESPONSE) : device' = In(d)
  BY DEF Install
<1>3. /\ Idle(d) /\ d.set = device.set /\ d.leds = device.leds
      /\ d.translates = device.translates /\ d.faults \in {device.faults, device.faults + 1}
  BY <1>1, EchoOut
<1>4. /\ Idle(device') /\ device'.set = device.set /\ device'.leds = device.leds
      /\ device'.translates = device.translates
      /\ device'.faults = 0 => device.faults = 0
  <2>1. device.faults \in Nat
    BY <1>1 DEF Idle, IsDevice
  <2> QED
    BY <1>2, <1>3, <2>1, InTyped DEF Idle
<1> USE <1>1, <1>4 DEF Install, commandVars, stateVars, historyVars
<1>5. Typed'
  BY DEF IInv, Typed
<1>6. Phases' /\ SetKept' /\ HandlerKept' /\ LightKept'
  BY DEF IInv, Phases, SetKept, HandlerKept, LightKept
<1> QED
  BY <1>5, <1>6 DEF IInv

(* A command: the test, *)
LEMMA EchoInv == ASSUME IInv, Echo PROVE IInv'
<1>1. Idle(device) /\ pc = "echo"
  BY DEF IInv, Typed, Echo
<1>2. PICK d \in Out(device, PS2_KEYBOARD_ECHO_RESPONSE) :
        /\ device' = In(d)
        /\ pc' = IF In(d).last = PS2_KEYBOARD_ECHO_RESPONSE THEN "send" ELSE after
  BY DEF Echo
<1>3. /\ Idle(d) /\ d.set = device.set /\ d.leds = device.leds
      /\ d.translates = device.translates /\ d.faults \in {device.faults, device.faults + 1}
      /\ d.faults = device.faults => d.answer = <<PS2_KEYBOARD_ECHO_RESPONSE>>
  BY <1>1, EchoOut
<1>4. /\ Idle(device') /\ device'.set = device.set /\ device'.leds = device.leds
      /\ device'.translates = device.translates /\ device'.faults = d.faults
  BY <1>2, <1>3, InTyped DEF Idle
<1>5. device'.faults = 0 => /\ device.faults = 0
                           /\ device'.last = PS2_KEYBOARD_ECHO_RESPONSE
                           /\ device'.answer = << >> /\ pc' = "send"
  <2> SUFFICES ASSUME device'.faults = 0
               PROVE  /\ device.faults = 0 /\ device'.last = PS2_KEYBOARD_ECHO_RESPONSE
                      /\ device'.answer = << >>
    BY <1>2
  <2>1. device.faults = 0 /\ d.faults = device.faults
    <3>1. device.faults \in Nat
      BY <1>1 DEF Idle, IsDevice
    <3> QED
      BY <1>3, <1>4, <3>1
  <2>2. d.answer = <<PS2_KEYBOARD_ECHO_RESPONSE>>
    BY <1>3, <2>1
  <2>3. d.answer # << >> /\ Len(d.answer) \in 0 .. 1 /\ d.answer[1] = PS2_KEYBOARD_ECHO_RESPONSE
    BY <2>2
  <2> QED
    BY <1>2, <1>3, <2>1, <2>3, InReads DEF Idle
<1>6. after \in {"verify", "install", "end"} /\ pc' \in {"send", after}
  BY <1>1, <1>2 DEF IInv, Typed, Phases
<1> USE <1>1, <1>4, <1>5, <1>6 DEF commandVars, stateVars, historyVars
<1>7. Typed'
  BY DEF IInv, Typed, Echo
<1>8. Phases' /\ SetKept' /\ HandlerKept' /\ LightKept'
  BY DEF IInv, Phases, SetKept, HandlerKept, LightKept, Echo
<1> QED
  BY <1>7, <1>8 DEF IInv

(* the command and its operand, *)
LEMMA SendInv == ASSUME IInv, Send PROVE IInv'
<1> DEFINE d == In(device)
<1>1. /\ Idle(device) /\ pc = "send" /\ after \in {"verify", "install", "end"}
      /\ capslock \in BOOLEAN
      /\ after = "verify" => command = SCANCODES /\ operand = SUPPOTED_SET
      /\ after # "verify" => command = SET_LEDS /\ operand \in {0, CAPS_LED}
  BY DEF IInv, Typed, Phases, Send
<1>2. /\ Idle(d) /\ d.set = device.set /\ d.leds = device.leds
      /\ d.translates = device.translates /\ d.faults = device.faults /\ d.faults \in Nat
  <2>1. device.faults \in Nat
    BY <1>1 DEF Idle, IsDevice
  <2> QED
    BY <1>1, <2>1, InTyped DEF Idle
<1>3. device.faults = 0 => d.last # PS2_KEYBOARD_ERROR
  <2> SUFFICES ASSUME device.faults = 0 PROVE d.last # PS2_KEYBOARD_ERROR
    OBVIOUS
  <2>1. device.answer = << >> /\ device.last = PS2_KEYBOARD_ECHO_RESPONSE
    BY <1>1 DEF IInv, LightKept
  <2>2. d.last \in KeyBytes \cup {PS2_KEYBOARD_ECHO_RESPONSE}
    BY <1>1, <2>1, InReads DEF Idle
  <2> QED
    BY <2>2 DEF KeyBytes, PS2_KEYBOARD_ERROR, PS2_KEYBOARD_ECHO_RESPONSE
<1>4. /\ d.last = PS2_KEYBOARD_ERROR => device' = d
      /\ d.last # PS2_KEYBOARD_ERROR => device' \in OutBoth(d, command, operand)
      /\ tries' = 0 /\ pc' = "await"
      /\ UNCHANGED <<coming, after, command, operand, scancode, stateVars, acknowledged,
                     historyVars>>
  BY DEF Send
<1> HIDE DEF d
<1>5. /\ Idle(device') /\ device'.translates = device.translates
      /\ after # "verify" => device'.set = device.set
      /\ device'.faults = 0 => /\ device.faults = 0
                               /\ after # "verify" => device'.leds = operand
  <2>1. CASE d.last = PS2_KEYBOARD_ERROR
    BY <1>2, <1>3, <1>4, <2>1
  <2>2. CASE d.last # PS2_KEYBOARD_ERROR /\ after = "verify"
    <3>1. device' \in OutBoth(d, SCANCODES, SUPPOTED_SET)
      BY <1>1, <1>4, <2>2
    <3>2. Idle(device') /\ device'.translates = d.translates /\ device'.faults \in d.faults .. d.faults + 2
      BY <1>2, <3>1, SetOut
    <3> QED
      BY <1>2, <2>2, <3>2
  <2>3. CASE d.last # PS2_KEYBOARD_ERROR /\ after # "verify"
    <3>1. device' \in OutBoth(d, SET_LEDS, operand)
      BY <1>1, <1>4, <2>3
    <3>2. /\ Idle(device') /\ device'.set = d.set /\ device'.translates = d.translates
          /\ device'.faults \in d.faults .. d.faults + 2
          /\ device'.faults = d.faults => device'.leds = operand
      BY <1>1, <1>2, <2>3, <3>1, LedsOut
    <3> QED
      BY <1>2, <2>3, <3>2
  <2> QED
    BY <2>1, <2>2, <2>3
<1> USE <1>1, <1>4, <1>5 DEF stateVars, historyVars
<1>6. Typed'
  BY DEF IInv, Typed
<1>7. Phases' /\ SetKept' /\ HandlerKept' /\ LightKept'
  BY DEF IInv, Phases, SetKept, HandlerKept, LightKept
<1> QED
  BY <1>6, <1>7 DEF IInv

(* and a turn of the wait.                                                   *)
LEMMA AwaitInv == ASSUME IInv, Await PROVE IInv'
<1>1. /\ Idle(device) /\ pc = "await" /\ after \in {"verify", "install", "end"}
      /\ tries \in 0 .. 1 /\ capslock \in BOOLEAN
      /\ after # "verify" => command = SET_LEDS /\ SET_LEDS # SCANCODES
  BY DEF IInv, Typed, Phases, Await, SET_LEDS, SCANCODES
<1>2. device' \in {device, In(device)}
  BY DEF Await
<1>3. /\ Idle(device') /\ device'.set = device.set /\ device'.leds = device.leds
      /\ device'.translates = device.translates /\ device'.faults = device.faults
  BY <1>1, <1>2, InTyped DEF Idle
<1>4. tries' \in 0 .. 1
  BY <1>1 DEF Await
<1>5. /\ pc' \in {"await", after} \/ (pc' = "reset" /\ after = "verify")
      /\ UNCHANGED <<coming, after, command, operand, scancode, stateVars, acknowledged,
                     historyVars>>
  BY <1>1 DEF Await
<1> USE <1>1, <1>3, <1>4, <1>5 DEF stateVars, historyVars
<1>6. Typed'
  BY DEF IInv, Typed
<1>7. Phases' /\ SetKept' /\ HandlerKept'
  BY DEF IInv, Phases, SetKept, HandlerKept
<1>8. LightKept'
  BY DEF IInv, LightKept, Phases, CAPS_LED
<1> QED
  BY <1>6, <1>7, <1>8 DEF IInv

(* The handler: the interrupt, *)
LEMMA InterruptInv == ASSUME IInv, Interrupt PROVE IInv'
<1>1. << >> \in Seq(0 .. 255) /\ Len(<< >>) = 0
  BY EmptySeq
<1>2. pc = "idle" /\ pc' = "read" /\ scancode' = << >> /\ acknowledged' = FALSE
  BY DEF IInv, SetKept, Interrupt
<1>3. scancode' \in Seq(0 .. 255) /\ Len(scancode') <= 8 /\ Len(scancode') < 8
  BY <1>1, <1>2
<1> USE <1>2, <1>3 DEF Interrupt, lineVars, commandVars, stateVars
<1>4. Typed'
  BY DEF IInv, Typed
<1>5. Phases' /\ SetKept' /\ HandlerKept' /\ LightKept'
  BY DEF IInv, Phases, SetKept, HandlerKept, LightKept
<1> QED
  BY <1>4, <1>5 DEF IInv

(* a byte of the code: more than eight are never needed, so the handler      *)
(* never gives up, *)
LEMMA GetScancodeInv == ASSUME IInv, GetScancode PROVE IInv'
<1> DEFINE s == Append(scancode, device'.last)
<1>1. /\ Idle(device) /\ pc = "read" /\ scancode \in Seq(0 .. 255) /\ Len(scancode) < 8
  BY DEF IInv, Typed, HandlerKept, GetScancode
<1>2. /\ Idle(device') /\ device'.set = device.set /\ device'.leds = device.leds
      /\ device'.translates = device.translates /\ device'.faults = device.faults
      /\ device'.last \in 0 .. 255
  BY <1>1, InTyped DEF GetScancode, Idle, IsDevice
<1>3. s \in Seq(0 .. 255) /\ Len(s) = Len(scancode) + 1 /\ Len(scancode) \in Nat
  BY <1>1, <1>2, AppendProperties
<1>4. /\ scancode' = s
      /\ pc' = IF ~next_byte_check(s) THEN "code" ELSE IF Len(s) < 8 THEN "read" ELSE "idle"
      /\ UNCHANGED <<coming, commandVars, stateVars, acknowledged, historyVars>>
  BY DEF GetScancode
<1> HIDE DEF s
<1>5. Len(s) = 8 => ~next_byte_check(s)
  BY DEF next_byte_check
<1>6. /\ scancode' \in Seq(0 .. 255) /\ Len(scancode') <= 8
      /\ pc' = "code" \/ (pc' = "read" /\ Len(scancode') < 8)
  BY <1>1, <1>3, <1>4, <1>5
<1> USE <1>1, <1>2, <1>6 DEF commandVars, stateVars, historyVars
<1>7. Typed'
  BY <1>4 DEF IInv, Typed
<1>8. Phases' /\ SetKept' /\ HandlerKept' /\ LightKept'
  BY <1>4 DEF IInv, Phases, SetKept, HandlerKept, LightKept
<1> QED
  BY <1>7, <1>8 DEF IInv

(* what the code means, *)
LEMMA HandleScancodeInv == ASSUME IInv, HandleScancode PROVE IInv'
<1>1. counter' \in 0 .. COUNT_LIMIT
  BY KeyboardAssumption DEF HandleScancode, IInv, Typed
<1>2. capslock' \in BOOLEAN /\ shiftdown' \in BOOLEAN
  BY DEF HandleScancode, IInv, Typed
<1> USE <1>1, <1>2 DEF HandleScancode, SyncLeds, SendCommand, Leds, lineVars
<1>3. Typed'
  BY DEF IInv, Typed
<1>4. Phases' /\ SetKept' /\ HandlerKept' /\ LightKept'
  BY DEF IInv, Phases, SetKept, HandlerKept, LightKept
<1> QED
  BY <1>3, <1>4 DEF IInv

(* and its end of interrupt.                                                 *)
LEMMA HandlerEndInv == ASSUME IInv, HandlerEnd PROVE IInv'
<1> USE DEF HandlerEnd, lineVars, commandVars, stateVars, historyVars
<1>1. Typed'
  BY DEF IInv, Typed
<1>2. Phases' /\ SetKept' /\ HandlerKept' /\ LightKept'
  BY DEF IInv, Phases, SetKept, HandlerKept, LightKept
<1> QED
  BY <1>1, <1>2 DEF IInv

LEMMA StepInv == IInv /\ [Next]_vars => IInv'
<1> SUFFICES ASSUME IInv, [Next]_vars PROVE IInv'
  OBVIOUS
<1>1. CASE UNCHANGED vars
  BY <1>1 DEF vars, lineVars, commandVars, stateVars, historyVars, IInv, Typed, Phases,
              SetKept, HandlerKept, LightKept
<1>2. CASE DriverStep
  BY <1>2, InitKeyboardInv, SetScancodesInv, VerifyInv, InstallInv, EchoInv, SendInv, AwaitInv,
     GetScancodeInv, HandleScancodeInv, HandlerEndInv DEF DriverStep
<1> QED
  BY <1>1, <1>2, KeysInv, RestartInv, InterruptInv DEF Next

-----------------------------------------------------------------------------
(* Every state of a behaviour satisfies the inductive invariant.             *)
LEMMA Invariance == Spec => []IInv
  BY InitInv, StepInv, PTL DEF Spec

(* The driver's variables and what it relies on of the device have their     *)
(* types: no code is longer than the array it is read into, and the counter  *)
(* of codes never passes its limit.                                          *)
THEOREM KeyboardTyped == Spec => []TypeOK
<1>1. IInv => TypeOK
  BY DEF IInv, Typed, Idle, IsDevice, TypeOK, SUPPOTED_SET, CAPS_LED
<1> QED
  BY <1>1, Invariance, PTL

(* However often the device refuses a byte of ps2_keyboard_set_scancodes(),  *)
(* the driver goes on only when both mean the same set.                      *)
THEOREM SetIsAgreed == Spec => []SetAgreed
<1>1. IInv => SetAgreed
  BY DEF IInv, Phases, SetKept, SetAgreed, Typed
<1> QED
  BY <1>1, Invariance, PTL

(* keyboard_sync_leds() reaches a device that refuses nothing, whatever keys *)
(* are sent between the handler's port accesses.                             *)
THEOREM LedsShowCapslock == Spec => []LedsFollow
<1>1. IInv => LedsFollow
  BY DEF IInv, LightKept, LedsFollow
<1> QED
  BY <1>1, Invariance, PTL

(* keyboard_handler() reaches its end of interrupt on every way through it.  *)
THEOREM HandlerAcknowledges == Spec => []Acknowledged
<1>1. IInv => Acknowledged
  BY DEF IInv, HandlerKept, Acknowledged
<1> QED
  BY <1>1, Invariance, PTL
=============================================================================
