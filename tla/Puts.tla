-------------------------------- MODULE Puts --------------------------------
(***************************************************************************)
(* Formatted text on the serial line, puts() and puts_with_va() of         *)
(* src/src/lib/functions.c, and numbers on the screen.                     *)
(*                                                                         *)
(* The program sees a text, a sequence of characters, and the arguments    *)
(* behind it.  Whoever wrote the text meant items: characters to be        *)
(* printed and directives, each with an argument of its own.  One turn of  *)
(* the loop is one action.  The "0x" and "0b" before numbers and the       *)
(* colours of the log are left out.                                        *)
(***************************************************************************)
EXTENDS Numbers, FiniteSets

CONSTANT Calls    \* which function is called, with which items and arguments

LOGS == {"DEBUG", "INFO", "ERROR"}

(* The directives that print a number: its base and the width it is cut to. *)
Formats ==
  [d |-> [base |-> 10, width |-> WORD32], q |-> [base |-> 10, width |-> WORD64],
   x |-> [base |-> 16, width |-> WORD64], b |-> [base |-> 2, width |-> WORD64]]

(* '0' is taken off the character behind "%m". *)
Counts == [c \in {"0", "1", "2"} |-> CASE c = "0" -> 0 [] c = "1" -> 1 [] c = "2" -> 2]

Arguments(items) == {k \in DOMAIN items : items[k][1] = "%" /\ Len(items[k]) > 1 /\
                                          items[k][2] \in DOMAIN Formats \cup {"c", "m", "s"}}

(* Callers give every directive its argument and end a text with "%" at most. *)
ASSUME CallsAssumption ==
  \A call \in Calls :
    /\ call.by \in {"puts", "puts_with_va", "monitor_put_dec", "monitor_put_hex"} \cup LOGS
    /\ call.by = "monitor_put_dec" => call.args[1] < WORD32
    /\ Len(call.args) >= Cardinality(Arguments(call.items))
    /\ \A k \in DOMAIN call.items :
         LET item == call.items[k]
         IN  /\ item = <<"%">> => k = Len(call.items)
             /\ item[1] # "%" => Len(item) = 1
             /\ Len(item) > 1 /\ item[2] = "m" => Len(item) = 3 /\ item[3] \in DOMAIN Counts

VARIABLES
  call,
  i,         \* the index in the text
  taken,     \* arguments that va_arg has taken
  out        \* what has been printed, by pieces

vars == <<call, i, taken, out>>

text == FlattenSeq(call.items)
Ended == i > Len(text)

-----------------------------------------------------------------------------
(* Definitions named Name_Fault are faulty variants of Name: each breaks the *)
(* property at the end of this module.                                       *)

Init == call \in Calls /\ i = 1 /\ taken = 0 /\ out = << >>

(* monitor_put_dec and monitor_put_hex *)
OnScreen ==
  /\ out = << >>
  /\ \/ call.by = "monitor_put_dec" /\ out' = <<<<"number", 10, PutDec(call.args[1])>>>>
     \/ call.by = "monitor_put_hex" /\ out' = <<<<"number", 16, PutHex(call.args[1])>>>>
  /\ UNCHANGED <<call, i, taken>>

(* The three functions of the log hand their arguments to puts_with_va. *)
ByVa == call.by \in {"puts_with_va"} \cup LOGS

Argument == call.args[taken + 1]
Directive == ~Ended /\ text[i] = "%"
Letter == IF i < Len(text) THEN text[i + 1] ELSE "end"

Character ==
  /\ ~Ended /\ text[i] # "%"
  /\ out' = Append(out, <<"char", text[i]>>) /\ i' = i + 1
  /\ UNCHANGED <<call, taken>>

PrintNumber ==
  /\ Directive /\ Letter \in DOMAIN Formats
  /\ LET format == Formats[Letter]
     IN  out' = Append(out, <<"number", format.base,
                                Divided(Argument % format.width, format.base)>>)
  /\ taken' = taken + 1 /\ i' = i + 2
  /\ UNCHANGED call

PrintChar ==
  /\ Directive /\ Letter = "c"
  /\ out' = Append(out, <<"argument", Argument>>)
  /\ taken' = taken + 1 /\ i' = i + 2
  /\ UNCHANGED call

PrintMemory_Again ==
  /\ Directive /\ Letter = "m"
  /\ out' = Append(out, <<"memory", Argument, Counts[text[i + 2]]>>)
  /\ taken' = taken + 1 /\ i' = i + 2
  /\ UNCHANGED call

PrintMemory ==
  /\ Directive /\ Letter = "m"
  /\ out' = Append(out, <<"memory", Argument, Counts[text[i + 2]]>>)
  /\ taken' = taken + 1 /\ i' = i + 3
  /\ UNCHANGED call

(* "%s" takes its argument in puts, but prints nothing; puts_with_va knows   *)
(* it as little as both know any other letter.                               *)
Swallow ==
  /\ Directive /\ Letter \notin DOMAIN Formats \cup {"c", "m"}
  /\ taken' = IF Letter = "s" /\ ~ByVa THEN taken + 1 ELSE taken
  /\ i' = i + 2
  /\ UNCHANGED <<call, out>>

Next == OnScreen \/ Character \/ PrintNumber \/ PrintChar \/ PrintMemory \/ Swallow

Spec == Init /\ [][Next]_vars

-----------------------------------------------------------------------------
Shown == {k \in DOMAIN call.items : call.items[k][1] # "%"} \cup
         {k \in Arguments(call.items) : call.items[k][2] # "s"}

(* The piece that an item was printed as, and the argument it is given.      *)
Piece(k) == out[Cardinality({j \in Shown : j <= k})]
Given(k) == call.args[Cardinality({j \in Arguments(call.items) : j <= k})]

(* puts_with_va leaves the argument of "%s" to the next directive: the texts *)
(* of the repository have none behind it.                                    *)
StringLast ==
  ByVa => \A k \in Arguments(call.items) :
            call.items[k][2] = "s" => \A j \in Arguments(call.items) : j <= k

(* A text is printed as it is meant, item by item, however its directives    *)
(* and characters follow each other: each directive prints its own argument, *)
(* numbers so that they read back as what they are; and so do the numbers    *)
(* printed in decimal on the screen.                                         *)
PrintsItems ==
  /\ Ended /\ call.items # << >> /\ StringLast =>
       /\ Len(out) = Cardinality(Shown)
       /\ \A k \in Shown :
            LET item == call.items[k]
            IN  CASE item[1] # "%" -> Piece(k) = <<"char", item[1]>>
                  [] item = <<"%", "c">> -> Piece(k) = <<"argument", Given(k)>>
                  [] Len(item) = 3 -> Piece(k) = <<"memory", Given(k), Counts[item[3]]>>
                  [] OTHER -> LET format == Formats[item[2]]
                              IN  /\ Piece(k)[1] = "number" /\ Piece(k)[2] = format.base
                                  /\ Canonical(Piece(k)[3], Given(k) % format.width, format.base)
  /\ call.by = "monitor_put_dec" /\ out # << >> => Canonical(out[1][3], call.args[1], 10)

(* src/include/lib/monitor.h:56 takes the "wanted hexadecimal number", of 64 *)
(* bits.                                                                     *)
HexReadsBack ==
  call.by = "monitor_put_hex" /\ out # << >> => Canonical(out[1][3], call.args[1], 16)
=============================================================================
