----------------------------- MODULE Interrupts -----------------------------
(***************************************************************************)
(* Interrupts and the timer: src/src/interrupts/idt.c and isr.s,           *)
(* src/src/pic8259/pic.c, src/src/pit/pit.c and what init_keyboard() and   *)
(* keyboard_handler() of src/src/drivers/ps2_keyboard.c do to them.        *)
(*                                                                         *)
(* The program calls the functions one after the other; between any two of *)
(* its steps a device may raise its line and the processor may run a       *)
(* handler.  Gates are interrupt gates, so a handler is not interrupted:   *)
(* it is one action, up to its iretq.                                      *)
(*                                                                         *)
(* The kernel is linked at 0x7c00 and its code ends below 0x10000, so a    *)
(* gate's upper address fields are zero before and after                   *)
(* idt_set_discriptor() writes them: a gate is there once it is marked     *)
(* present.  An interrupt without a gate ends in exception_handler(),      *)
(* which stops the processor.                                              *)
(***************************************************************************)
EXTENDS Integers, FiniteSets, FiniteSetsExt

CONSTANTS
  DESCRIPTORS,   \* IDT_MAX_DISCRIPTORS, 256
  LINES,         \* lines of the first controller that have a device
  BIOS_MASKS,    \* what the BIOS may leave masked
  DELAYS,        \* arguments of pit_deadline()
  TICK_CAP       \* bound: ticks are counted up to this number

TIMER_LINE == 0
PIC_OFFSET == 32
STUBS == 47      \* entries of isr_stub_table

ASSUME InterruptsAssumption ==
  /\ DESCRIPTORS \in PIC_OFFSET + 1 .. STUBS
  /\ LINES \subseteq 0 .. 7 /\ TIMER_LINE \in LINES
  /\ BIOS_MASKS \subseteq SUBSET LINES
  /\ DELAYS \subseteq Nat /\ TICK_CAP \in Nat
  /\ \A d \in DELAYS : d < TICK_CAP

NULL == "none"
TIMER == "timer_func"
KEYBOARD == "keyboard_handler"
NONE == -1
Vectors == 0 .. DESCRIPTORS - 1

VARIABLES
  gates,             \* vectors with a gate that is present
  vectors,           \* vectors taken
  routine_services,
  masks, requested, in_service,     \* of the controllers, by line
  interrupts,        \* the processor takes interrupts
  running,           \* the vector whose handler runs, or NONE
  cpu,               \* "runs", "waits" in hlt, or "stopped" for good
  pc,                \* where in a call the program is
  installing,        \* arguments of idt_install_irq()
  delay,             \* argument of pit_deadline()
  pit_vector, watching, masked, activated, current_tick,
  keyboard_vector,
  handled            \* history: timer interrupts since pit_deadline() was called

idtVars == <<gates, vectors, routine_services>>
picVars == <<masks, requested, in_service>>
cpuVars == <<interrupts, running, cpu>>
callVars == <<pc, installing, delay>>
pitVars == <<pit_vector, watching, masked, activated, current_tick>>
vars == <<idtVars, picVars, cpuVars, callVars, pitVars, keyboard_vector, handled>>

Install == [vector : Vectors, handler : {TIMER, KEYBOARD, NULL}]
NoInstall == [vector |-> 0, handler |-> NULL]

-----------------------------------------------------------------------------
(* Definitions named Name_Fault are faulty variants of Name: each breaks one *)
(* of the properties at the end of this module.                              *)

MaskBit_Uncut(v) == IF v < 8 THEN {v} ELSE {v - 8}

(* The line whose bit pic_mask_irq(v) sets and pic_unmask_irq(v) clears. The *)
(* program passes vectors: 1 << (v - 8) is cut to eight bits, so that those  *)
(* of the first controller change nothing.  The processor shifts by the      *)
(* number modulo 32.                                                         *)
MaskBit(v) ==
  IF v < 8 THEN {v}
  ELSE {line \in 8 .. 15 : line - 8 = (v - 8) % 32}

(* idt_allocate_vector: 0 when no vector is left. *)
FreshVector ==
  IF Vectors \ vectors = {} THEN 0 ELSE Min(Vectors \ vectors)

Counted(n) == Min({n + 1, TICK_CAP})

(* The program's next step, unless a handler runs. *)
At(here) == pc = here /\ cpu = "runs" /\ running = NONE

-----------------------------------------------------------------------------
Init ==
  /\ gates = {} /\ vectors = {}
  /\ routine_services = [v \in Vectors |-> NULL]
  /\ masks \in BIOS_MASKS /\ requested = {} /\ in_service = {}
  /\ interrupts = FALSE /\ running = NONE /\ cpu = "runs"
  /\ pc = "boot" /\ installing = NoInstall /\ delay = 0
  /\ pit_vector = 0 /\ keyboard_vector = 0
  /\ watching = FALSE /\ masked = FALSE /\ activated = FALSE
  /\ current_tick = 0 /\ handled = 0

(* A device raises its line. *)
Raise(line) ==
  /\ cpu # "stopped" /\ line \notin requested
  /\ requested' = requested \cup {line}
  /\ UNCHANGED <<idtVars, masks, in_service, cpuVars, callVars, pitVars,
                 keyboard_vector, handled>>

(* exception_handler: whatever it prints of the exception, and all five      *)
(* functions it chooses from, end in cli and hlt.                            *)
ExceptionHandler == cpu' = "stopped" /\ UNCHANGED running

(* The processor takes the most urgent interrupt. *)
Deliver ==
  /\ cpu # "stopped" /\ interrupts
  /\ \E line \in requested \ masks :
       /\ \A other \in requested \ masks : line <= other
       /\ \A other \in in_service : line < other
       /\ requested' = requested \ {line}
       /\ in_service' = in_service \cup {line}
       /\ \/ /\ PIC_OFFSET + line \in gates
             /\ running' = PIC_OFFSET + line /\ cpu' = "runs"
          \/ PIC_OFFSET + line \notin gates /\ ExceptionHandler
  /\ interrupts' = FALSE
  /\ UNCHANGED <<idtVars, masks, callVars, pitVars, keyboard_vector, handled>>

(* pic_send_eoi, for the vectors of the first controller. *)
Eoi_Never == UNCHANGED in_service
Eoi == in_service' = in_service \ {Min(in_service)}

(* timer_func or keyboard_handler, to the iretq of its stub. *)
Handle_ForgetsKeyboard ==
  /\ running # NONE
  /\ IF routine_services[running] = TIMER
     THEN /\ current_tick' = IF watching THEN Counted(current_tick) ELSE current_tick
          /\ handled' = Counted(handled) /\ Eoi
     ELSE UNCHANGED <<current_tick, handled, in_service>>
  /\ running' = NONE /\ interrupts' = TRUE
  /\ UNCHANGED <<idtVars, masks, requested, cpu, callVars, pit_vector, watching,
                 masked, activated, keyboard_vector>>

Handle ==
  /\ running # NONE
  /\ IF routine_services[running] = TIMER
     THEN /\ current_tick' = IF watching THEN Counted(current_tick) ELSE current_tick
          /\ handled' = Counted(handled)
     ELSE UNCHANGED <<current_tick, handled>>
  /\ Eoi
  /\ running' = NONE /\ interrupts' = TRUE
  /\ UNCHANGED <<idtVars, masks, requested, cpu, callVars, pit_vector, watching,
                 masked, activated, keyboard_vector>>

-----------------------------------------------------------------------------
(* init_idt.  Interrupts are off until its last instruction; pic_remap       *)
(* forgets the lines raised before and puts the masks of the BIOS back.      *)
InitIdt ==
  /\ At("boot")
  /\ gates' = 0 .. PIC_OFFSET - 1 /\ vectors' = 0 .. PIC_OFFSET - 1
  /\ requested' = {} /\ interrupts' = TRUE /\ pc' = "idle"
  /\ UNCHANGED <<routine_services, masks, in_service, running, cpu, installing, delay,
                 pitVars, keyboard_vector, handled>>

(* Both drivers: a vector is taken, then idt_install_irq is called with it. *)
TakeVector_Unmarked(handler) ==
  /\ installing' = [vector |-> FreshVector, handler |-> handler]
  /\ pc' = "install" /\ UNCHANGED vectors

TakeVector(handler) ==
  /\ vectors' = vectors \cup {FreshVector}
  /\ installing' = [vector |-> FreshVector, handler |-> handler]
  /\ pc' = "install"

(* init_timer up to its sti. *)
InitTimer ==
  /\ At("idle") /\ TakeVector(TIMER)
  /\ pit_vector' = FreshVector
  /\ interrupts' = TRUE
  /\ UNCHANGED <<gates, routine_services, picVars, running, cpu, delay, watching,
                 masked, activated, current_tick, keyboard_vector, handled>>

(* init_keyboard up to idt_install_irq. *)
InitKeyboard ==
  /\ At("idle") /\ keyboard_vector = 0 /\ TakeVector(KEYBOARD)
  /\ keyboard_vector' = FreshVector
  /\ UNCHANGED <<gates, routine_services, picVars, cpuVars, delay, pitVars, handled>>

(* idt_install_irq: the handler first, then the gate. *)
InstallRoutine ==
  /\ At("install")
  /\ routine_services' = [routine_services EXCEPT ![installing.vector] = installing.handler]
  /\ pc' = "gate"
  /\ UNCHANGED <<gates, vectors, picVars, cpuVars, installing, delay, pitVars,
                 keyboard_vector, handled>>

InstallGate ==
  /\ At("gate")
  /\ gates' = gates \cup {installing.vector}
  /\ pc' = IF installing.handler = TIMER THEN "unmask" ELSE "idle"
  /\ installing' = NoInstall
  /\ UNCHANGED <<vectors, routine_services, picVars, cpuVars, delay, pitVars,
                 keyboard_vector, handled>>

(* The end of init_timer. *)
InitTimerEnd ==
  /\ At("unmask")
  /\ masks' = IF masked THEN masks \ MaskBit(pit_vector) ELSE masks
  /\ pc' = "idle"
  /\ UNCHANGED <<idtVars, requested, in_service, cpuVars, installing, delay, pitVars,
                 keyboard_vector, handled>>

(* idt_free_vector.  It turns interrupts off, twice. *)
FreeVector_KeepsGate(v) ==
  /\ gates' = gates /\ vectors' = vectors \ {v}
  /\ routine_services' = [routine_services EXCEPT ![v] = NULL]
  /\ interrupts' = FALSE

FreeVector(v) ==
  /\ gates' = gates \ {v} /\ vectors' = vectors \ {v}
  /\ routine_services' = [routine_services EXCEPT ![v] = NULL]
  /\ interrupts' = FALSE

(* pit_disable *)
PitDisable ==
  /\ At("idle")
  /\ masks' = masks \cup MaskBit(pit_vector) /\ masked' = TRUE
  /\ FreeVector(pit_vector) /\ pit_vector' = 0
  /\ UNCHANGED <<requested, in_service, running, cpu, callVars, watching, activated,
                 current_tick, keyboard_vector, handled>>

-----------------------------------------------------------------------------
(* pit_deadline *)
DeadlineBegin ==
  /\ At("idle") /\ delay' \in DELAYS
  /\ masks' = IF activated THEN masks ELSE masks \ MaskBit(pit_vector)
  /\ activated' = TRUE /\ handled' = 0 /\ pc' = "reset"
  /\ UNCHANGED <<idtVars, requested, in_service, cpuVars, installing, pit_vector,
                 watching, masked, current_tick, keyboard_vector>>

DeadlineReset_Not ==
  /\ At("reset") /\ pc' = "watch"
  /\ UNCHANGED <<idtVars, picVars, cpuVars, installing, delay, pitVars, keyboard_vector, handled>>

DeadlineReset ==
  /\ At("reset") /\ current_tick' = 0 /\ pc' = "watch"
  /\ UNCHANGED <<idtVars, picVars, cpuVars, installing, delay, pit_vector, watching,
                 masked, activated, keyboard_vector, handled>>

DeadlineWatch ==
  /\ At("watch") /\ watching' = TRUE /\ pc' = "check"
  /\ UNCHANGED <<idtVars, picVars, cpuVars, installing, delay, pit_vector,
                 masked, activated, current_tick, keyboard_vector, handled>>

(* The loop's condition, then hlt: a tick between the two does not wake it. *)
DeadlineCheck ==
  /\ At("check")
  /\ pc' = IF current_tick < delay THEN "hlt" ELSE "end"
  /\ UNCHANGED <<idtVars, picVars, cpuVars, installing, delay, pitVars,
                 keyboard_vector, handled>>

DeadlineHlt ==
  /\ At("hlt") /\ cpu' = "waits" /\ pc' = "check"
  /\ UNCHANGED <<idtVars, picVars, interrupts, running, installing, delay, pitVars,
                 keyboard_vector, handled>>

DeadlineEnd ==
  /\ At("end")
  /\ masks' = masks \cup MaskBit(pit_vector) /\ masked' = TRUE
  /\ watching' = FALSE /\ pc' = "idle"
  /\ UNCHANGED <<idtVars, requested, in_service, cpuVars, installing, delay, pit_vector,
                 activated, current_tick, keyboard_vector, handled>>

-----------------------------------------------------------------------------
CallStep ==
  \/ InstallRoutine \/ InstallGate \/ InitTimerEnd
  \/ DeadlineReset \/ DeadlineWatch \/ DeadlineCheck \/ DeadlineHlt \/ DeadlineEnd

Next ==
  \/ \E line \in LINES : Raise(line)
  \/ Deliver \/ Handle
  \/ InitIdt \/ InitTimer \/ InitKeyboard \/ PitDisable \/ DeadlineBegin
  \/ CallStep

Spec == Init /\ [][Next]_vars

(* The timer keeps ticking, interrupts that are raised are taken, and the    *)
(* time between two of them is enough for a step of the program.             *)
FairSpec ==
  /\ Spec /\ WF_vars(Raise(TIMER_LINE)) /\ WF_vars(Deliver) /\ WF_vars(Handle)
  /\ SF_vars(CallStep)

-----------------------------------------------------------------------------
Deadline == {"reset", "watch", "check", "hlt", "end"}

TypeOK ==
  /\ gates \subseteq Vectors /\ vectors \subseteq Vectors
  /\ routine_services \in [Vectors -> {TIMER, KEYBOARD, NULL}]
  /\ masks \subseteq 0 .. 15 /\ requested \subseteq LINES /\ in_service \subseteq LINES
  /\ interrupts \in BOOLEAN /\ running \in {NONE} \cup Vectors
  /\ cpu \in {"runs", "waits", "stopped"}
  /\ pc \in {"boot", "idle", "install", "gate", "unmask"} \cup Deadline
  /\ installing \in Install /\ delay \in Nat
  /\ pit_vector \in Vectors /\ keyboard_vector \in Vectors
  /\ watching \in BOOLEAN /\ masked \in BOOLEAN /\ activated \in BOOLEAN
  /\ current_tick \in 0 .. TICK_CAP /\ handled \in 0 .. TICK_CAP

(* Interrupts reach their handlers.  The stubs of isr.s call the routine of  *)
(* their vector without looking: as long as a gate lets an interrupt in,     *)
(* there is a routine behind it and the vector is taken, whatever step of    *)
(* installing or freeing is interrupted.  And a driver's vector is its own:  *)
(* from the end of its initialization on it has a gate and leads to the      *)
(* driver's handler, whatever else is installed, taken or freed.  (0 is what *)
(* idt_allocate_vector returns with none left.)                              *)
HandlersKept ==
  /\ \A v \in gates : v >= PIC_OFFSET => routine_services[v] # NULL /\ v \in vectors
  /\ pc = "idle" =>
       \A driver \in {<<pit_vector, TIMER>>, <<keyboard_vector, KEYBOARD>>} :
         driver[1] # 0 => driver[1] \in gates /\ routine_services[driver[1]] = driver[2]

(* The controller waits for an acknowledgement from the handler that runs    *)
(* and from no other: else lines of lower urgency would stay silent.         *)
Acknowledged ==
  cpu # "stopped" => in_service = (IF running = NONE THEN {} ELSE {running - PIC_OFFSET})

(* pit_deadline() does not return before the timer has interrupted as often  *)
(* as asked for, counted from the call, whatever ticks came before or        *)
(* between two of its steps.                                                 *)
DeadlineNotEarly == [][pc = "end" /\ pc' # "end" => handled >= delay]_vars

(* The timer's interrupts reach timer_func. *)
TimerArrives ==
  /\ PIC_OFFSET + TIMER_LINE \in gates /\ TIMER_LINE \notin masks
  /\ routine_services[PIC_OFFSET + TIMER_LINE] = TIMER
  /\ interrupts \/ running # NONE

(* pit_deadline() returns if the timer arrives when it is called, although a *)
(* tick may come between its test and hlt, unless the machine stops because  *)
(* of a line that nobody serves.                                             *)
DeadlineReturns == pc \in Deadline /\ TimerArrives ~> pc = "idle" \/ cpu = "stopped"
=============================================================================
