-------------------------- MODULE InterruptsProofs --------------------------
(***************************************************************************)
(* Proofs about module Interrupts, for every size of the descriptor table, *)
(* every set of lines and masks and every set of deadlines.                *)
(***************************************************************************)
EXTENDS Interrupts, NaturalFacts, TLAPS

Installing(handler) == pc \in {"install", "gate"} /\ installing.handler = handler

(* A driver that has a vector owns it, and while it is not being installed   *)
(* the vector has a gate and leads to the driver's handler.                  *)
Owns(vector, handler) ==
  vector # 0 => /\ vector >= PIC_OFFSET /\ vector \in vectors
                /\ \/ Installing(handler)
                   \/ vector \in gates /\ routine_services[vector] = handler

(* The vectors of the exceptions stay taken, except 0: pit_disable() frees   *)
(* it when the timer has no vector of its own.                               *)
VectorsKept ==
  /\ pc = "boot" => gates = {} /\ pit_vector = 0 /\ keyboard_vector = 0
  /\ pc # "boot" => 1 .. PIC_OFFSET - 1 \subseteq vectors
  /\ Owns(pit_vector, TIMER) /\ Owns(keyboard_vector, KEYBOARD)
  /\ pit_vector = keyboard_vector => pit_vector = 0
  /\ \A v \in gates : v >= PIC_OFFSET => routine_services[v] # NULL /\ v \in vectors

(* What idt_install_irq() works on between two of its steps.                 *)
InstallKept ==
  /\ pc \in {"install", "gate"} =>
       /\ installing \in {[vector |-> pit_vector, handler |-> TIMER],
                          [vector |-> keyboard_vector, handler |-> KEYBOARD]}
       /\ installing.vector \in vectors
  /\ pc = "gate" => routine_services[installing.vector] = installing.handler

(* A handler runs with interrupts off, and nothing runs once the processor   *)
(* has stopped.                                                              *)
ProcessorKept ==
  /\ interrupts => running = NONE
  /\ cpu = "stopped" => running = NONE /\ ~interrupts
  /\ pc = "boot" => running = NONE /\ ~interrupts
  /\ Acknowledged

(* From the reset of the counter on it is never ahead of the interrupts, and *)
(* when the loop ends it has reached the delay.                              *)
TicksKept ==
  /\ pc \in {"watch", "check", "hlt", "end"} => current_tick <= handled
  /\ pc = "end" => current_tick >= delay

IInv == TypeOK /\ VectorsKept /\ InstallKept /\ ProcessorKept /\ TicksKept


-----------------------------------------------------------------------------
(* A step of counting stays within the bound, and never counts down.         *)
LEMMA CountedBounds ==
  ASSUME NEW n \in 0 .. TICK_CAP
  PROVE  Counted(n) \in 0 .. TICK_CAP /\ n <= Counted(n)
<1>1. {n + 1, TICK_CAP} \in SUBSET Nat /\ {n + 1, TICK_CAP} # {}
  BY InterruptsAssumption
<1> QED
  BY <1>1, MinLeast, InterruptsAssumption DEF Counted

(* Counting keeps the order of two counters.                                 *)
LEMMA CountedMonotone ==
  ASSUME NEW m \in 0 .. TICK_CAP, NEW n \in 0 .. TICK_CAP, m <= n
  PROVE  Counted(m) <= Counted(n)
<1>1. /\ {m + 1, TICK_CAP} \in SUBSET Nat /\ {m + 1, TICK_CAP} # {}
      /\ {n + 1, TICK_CAP} \in SUBSET Nat /\ {n + 1, TICK_CAP} # {}
  BY InterruptsAssumption
<1> QED
  BY <1>1, MinLeast, InterruptsAssumption DEF Counted

(* A vector that idt_allocate_vector() hands out is one of the table, and    *)
(* not taken unless it is 0.                                                 *)
LEMMA FreshVectorFree ==
  FreshVector \in Vectors /\ (FreshVector # 0 => FreshVector \notin vectors)
<1>1. CASE Vectors \ vectors = {}
  BY <1>1, InterruptsAssumption DEF FreshVector, Vectors, PIC_OFFSET
<1>2. CASE Vectors \ vectors # {}
  <2>1. Vectors \ vectors \in SUBSET Nat
    BY DEF Vectors
  <2>2. Min(Vectors \ vectors) \in Vectors \ vectors
    BY <2>1, <1>2, MinLeast
  <2> QED
    BY <2>2, <1>2 DEF FreshVector
<1> QED
  BY <1>1, <1>2

(* The lines whose masks change are lines of the controllers.                *)
LEMMA MaskBitLines ==
  ASSUME NEW v \in Vectors
  PROVE  MaskBit(v) \subseteq 0 .. 15
BY DEF MaskBit, Vectors

(* 0 is an entry of the table, and what is left of an installation names it.  *)
LEMMA NoInstallTyped == 0 \in Vectors /\ NoInstall \in Install
BY InterruptsAssumption DEF Vectors, Install, NoInstall, NULL, PIC_OFFSET, STUBS

(* Acknowledging the line in service, when there is one, leaves none.        *)
LEMMA EoiLast ==
  ASSUME NEW line \in 0 .. 7, in_service = {line}, Eoi
  PROVE  in_service' = {}
<1>1. Min({line}) = line
  BY MinLeast
<1> QED
  BY <1>1 DEF Eoi

-----------------------------------------------------------------------------
(* The initial states satisfy the inductive invariant.                       *)
LEMMA InitInvariant == Init => IInv
<1> SUFFICES ASSUME Init PROVE IInv
  OBVIOUS
<1> USE DEF Init
<1>1. TypeOK
  <2>1. masks \subseteq 0 .. 15 /\ 0 \in 0 .. TICK_CAP
    BY InterruptsAssumption
  <2>2. routine_services \in [Vectors -> {TIMER, KEYBOARD, NULL}]
    OBVIOUS
  <2> QED
    BY <2>1, <2>2, NoInstallTyped DEF TypeOK
<1>2. VectorsKept
  BY DEF VectorsKept, Owns
<1>3. InstallKept /\ ProcessorKept /\ TicksKept
  BY DEF InstallKept, ProcessorKept, TicksKept, Acknowledged
<1> QED
  BY <1>1, <1>2, <1>3 DEF IInv

(* Every step keeps the types.                                               *)
LEMMA StepTypes ==
  ASSUME IInv, Next
  PROVE  TypeOK'
<1> USE DEF IInv, TypeOK, idtVars, picVars, cpuVars, callVars, pitVars
<1>1. ASSUME NEW line \in LINES, Raise(line) PROVE TypeOK'
  BY <1>1 DEF Raise
<1>2. CASE Deliver
  BY <1>2 DEF Deliver, ExceptionHandler
<1>3. CASE Handle
  BY <1>3, CountedBounds DEF Handle, Eoi
<1>4. CASE InitIdt
  BY <1>4, InterruptsAssumption DEF InitIdt, At, PIC_OFFSET, Vectors
<1>5. CASE InitTimer \/ InitKeyboard
  <2>1. ASSUME NEW handler \in {TIMER, KEYBOARD}, TakeVector(handler)
        PROVE  vectors' \subseteq Vectors /\ installing' \in Install /\ pc' = "install"
    BY <2>1, FreshVectorFree DEF TakeVector, Install
  <2>2. FreshVector \in Vectors
    BY FreshVectorFree
  <2>3. CASE InitTimer
    BY <2>1, <2>2, <2>3 DEF InitTimer
  <2>4. CASE InitKeyboard
    BY <2>1, <2>2, <2>4 DEF InitKeyboard
  <2> QED
    BY <1>5, <2>3, <2>4
<1>6. CASE InstallRoutine
  BY <1>6 DEF InstallRoutine, At, Install
<1>7. CASE InstallGate
  BY <1>7, NoInstallTyped DEF InstallGate, At, Install
<1>8. CASE InitTimerEnd
  BY <1>8, MaskBitLines DEF InitTimerEnd, At
<1>9. CASE PitDisable
  BY <1>9, MaskBitLines, NoInstallTyped DEF PitDisable, FreeVector, At
<1>10. CASE DeadlineBegin
  <2>1. delay' \in Nat /\ 0 \in 0 .. TICK_CAP
    BY <1>10, InterruptsAssumption DEF DeadlineBegin
  <2>2. masks' \subseteq 0 .. 15
    BY <1>10 DEF DeadlineBegin
  <2> QED
    BY <1>10, <2>1, <2>2 DEF DeadlineBegin, Deadline
<1>11. CASE DeadlineReset \/ DeadlineWatch \/ DeadlineCheck \/ DeadlineHlt
  <2>1. CASE DeadlineReset
    <3>1. 0 \in 0 .. TICK_CAP
      BY InterruptsAssumption
    <3> QED
      BY <2>1, <3>1 DEF DeadlineReset, Deadline
  <2>2. CASE DeadlineWatch
    BY <2>2 DEF DeadlineWatch, Deadline
  <2>3. CASE DeadlineCheck
    BY <2>3 DEF DeadlineCheck, Deadline
  <2>4. CASE DeadlineHlt
    BY <2>4 DEF DeadlineHlt, Deadline
  <2> QED
    BY <1>11, <2>1, <2>2, <2>3, <2>4
<1>12. CASE DeadlineEnd
  BY <1>12, MaskBitLines DEF DeadlineEnd, At
<1> QED
  BY <1>1, <1>2, <1>3, <1>4, <1>5, <1>6, <1>7, <1>8, <1>9, <1>10, <1>11, <1>12
     DEF Next, CallStep

(* Every step leaves the drivers the vectors they own.                       *)
LEMMA StepVectors ==
  ASSUME IInv, Next
  PROVE  VectorsKept'
<1> USE DEF IInv, VectorsKept, Owns, Installing, idtVars, picVars, cpuVars, callVars, pitVars
<1>0. /\ Vectors \subseteq Nat /\ pit_vector \in Vectors /\ keyboard_vector \in Vectors
      /\ TIMER # KEYBOARD /\ TIMER # NULL /\ KEYBOARD # NULL
  BY DEF TypeOK, Vectors, TIMER, KEYBOARD, NULL
<1>1. CASE InitIdt
  BY <1>1 DEF InitIdt, At, PIC_OFFSET
<1>2. ASSUME NEW handler \in {TIMER, KEYBOARD}, At("idle"), TakeVector(handler),
             UNCHANGED <<gates, routine_services>>
      PROVE  /\ 1 .. PIC_OFFSET - 1 \subseteq vectors' /\ pc' = "install"
             /\ FreshVector # 0 => /\ FreshVector >= PIC_OFFSET /\ FreshVector \in vectors'
                                   /\ FreshVector # pit_vector
                                   /\ FreshVector # keyboard_vector
             /\ \A v \in gates' : v >= PIC_OFFSET => routine_services'[v] # NULL /\ v \in vectors'
  BY <1>0, <1>2, FreshVectorFree DEF At, TakeVector, Vectors, PIC_OFFSET
<1>3. CASE InitTimer
  <2>1. Owns(pit_vector, TIMER)'
    BY <1>2, <1>3 DEF InitTimer, TakeVector
  <2>2. Owns(keyboard_vector, KEYBOARD)'
    BY <1>3 DEF InitTimer, TakeVector, At
  <2> QED
    BY <1>2, <1>3, <2>1, <2>2 DEF InitTimer, TakeVector
<1>4. CASE InitKeyboard
  <2>1. Owns(keyboard_vector, KEYBOARD)'
    BY <1>2, <1>4 DEF InitKeyboard, TakeVector
  <2>2. Owns(pit_vector, TIMER)'
    BY <1>4 DEF InitKeyboard, TakeVector, At
  <2> QED
    BY <1>2, <1>4, <2>1, <2>2 DEF InitKeyboard, TakeVector
<1>5. ASSUME pc \in {"install", "gate"}
      PROVE  /\ installing.vector \in vectors
             /\ \/ installing.vector = pit_vector /\ installing.handler = TIMER
                \/ installing.vector = keyboard_vector /\ installing.handler = KEYBOARD
  BY <1>5 DEF InstallKept
<1>6. CASE InstallRoutine
  <2>1. \A v \in Vectors : routine_services'[v] = IF v = installing.vector THEN installing.handler
                                                  ELSE routine_services[v]
    BY <1>6 DEF InstallRoutine, TypeOK
  <2>2. Owns(pit_vector, TIMER)' /\ Owns(keyboard_vector, KEYBOARD)'
    BY <1>0, <1>5, <1>6, <2>1 DEF InstallRoutine, At
  <2>3. \A v \in gates' : v >= PIC_OFFSET => routine_services'[v] # NULL /\ v \in vectors'
    BY <1>0, <1>5, <1>6, <2>1 DEF InstallRoutine, At, TypeOK
  <2> QED
    BY <1>6, <2>2, <2>3 DEF InstallRoutine, At
<1>7. CASE InstallGate
  <2>1. routine_services[installing.vector] = installing.handler
    BY <1>7 DEF InstallGate, At, InstallKept
  <2>2. pc' \in {"idle", "unmask"} /\ gates' = gates \cup {installing.vector}
    BY <1>7 DEF InstallGate
  <2>3. Owns(pit_vector, TIMER)' /\ Owns(keyboard_vector, KEYBOARD)'
    BY <1>0, <1>5, <1>7, <2>1, <2>2 DEF InstallGate, At
  <2>4. \A v \in gates' : v >= PIC_OFFSET => routine_services'[v] # NULL /\ v \in vectors'
    BY <1>0, <1>5, <1>7, <2>1, <2>2 DEF InstallGate, At
  <2> QED
    BY <1>7, <2>2, <2>3, <2>4 DEF InstallGate, At
<1>8. CASE PitDisable
  <2>1. \A v \in Vectors : routine_services'[v] = IF v = pit_vector THEN NULL
                                                  ELSE routine_services[v]
    BY <1>0, <1>8 DEF PitDisable, FreeVector, TypeOK
  <2>2. 1 .. PIC_OFFSET - 1 \subseteq vectors'
    BY <1>0, <1>8 DEF PitDisable, FreeVector, At, PIC_OFFSET
  <2>3. Owns(keyboard_vector, KEYBOARD)'
    BY <1>0, <1>8, <2>1 DEF PitDisable, FreeVector, At
  <2>4. \A v \in gates' : v >= PIC_OFFSET => routine_services'[v] # NULL /\ v \in vectors'
    BY <1>0, <1>8, <2>1 DEF PitDisable, FreeVector, TypeOK
  <2> QED
    BY <1>8, <2>2, <2>3, <2>4 DEF PitDisable, FreeVector, At
<1>9. ASSUME UNCHANGED <<idtVars, pit_vector, keyboard_vector>>,
             pc' = pc \/ (pc \notin {"boot", "install", "gate"} /\ pc' \notin {"boot", "install", "gate"}),
             installing' = installing
      PROVE  VectorsKept'
  BY <1>9
<1>10. CASE InitTimerEnd \/ DeadlineBegin
  BY <1>9, <1>10 DEF InitTimerEnd, DeadlineBegin, At
<1>11. CASE DeadlineReset \/ DeadlineWatch \/ DeadlineCheck \/ DeadlineHlt \/ DeadlineEnd
  BY <1>9, <1>11
     DEF DeadlineReset, DeadlineWatch, DeadlineCheck, DeadlineHlt, DeadlineEnd, At
<1>12. CASE Deliver \/ Handle \/ \E line \in LINES : Raise(line)
  BY <1>9, <1>12 DEF Deliver, Handle, Raise
<1> QED
  BY <1>1, <1>3, <1>4, <1>6, <1>7, <1>8, <1>10, <1>11, <1>12 DEF Next, CallStep

(* Every step leaves idt_install_irq() what it works on.                     *)
LEMMA StepInstall ==
  ASSUME IInv, Next
  PROVE  InstallKept'
<1> USE DEF IInv, InstallKept, idtVars, picVars, cpuVars, callVars, pitVars
<1>1. CASE InitTimer \/ InitKeyboard
  BY <1>1 DEF InitTimer, InitKeyboard, TakeVector, TIMER, KEYBOARD
<1>2. CASE InstallRoutine
  BY <1>2 DEF InstallRoutine, At, TypeOK, Install
<1>3. CASE InitIdt \/ InstallGate \/ InitTimerEnd \/ PitDisable \/ DeadlineBegin
  BY <1>3 DEF InitIdt, InstallGate, InitTimerEnd, PitDisable, DeadlineBegin, At
<1>4. CASE DeadlineReset \/ DeadlineWatch \/ DeadlineCheck \/ DeadlineHlt \/ DeadlineEnd
  BY <1>4 DEF DeadlineReset, DeadlineWatch, DeadlineCheck, DeadlineHlt, DeadlineEnd, At
<1>5. CASE Deliver \/ Handle \/ \E line \in LINES : Raise(line)
  BY <1>5 DEF Deliver, Handle, Raise
<1> QED
  BY <1>1, <1>2, <1>3, <1>4, <1>5 DEF Next, CallStep

(* Every step leaves exactly the line in service whose handler runs.         *)
LEMMA StepProcessor ==
  ASSUME IInv, Next
  PROVE  ProcessorKept'
<1> USE DEF IInv, ProcessorKept, Acknowledged, idtVars, picVars, cpuVars, callVars, pitVars
<1>1. ASSUME NEW line \in LINES, Raise(line) PROVE ProcessorKept'
  BY <1>1 DEF Raise
<1>2. CASE Deliver
  <2>1. PICK line \in LINES :
          /\ in_service' = in_service \cup {line}
          /\ \/ running' = PIC_OFFSET + line /\ cpu' = "runs"
             \/ running' = running /\ cpu' = "stopped"
    BY <1>2 DEF Deliver, ExceptionHandler, TypeOK
  <2>2. running = NONE /\ in_service = {} /\ ~interrupts' /\ pc' = pc /\ pc # "boot"
    BY <1>2 DEF Deliver
  <2>3. line \in Nat
    BY InterruptsAssumption
  <2>4. CASE running' = PIC_OFFSET + line /\ cpu' = "runs"
    <3>1. running' # NONE /\ running' - PIC_OFFSET = line
      BY <2>3, <2>4 DEF PIC_OFFSET, NONE
    <3>2. in_service' = {line}
      BY <2>1, <2>2
    <3> QED
      BY <2>2, <2>4, <3>1, <3>2
  <2>5. CASE running' = running /\ cpu' = "stopped"
    BY <2>2, <2>5
  <2> QED
    BY <2>1, <2>4, <2>5
<1>3. CASE Handle
  <2>1. running # NONE /\ cpu # "stopped" /\ in_service = {running - PIC_OFFSET}
    BY <1>3 DEF Handle
  <2>2. in_service' = {}
    BY <1>3, <2>1, EoiLast, InterruptsAssumption DEF Handle, TypeOK
  <2> QED
    BY <1>3, <2>1, <2>2 DEF Handle
<1>4. CASE InitIdt \/ InitTimer \/ InitKeyboard \/ PitDisable
  BY <1>4 DEF InitIdt, InitTimer, InitKeyboard, TakeVector, PitDisable, FreeVector, At
<1>5. CASE InstallRoutine \/ InstallGate \/ InitTimerEnd
  BY <1>5 DEF InstallRoutine, InstallGate, InitTimerEnd, At
<1>6. CASE DeadlineBegin \/ DeadlineReset \/ DeadlineWatch
  BY <1>6 DEF DeadlineBegin, DeadlineReset, DeadlineWatch, At
<1>7. CASE DeadlineCheck \/ DeadlineHlt \/ DeadlineEnd
  BY <1>7 DEF DeadlineCheck, DeadlineHlt, DeadlineEnd, At
<1> QED
  BY <1>1, <1>2, <1>3, <1>4, <1>5, <1>6, <1>7 DEF Next, CallStep

(* Every step keeps the counter behind the interrupts, once it is reset, and *)
(* the loop ends no earlier than the counter says.                           *)
LEMMA StepTicks ==
  ASSUME IInv, Next
  PROVE  TicksKept'
<1> USE DEF IInv, TicksKept, idtVars, picVars, cpuVars, callVars, pitVars
<1>0. /\ current_tick \in 0 .. TICK_CAP /\ handled \in 0 .. TICK_CAP /\ TICK_CAP \in Nat
      /\ delay \in Nat
  BY InterruptsAssumption DEF TypeOK
<1>1. CASE Handle
  <2>1. CASE UNCHANGED <<current_tick, handled>>
    BY <1>1, <2>1 DEF Handle
  <2>2. CASE handled' = Counted(handled) /\ current_tick' \in {current_tick, Counted(current_tick)}
    <3>1. /\ Counted(handled) \in 0 .. TICK_CAP /\ handled <= Counted(handled)
          /\ Counted(current_tick) \in 0 .. TICK_CAP /\ current_tick <= Counted(current_tick)
          /\ current_tick <= handled => Counted(current_tick) <= Counted(handled)
      BY <1>0, CountedBounds, CountedMonotone
    <3> QED
      BY <1>0, <1>1, <2>2, <3>1 DEF Handle
  <2> QED
    BY <1>1, <2>1, <2>2 DEF Handle
<1>2. CASE DeadlineReset \/ DeadlineWatch \/ DeadlineCheck
  BY <1>0, <1>2 DEF DeadlineReset, DeadlineWatch, DeadlineCheck, At
<1>3. CASE DeadlineBegin \/ DeadlineHlt \/ DeadlineEnd
  BY <1>3 DEF DeadlineBegin, DeadlineHlt, DeadlineEnd, At
<1>4. CASE InitIdt \/ InitTimer \/ InitKeyboard \/ PitDisable
  BY <1>4 DEF InitIdt, InitTimer, InitKeyboard, TakeVector, PitDisable, At
<1>5. CASE InstallRoutine \/ InstallGate \/ InitTimerEnd
  BY <1>5 DEF InstallRoutine, InstallGate, InitTimerEnd
<1>6. CASE Deliver \/ \E line \in LINES : Raise(line)
  BY <1>6 DEF Deliver, Raise
<1> QED
  BY <1>1, <1>2, <1>3, <1>4, <1>5, <1>6 DEF Next, CallStep

(* Every step of the program, a handler or a device keeps the invariant.     *)
LEMMA StepInvariant == IInv /\ [Next]_vars => IInv'
<1>1. IInv /\ Next => IInv'
  BY StepTypes, StepVectors, StepInstall, StepProcessor, StepTicks DEF IInv
<1>2. IInv /\ UNCHANGED vars => IInv'
  BY DEF IInv, vars, idtVars, picVars, cpuVars, callVars, pitVars, TypeOK, VectorsKept,
         InstallKept, ProcessorKept, TicksKept, Owns, Installing, Acknowledged
<1> QED
  BY <1>1, <1>2

(* Every state of a behaviour satisfies the inductive invariant.             *)
LEMMA Invariance == Spec => []IInv
BY InitInvariant, StepInvariant, PTL DEF Spec

-----------------------------------------------------------------------------
(* The state of descriptor table, controllers, processor and timer keeps its *)
(* types: no handler, driver or deadline leaves an index outside the tables. *)
THEOREM InterruptsTyped == Spec => []TypeOK
<1>1. IInv => TypeOK
  BY DEF IInv
<1> QED
  BY <1>1, Invariance, PTL

(* An interrupt that a gate lets in finds a routine behind it, in whatever   *)
(* step of idt_install_irq() or idt_free_vector() it comes, and a driver's   *)
(* vector stays its own.                                                     *)
THEOREM HandlersStay == Spec => []HandlersKept
<1>1. IInv => HandlersKept
  BY DEF IInv, VectorsKept, Owns, Installing, HandlersKept
<1> QED
  BY <1>1, Invariance, PTL

(* The controller waits for the handler that runs and for no other.          *)
THEOREM InterruptsAcknowledged == Spec => []Acknowledged
<1>1. IInv => Acknowledged
  BY DEF IInv, ProcessorKept
<1> QED
  BY <1>1, Invariance, PTL

(* pit_deadline() returns only after as many timer interrupts as asked for.  *)
THEOREM DeadlineWaits == Spec => DeadlineNotEarly
<1>1. IInv => (pc = "end" /\ pc' # "end" => handled >= delay)
  BY DEF IInv, TypeOK, TicksKept
<1>2. IInv /\ [Next]_vars => [pc = "end" /\ pc' # "end" => handled >= delay]_vars
  BY <1>1
<1> QED
  BY <1>2, Invariance, PTL DEF Spec, DeadlineNotEarly
=============================================================================
