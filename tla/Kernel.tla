------------------------------- MODULE Kernel -------------------------------
(***************************************************************************)
(* The kernel's one thread and the interrupt handlers that preempt it      *)
(* (hypervisor/start.c, fifo8.c, serial.c): kernelstart's boot sequence    *)
(* and main loop, the handlers for the keyboard, the mouse and COM1, the   *)
(* three byte rings between them, and as much of the 8259 pair, the i8042  *)
(* and the 16550 as these programs rely on.                                *)
(*                                                                         *)
(* The thread advances from one access to what handlers share with it to   *)
(* the next.  A handler is one action: the gates are interrupt gates, so   *)
(* it runs with interrupts off, from the gate to iret.  What a byte means  *)
(* once delivered belongs to the handlers of start.c and console.c, whose  *)
(* state no interrupt touches; here they are the step "handler".           *)
(***************************************************************************)
EXTENDS Fifo8, FiniteSets

CONSTANTS
  KeyBytes, MouseBytes, SerialBytes,  \* what each device can send
  NUL,         \* '\0', read_serial's answer when nothing was received
  MinusOne,    \* fifo_get's answer on an empty ring
  Garbage,     \* the uninitialized contents of kernelstart's locals
  QSize,       \* the size of each ring: 32, 128 and 32 in kernelstart
  RxDepth,     \* the 16550's receive FIFO: 16
  RxTrigger,   \* its interrupt threshold: 14 by lowlevel_init
  MaxBacklog   \* bound on the undelivered console bytes the model follows

Dev == {"key", "mouse", "serial"}

ASSUME SizeAssumption == QSize \in [Dev -> 1..255]
ASSUME UartAssumption == /\ RxTrigger \in Nat \ {0} /\ RxDepth \in Nat
                         /\ RxTrigger <= RxDepth
ASSUME BacklogAssumption == MaxBacklog \in Nat

Byte == KeyBytes \cup MouseBytes \cup SerialBytes \cup {NUL}

VARIABLES
  fifo,      \* key_fifo, mouse_fifo and serial_fifo
  pc, cur,   \* where the thread is, and the device it is serving
  data,      \* the local "unsigned char data" of each branch of the loop
  reg,       \* the register that holds fifo->free within fifo->free++
  intr,      \* EFLAGS.IF
  halted,    \* the processor waits in hlt
  gates,     \* the IRQs whose interrupt gate is present in the IDT
  irr, isr,  \* the 8259 pair: requests latched, levels in service
  enabled,   \* the IRQs whose mask bit is clear
  obf,       \* the i8042's output buffer: one byte, full or taken
  rx,        \* the 16550's receive FIFO
  timeout,   \* its character timeout is pending
  backlog    \* history: the bytes each ring accepted and has not delivered

cpu  == <<pc, cur, data, reg, intr, halted, gates>>
pic  == <<irr, isr, enabled>>
uart == <<rx, timeout>>
vars == <<fifo, cpu, pic, obf, uart, backlog>>

-----------------------------------------------------------------------------
(* Interrupt requests.                                                     *)

IRQ(d)   == CASE d = "key" -> 1 [] d = "serial" -> 4 [] d = "mouse" -> 12
Cascade  == 2
Spurious == 7
Handled  == {1, 4, Spurious, 12}

\* The master's input of a request: the slave's twelve comes in on the cascade.
Level(irq) == IF irq = 12 THEN Cascade ELSE irq

Requested(irq) == /\ irq \in irr
                  /\ {irq, Level(irq)} \subseteq enabled
                  /\ \A s \in isr : Level(irq) < Level(s)

\* The processor takes the request of highest priority.
Interrupt(irq) == /\ intr
                  /\ Requested(irq)
                  /\ \A other \in irr : Requested(other) => Level(irq) <= Level(other)

Acknowledged(irq) == isr \cup {irq, Level(irq)}

\* A non-specific EOI clears the master's level of highest priority.
NonSpecificEoi(inService) ==
  {s \in inService : s > 7 \/ \E t \in inService : t < s}

-----------------------------------------------------------------------------
(* The devices.                                                            *)

\* The 16550 asserts its line at the threshold, or after a silence.  The 8259
\* is edge triggered: it latches a request when the line rises.
LineHigh(q, silence) == Len(q) >= RxTrigger \/ silence

PrePic   == {"init_gdtidt", "init_pic"}
PreMouse == PrePic \cup {"fifo_init", "sti", "unmask_pic0", "unmask_pic1",
                         "init_keyboard", "enable_mouse"}

KbcOutput(d, b) ==
  /\ ~obf.full
  /\ d = "mouse" => pc \notin PreMouse
  /\ obf' = [full |-> TRUE, src |-> d, byte |-> b]
  /\ irr' = irr \cup {IRQ(d)}
  /\ UNCHANGED <<fifo, cpu, isr, enabled, uart, backlog>>

UartReceive(b) ==
  /\ pc \notin PrePic
  /\ Len(rx) < RxDepth
  /\ rx' = Append(rx, b)
  /\ irr' = IF LineHigh(rx', timeout) /\ ~LineHigh(rx, timeout)
            THEN irr \cup {IRQ("serial")} ELSE irr
  /\ UNCHANGED <<fifo, cpu, isr, enabled, obf, timeout, backlog>>

UartTimeout ==
  /\ rx # <<>> /\ ~LineHigh(rx, timeout)
  /\ timeout' = TRUE
  /\ irr' = irr \cup {IRQ("serial")}
  /\ UNCHANGED <<fifo, cpu, isr, enabled, obf, rx, backlog>>

-----------------------------------------------------------------------------
(* The interrupt handlers.  Taking an interrupt ends a hlt.                *)

Enqueue(d, b) ==
  /\ fifo' = [fifo EXCEPT ![d] = fifo_put(fifo[d], b)]
  /\ backlog' = IF fifo_put(fifo[d], b).free # fifo[d].free
                THEN [backlog EXCEPT ![d] = Append(backlog[d], b)] ELSE backlog

\* A handler's whole run: the levels still in service when it ends, and the byte
\* it puts in its device's ring.
Serve(irq, inService, d, b) ==
  /\ Interrupt(irq)
  /\ irr' = irr \ {irq}
  /\ isr' = inService
  /\ Enqueue(d, b)
  /\ halted' = FALSE
  /\ UNCHANGED <<pc, cur, data, reg, intr, gates, enabled>>

\* io_in8(0x60)
ReadKbc == obf' = [obf EXCEPT !.full = FALSE] /\ UNCHANGED uart

\* Mutant: the handler forgets io_in8(0x60).
inthandler21_NoRead ==
  Serve(1, NonSpecificEoi(Acknowledged(1)), "key", obf.byte) /\ UNCHANGED <<obf, uart>>

inthandler21 ==
  Serve(1, NonSpecificEoi(Acknowledged(1)), "key", obf.byte) /\ ReadKbc

inthandler2c ==
  Serve(12, Acknowledged(12) \ {12, Cascade}, "mouse", obf.byte) /\ ReadKbc

read_serial == IF rx # <<>> THEN Head(rx) ELSE NUL

ReadUart == /\ Len(backlog["serial"]) < MaxBacklog
            /\ rx' = IF rx # <<>> THEN Tail(rx) ELSE rx
            /\ timeout' = (timeout /\ rx = <<>>)
            /\ UNCHANGED obf

\* Mutant: the handler forgets PIC0_OCW2 <- 0x20.
inthandler24_NoEoi == Serve(4, Acknowledged(4), "serial", read_serial) /\ ReadUart

inthandler24 ==
  Serve(4, NonSpecificEoi(Acknowledged(4)), "serial", read_serial) /\ ReadUart

\* The 8259 answers a request that has gone away with its level seven.
inthandler27 ==
  /\ intr
  /\ isr' = isr \ {Spurious}
  /\ halted' = FALSE
  /\ UNCHANGED <<fifo, pc, cur, data, reg, intr, gates, irr, enabled, obf, uart, backlog>>

-----------------------------------------------------------------------------
(* The boot sequence of kernelstart.                                       *)

At(label) == pc = label /\ ~halted

\* Mutant: the gate of IRQ 7 is left out.
init_gdtidt_NoSpurious ==
  /\ At("init_gdtidt") /\ pc' = "init_pic"
  /\ gates' = Handled \ {Spurious}
  /\ UNCHANGED <<fifo, cur, data, reg, intr, halted, pic, obf, uart, backlog>>

init_gdtidt ==
  /\ At("init_gdtidt") /\ pc' = "init_pic"
  /\ gates' = Handled
  /\ UNCHANGED <<fifo, cur, data, reg, intr, halted, pic, obf, uart, backlog>>

\* ICW1 forgets the requests latched so far: a line that is still high makes
\* no new edge.
init_pic ==
  /\ At("init_pic") /\ pc' = "fifo_init"
  /\ irr' = {} /\ isr' = {} /\ enabled' = {Cascade}
  /\ UNCHANGED <<fifo, cur, data, reg, intr, halted, gates, obf, uart, backlog>>

Stack(d) == [i \in 0..(QSize[d] - 1) |-> Garbage]

init_fifos ==
  /\ At("fifo_init") /\ pc' = "sti"
  /\ fifo' = [d \in Dev |-> fifo_init(QSize[d], Stack(d))]
  /\ UNCHANGED <<cur, data, reg, intr, halted, gates, pic, obf, uart, backlog>>

boot_sti ==
  /\ At("sti") /\ pc' = "unmask_pic0"
  /\ intr' = TRUE
  /\ UNCHANGED <<fifo, cur, data, reg, halted, gates, pic, obf, uart, backlog>>

\* PIC0_DATA <- 0xe9
unmask_pic0 ==
  /\ At("unmask_pic0") /\ pc' = "unmask_pic1"
  /\ enabled' = (enabled \ (0..7)) \cup {1, Cascade, 4}
  /\ UNCHANGED <<fifo, cur, data, reg, intr, halted, gates, irr, isr, obf, uart, backlog>>

\* PIC1_DATA <- 0xef
unmask_pic1 ==
  /\ At("unmask_pic1") /\ pc' = "init_keyboard"
  /\ enabled' = (enabled \ (8..15)) \cup {12}
  /\ UNCHANGED <<fifo, cur, data, reg, intr, halted, gates, irr, isr, obf, uart, backlog>>

\* Writing the mode byte makes the i8042 drive its interrupt line afresh.
init_keyboard ==
  /\ At("init_keyboard") /\ pc' = "enable_mouse"
  /\ irr' = IF obf.full THEN irr \cup {IRQ(obf.src)} ELSE irr
  /\ UNCHANGED <<fifo, cur, data, reg, intr, halted, gates, isr, enabled, obf, uart, backlog>>

enable_mouse ==
  /\ At("enable_mouse") /\ pc' = "desktop"
  /\ UNCHANGED <<fifo, cur, data, reg, intr, halted, gates, pic, obf, uart, backlog>>

\* Page tables, desktop and memory map are drawn from state of the thread's own.
drawing ==
  /\ At("desktop") /\ pc' = "stihlt"
  /\ UNCHANGED <<fifo, cur, data, reg, intr, halted, gates, pic, obf, uart, backlog>>

boot_stihlt ==
  /\ At("stihlt") /\ pc' = "banner"
  /\ intr' = TRUE /\ halted' = TRUE
  /\ UNCHANGED <<fifo, cur, data, reg, gates, pic, obf, uart, backlog>>

\* The banner on COM1, enablePaging, and into the loop.
banner ==
  /\ At("banner") /\ pc' = "loop"
  /\ UNCHANGED <<fifo, cur, data, reg, intr, halted, gates, pic, obf, uart, backlog>>

-----------------------------------------------------------------------------
(* The main loop of kernelstart.                                           *)

\* Mutant: the loop tests the rings without io_cli.
loop_cli_Open ==
  /\ At("loop") /\ pc' = "poll"
  /\ UNCHANGED <<fifo, cur, data, reg, intr, halted, gates, pic, obf, uart, backlog>>

loop_cli ==
  /\ At("loop") /\ pc' = "poll"
  /\ intr' = FALSE
  /\ UNCHANGED <<fifo, cur, data, reg, halted, gates, pic, obf, uart, backlog>>

Waiting(d) == fifo_status(fifo[d]) > 0

\* The keyboard goes before the mouse, and the mouse before the console
\* (mutant: the mouse first).
Before_MouseFirst(d) == CASE d = "mouse" -> {} [] d = "key" -> {"mouse"}
                          [] d = "serial" -> {"key", "mouse"}
Before(d) == CASE d = "key" -> {} [] d = "mouse" -> {"key"}
               [] d = "serial" -> {"key", "mouse"}

\* Mutant: the mouse ring is left out of the tests.
PollOnly(polled) ==
  /\ At("poll")
  /\ \/ /\ \A d \in polled : ~Waiting(d)
        /\ pc' = "stihlt_idle"
        /\ UNCHANGED cur
     \/ \E d \in polled : /\ Waiting(d) /\ \A e \in Before(d) : ~Waiting(e)
                          /\ cur' = d
                          /\ pc' = IF d = "serial" THEN "serial_sti" ELSE "get"
  /\ UNCHANGED <<fifo, data, reg, intr, halted, gates, pic, obf, uart, backlog>>
poll_NoMouse == PollOnly({"key", "serial"})

poll ==
  /\ At("poll")
  /\ \/ /\ \A d \in Dev : ~Waiting(d)
        /\ pc' = "stihlt_idle"
        /\ UNCHANGED cur
     \/ \E d \in Dev : /\ Waiting(d) /\ \A e \in Before(d) : ~Waiting(e)
                       /\ cur' = d
                       /\ pc' = IF d = "serial" THEN "serial_sti" ELSE "get"
  /\ UNCHANGED <<fifo, data, reg, intr, halted, gates, pic, obf, uart, backlog>>

\* Mutant: hlt without sti.
idle_NoSti ==
  /\ At("stihlt_idle") /\ pc' = "loop"
  /\ halted' = TRUE
  /\ UNCHANGED <<fifo, cur, data, reg, intr, gates, pic, obf, uart, backlog>>

\* sti takes effect after the instruction that follows it, which is hlt: no
\* interrupt comes between the two.
idle ==
  /\ At("stihlt_idle") /\ pc' = "loop"
  /\ intr' = TRUE /\ halted' = TRUE
  /\ UNCHANGED <<fifo, cur, data, reg, gates, pic, obf, uart, backlog>>

\* The console branch enables interrupts before it takes its byte.
serial_sti ==
  /\ At("serial_sti") /\ pc' = "get"
  /\ intr' = TRUE
  /\ UNCHANGED <<fifo, cur, data, reg, halted, gates, pic, obf, uart, backlog>>

EmptyGet(d) == IF d = "serial" THEN NUL ELSE MinusOne

\* fifo_get up to its first store.  The tests of free (the one of
\* get_serial_fifo included) belong to this step: a handler can only lower
\* free, so no handler changes their outcome.
get_byte ==
  /\ At("get")
  /\ IF fifo[cur].free = fifo[cur].size
     THEN /\ data' = [data EXCEPT ![cur] = EmptyGet(cur)]
          /\ pc' = "got"
          /\ UNCHANGED <<fifo, backlog>>
     ELSE /\ data' = [data EXCEPT ![cur] = head_byte(fifo[cur])]
          /\ fifo' = [fifo EXCEPT ![cur] = take_head(fifo[cur])]
          /\ backlog' = [backlog EXCEPT ![cur] = Tail(backlog[cur])]
          /\ pc' = "load_free"
  /\ UNCHANGED <<cur, reg, intr, halted, gates, pic, obf, uart>>

get_load ==
  /\ At("load_free") /\ pc' = "store_free"
  /\ reg' = fifo[cur].free
  /\ UNCHANGED <<fifo, cur, data, intr, halted, gates, pic, obf, uart, backlog>>

get_store ==
  /\ At("store_free") /\ pc' = "got"
  /\ fifo' = [fifo EXCEPT ![cur] = release_slot(fifo[cur], reg)]
  /\ UNCHANGED <<cur, data, reg, intr, halted, gates, pic, obf, uart, backlog>>

\* io_sti of the keyboard and mouse branches; the console's has run already.
got_sti ==
  /\ At("got") /\ pc' = "handler"
  /\ intr' = TRUE
  /\ UNCHANGED <<fifo, cur, data, reg, halted, gates, pic, obf, uart, backlog>>

\* keyboard_handler, mouse_handler, or the rest of serial_console.
handle ==
  /\ At("handler") /\ pc' = "loop"
  /\ UNCHANGED <<fifo, cur, data, reg, intr, halted, gates, pic, obf, uart, backlog>>

-----------------------------------------------------------------------------
Labels == PreMouse \cup {"desktop", "stihlt", "banner", "loop", "poll",
            "stihlt_idle", "serial_sti", "get", "load_free", "store_free",
            "got", "handler"}

\* A cold boot: the image's .bss is zero, interrupts are off and masked, and
\* the user may have pressed a key since the firmware stopped listening.
Init ==
  /\ fifo = [d \in Dev |-> fifo_init(0, Stack(d))]
  /\ pc = "init_gdtidt" /\ cur = "key"
  /\ data = [d \in Dev |-> Garbage] /\ reg = 0
  /\ intr = FALSE /\ halted = FALSE /\ gates = {}
  /\ obf \in [full : BOOLEAN, src : {"key"}, byte : KeyBytes]
  /\ irr = IF obf.full THEN {1} ELSE {}
  /\ isr = {} /\ enabled = {Cascade}
  /\ rx = <<>> /\ timeout = FALSE
  /\ backlog = [d \in Dev |-> <<>>]

Boot == \/ init_gdtidt \/ init_pic \/ init_fifos \/ boot_sti
        \/ unmask_pic0 \/ unmask_pic1 \/ init_keyboard \/ enable_mouse
        \/ drawing \/ boot_stihlt \/ banner

Loop == \/ loop_cli \/ poll \/ idle \/ serial_sti \/ get_byte
        \/ get_load \/ get_store \/ got_sti \/ handle

Thread == Boot \/ Loop

Handlers == inthandler21 \/ inthandler24 \/ inthandler2c \/ inthandler27

Devices == \/ \E b \in KeyBytes : KbcOutput("key", b)
           \/ \E b \in MouseBytes : KbcOutput("mouse", b)
           \/ \E b \in SerialBytes : UartReceive(b)
           \/ UartTimeout

Next == Thread \/ Handlers \/ Devices

Spec == Init /\ [][Next]_vars

-----------------------------------------------------------------------------
(* Safety.                                                                 *)

\* The rings written by a handler and, between cli and sti only, read by the
\* thread.
Guarded == {"key", "mouse"}

\* The slot fifo_get has emptied but not yet counted as free.
Taken(d) == IF cur = d /\ pc \in {"load_free", "store_free"} THEN 1 ELSE 0
Occupied(d) == fifo_status(fifo[d]) - Taken(d)

RingType(d) == [buf : [0..(QSize[d] - 1) -> Byte \cup {Garbage}],
                size : {0, QSize[d]}, free : 0..QSize[d], flag : {0, FIFO_FULL},
                head : 0..(QSize[d] - 1), tail : 0..(QSize[d] - 1)]

RingsOK   == DOMAIN fifo = Dev /\ \A d \in Dev : fifo[d] \in RingType(d)
BacklogOK == DOMAIN backlog = Dev /\ \A d \in Dev : backlog[d] \in Seq(Byte)
CpuOK     == /\ pc \in Labels /\ cur \in Dev
             /\ data \in [Dev -> Byte \cup {MinusOne, Garbage}] /\ reg \in 0..255
             /\ gates \subseteq Handled
PicOK     == /\ irr \subseteq {1, 4, 12} /\ isr \subseteq Handled \cup {Cascade}
             /\ enabled \subseteq {1, Cascade, 4, 12}
DevicesOK == /\ obf \in [full : BOOLEAN, src : {"key"}, byte : KeyBytes]
                   \cup [full : BOOLEAN, src : {"mouse"}, byte : MouseBytes]
             /\ rx \in Seq(SerialBytes)
FlagsOK   == intr \in BOOLEAN /\ halted \in BOOLEAN /\ timeout \in BOOLEAN

\* Every variable has its type; free never passes size, and no index leaves
\* the buffer, whatever interrupts fifo_get.
TypeOK == RingsOK /\ BacklogOK /\ CpuOK /\ PicOK /\ DevicesOK /\ FlagsOK

\* No interrupt can be taken before its gate and its ring exist: kernelstart
\* installs and initializes everything before io_sti.
InterruptsAfterSetup ==
  intr => gates = Handled /\ \A d \in Dev : fifo[d].size = QSize[d]

\* Each handler acknowledges exactly the levels it was entered on, the slave's
\* and the cascade for the mouse: nothing stays in service to block the others.
NothingLeftInService == isr = {}

\* The i8042 and the 8259 agree: a handler finds in port 0x60 the byte of its
\* own device, and once init_keyboard has run a full output buffer always has
\* its interrupt pending, so that keyboard and mouse cannot lock up.
ControllersAgree ==
  /\ 1 \in irr => obf.full /\ obf.src = "key"
  /\ 12 \in irr => obf.full /\ obf.src = "mouse"
  /\ obf.full => pc \in PreMouse \/ IRQ(obf.src) \in irr

\* A ring filled by interrupts and emptied under cli holds exactly the bytes
\* accepted and not yet delivered, oldest at head, and counts them right.
Ordered(d) ==
  Queued(fifo[d].buf, fifo[d].head, fifo[d].tail, QSize[d], backlog[d])
RingExact == \A d \in Guarded : Occupied(d) = Len(backlog[d]) /\ Ordered(d)

\* serial_console takes its byte with interrupts enabled.  An interrupt in the
\* middle of fifo->free++ can make fifo_status report fewer bytes than wait, but
\* never more: the console is never handed a slot nobody filled.
SerialNeverOverReports == Occupied("serial") <= Len(backlog["serial"])

\* When the main loop halts the processor, no keyboard or mouse byte waits:
\* the test and the hlt cannot be separated by an interrupt.
SleepsOnlyWhenDrained ==
  halted /\ pc = "loop" => /\ backlog["key"] = <<>> /\ backlog["mouse"] = <<>>
                           /\ ~Waiting("serial")

\* While the console is at most a ring behind, it gets its bytes in order, even
\* after interrupts have hit fifo_get.
SerialInOrder ==
  [][pc = "get" /\ cur = "serial" /\ pc' = "load_free"
       /\ Len(backlog["serial"]) <= QSize["serial"]
     => data'["serial"] = Head(backlog["serial"])]_vars

\* The inductive invariant.  TypeOK needs it, because whether Tail(backlog) and
\* free + 1 make sense at fifo_get depends on what the handlers may have done
\* since the thread last looked.
PreRings == PrePic \cup {"fifo_init"}

SetupOrder ==
  /\ pc # "init_gdtidt" => gates = Handled
  /\ pc \notin PreRings => \A d \in Dev : fifo[d].size = QSize[d]
  /\ pc \in PreRings => \A d \in Dev : /\ fifo[d].size = 0 /\ fifo[d].free = 0
                                      /\ fifo[d].head = 0 /\ fifo[d].tail = 0
                                      /\ fifo[d].flag = 0 /\ backlog[d] = <<>>
  /\ pc = "sti" => \A d \in Dev : backlog[d] = <<>>
  /\ intr => pc \notin PreRings \cup {"sti"}

\* Where the thread holds interrupts off.
CliSections ==
  /\ pc \in {"poll", "stihlt_idle", "serial_sti"} => ~intr
  /\ pc \in {"get", "load_free", "store_free"} /\ cur \in Guarded => ~intr
  /\ pc = "stihlt_idle" => \A d \in Dev : ~Waiting(d)
  /\ halted => intr /\ pc \in {"banner", "loop"}

\* From the test to the end of fifo_get the ring is not empty, and the free
\* count loaded can only be too large by now: handlers have lowered the stored
\* one.
GetWindow ==
  /\ pc = "serial_sti" => cur = "serial"
  /\ pc \in {"serial_sti", "get", "load_free", "store_free"}
       => fifo[cur].free < fifo[cur].size
  /\ pc = "store_free" => /\ fifo[cur].free <= reg /\ reg < fifo[cur].size
                          /\ cur \in Guarded => reg = fifo[cur].free

Counted(d) == /\ Occupied(d) <= Len(backlog[d])
              /\ d \in Guarded => Occupied(d) = Len(backlog[d])
Counts == \A d \in Dev : Counted(d)

Contents == \A d \in Guarded : Ordered(d)

\* From init_keyboard on, not only from the main loop.
KeyboardRearmed ==
  obf.full => pc \in PreMouse \ {"enable_mouse"} \/ IRQ(obf.src) \in irr

Inductive == /\ TypeOK /\ SetupOrder /\ CliSections /\ GetWindow /\ Counts
             /\ Contents /\ NothingLeftInService /\ ControllersAgree
             /\ KeyboardRearmed /\ SleepsOnlyWhenDrained

\* A byte leaves a device only into that device's ring, or because as many
\* bytes wait as the ring has slots (the one being taken counts), and then the
\* ring records FIFO_FULL.
EntersOrFull(d, b) ==
  \/ backlog'[d] = Append(backlog[d], b)
  \/ /\ Len(backlog[d]) + Taken(d) >= QSize[d] /\ backlog'[d] = backlog[d]
     /\ fifo'[d].flag = FIFO_FULL
NoNeedlessDrop ==
  [][/\ obf.full /\ ~obf'.full => EntersOrFull(obf.src, obf.byte)
     /\ Len(rx') < Len(rx) => EntersOrFull("serial", Head(rx))]_vars

\* The keyboard and the mouse ring, with their handler and their branch of the
\* main loop, implement the bounded queue.
KeyQueue == INSTANCE BoundedQueue WITH
  Byte <- KeyBytes, Capacity <- QSize["key"], queue <- backlog["key"],
  out <- data["key"], overflow <- (fifo["key"].flag = FIFO_FULL)
MouseQueue == INSTANCE BoundedQueue WITH
  Byte <- MouseBytes, Capacity <- QSize["mouse"], queue <- backlog["mouse"],
  out <- data["mouse"], overflow <- (fifo["mouse"].flag = FIFO_FULL)
GuardedQueues == KeyQueue!Spec /\ MouseQueue!Spec

-----------------------------------------------------------------------------
(* Liveness.                                                               *)

\* The processor executes the thread, and takes a request that keeps coming:
\* the devices are slower than the instructions between two sti.
Fairness == /\ WF_vars(Thread)
            /\ SF_vars(inthandler21) /\ SF_vars(inthandler2c) /\ SF_vars(inthandler24)
            /\ WF_vars(UartTimeout)

FairSpec == Spec /\ Fairness

Looping == pc \notin PreMouse \cup {"desktop", "stihlt", "banner"}
Serving(d) == pc = "handler" /\ cur = d

Quiet(devices)   == <>[](~(obf.full /\ obf.src \in devices))

\* What waits once the main loop runs is served: a scan code whatever else happens,
\* a mouse byte once the keyboard stops, a console byte that serial_fifo counts once
\* both stop.  The loop promises no more, and interrupts that hit fifo_get lose no
\* count already made.
InputsServed ==
  /\ (Looping /\ backlog["key"] # <<>>) ~> Serving("key")
  /\ Quiet({"key"}) => ((Looping /\ backlog["mouse"] # <<>>) ~> Serving("mouse"))
  /\ Quiet(Guarded) => ((Looping /\ Waiting("serial")) ~> Serving("serial"))

\* A full receive FIFO is read again, although the handler reads one byte per
\* interrupt, as long as the sender never passes the interrupt threshold
\* (RxDepth = RxTrigger) and the history has room.
UartDrained ==
  Len(rx) = RxDepth ~> \/ Len(rx) < RxDepth
                       \/ Len(backlog["serial"]) = MaxBacklog

\* An interrupt that is pending when the processor halts, at boot or in the
\* loop, wakes it: sti and hlt leave no gap.
PendingWakes == (halted /\ \E irq \in {1, 4, 12} : Requested(irq)) ~> ~halted
=============================================================================
