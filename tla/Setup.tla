------------------------------- MODULE Setup --------------------------------
(***************************************************************************)
(* Up to the first interrupt of the kernel: the port writes of             *)
(* lowlevel_init.s, made in real mode with interrupts enabled, the switch  *)
(* to protected mode, and of kernelstart the palette, the interrupt table, *)
(* init_pic, io_sti and the two masks.                                     *)
(*                                                                         *)
(* Each chip is what its registers hold.  In real mode an interrupt enters *)
(* the firmware: its handlers acknowledge on the firmware's own vectors;   *)
(* on any other it returns at once.                                        *)
(***************************************************************************)
EXTENDS Descriptors, Sequences

CONSTANTS
  Lines,      \* the inputs of each 8259 that devices use: Lines.master, Lines.slave
  HandlerAt,  \* where the linker put the handlers, by vector: offsets in the kernel's segment
  GdtOffset   \* where the assembler put gdt in its segment

VARIABLES
  ip,      \* the next step of Program
  intr,    \* EFLAGS.IF
  pmode,   \* protected mode
  pic,     \* the two 8259s
  uart,    \* the 16550
  dac,     \* the palette registers of the VGA
  gdtr, idtr,  \* base and limit of the tables the processor uses
  idt,     \* the table in memory: where it lies, its gates
  spare    \* the segment table the kernel clears and never loads: where, its entries

setupVars == <<ip, intr, pmode, pic, uart, dac, gdtr, idtr, idt, spare>>

-----------------------------------------------------------------------------
(* The program, as <<"out", port, value>> and single instructions.         *)

FirmwareVector == [master |-> 8, slave |-> 112]

out(port, value) == <<"out", port, value>>
PIC0 == 32
PIC1 == 160
COM1 == 1016

\* Vectors from 0x20 and 0x28, the slave on input two; then everything masked but
\* that input.
lowlevel_pics ==
  <<out(PIC0, 17), out(PIC1, 17), out(PIC0 + 1, 32), out(PIC1 + 1, 40),
    out(PIC0 + 1, 4), out(PIC1 + 1, 2), out(PIC0 + 1, 1), out(PIC1 + 1, 1),
    out(PIC0 + 1, 255), out(PIC1 + 1, 255), out(PIC0 + 1, 251), out(PIC1 + 1, 255)>>

\* 115200 baud, eight bits, FIFO threshold 14.
lowlevel_uart ==
  <<out(COM1 + 1, 1), out(COM1 + 3, 128), out(COM1, 1), out(COM1 + 1, 0),
    out(COM1 + 3, 3), out(COM1 + 2, 199), out(COM1 + 4, 11)>>

\* The segment registers hold a base; gdt_ptr adds the segment's, idt_ptr is empty.
Gdt == 458752 + GdtOffset
switch_pmode == <<<<"cli">>, <<"lidt", 0, 0>>, <<"lgdt", Gdt, 32>>, <<"pmode">>>>

\* The table of lowlevel_init.s: none, none, code, data.
Raw(limit_low, base_mid, access, limit_high) ==
  [limit_low |-> limit_low, base_low |-> 0, base_mid |-> base_mid, access_right |-> access,
   limit_high |-> limit_high, base_high |-> 0]
NoSegment == Raw(0, 0, 0, 0)
Flat(access) == Raw(65535, 1, access, 207)
gdt == <<NoSegment, NoSegment, Flat(154), Flat(146)>>
Descriptor(selector) == gdt[selector \div 8 + 1]

\* What the kernel finds at an offset, through the selector it loaded into ds.
Linear32(offset) == SegmentBase(Descriptor(3 * 8)) + offset

set_palette(start, rgb) ==
  [k \in 1..(1 + 3 * Len(rgb)) |->
     IF k = 1 THEN out(968, start) ELSE out(969, rgb[(k + 1) \div 3][((k + 1) % 3) + 1] \div 4)]
table_rgb ==
  <<<<0, 0, 0>>, <<255, 0, 0>>, <<0, 255, 0>>, <<255, 255, 0>>,
    <<0, 0, 255>>, <<255, 0, 255>>, <<0, 255, 255>>, <<255, 255, 255>>,
    <<198, 198, 198>>, <<132, 0, 0>>, <<0, 132, 0>>, <<132, 132, 0>>,
    <<0, 0, 132>>, <<132, 0, 132>>, <<0, 132, 132>>, <<132, 132, 132>>>>
init_palette == set_palette(0, table_rgb)

\* AR_INTGATE32, at ADR_IDT less SYSSEG << 4.  (Mutant: a gate is left out.)
gate(vector) == <<"gate", vector, set_gatedesc(HandlerAt[vector], 2 * 8, 142)>>
ADR_IDT == 2553856
ADR_GDT == 2555904
LIMIT_GDT == 65535
init_gdtidt_NoSpurious ==
  <<<<"segments", Linear32(ADR_GDT - 65536)>>, <<"gates", Linear32(ADR_IDT - 65536)>>,
    <<"lidt", ADR_IDT, 2047>>, gate(36), gate(33), gate(44)>>
init_gdtidt ==
  <<<<"segments", Linear32(ADR_GDT - 65536)>>, <<"gates", Linear32(ADR_IDT - 65536)>>,
    <<"lidt", ADR_IDT, 2047>>, gate(36), gate(33), gate(39), gate(44)>>

\* (Mutant: init_pic trusts the words lowlevel_init.s wrote.)
init_pic_MasksOnly ==
  <<out(PIC1 + 1, 255), out(PIC0 + 1, 255), out(PIC0 + 1, 251), out(PIC1 + 1, 255)>>
init_pic ==
  <<out(PIC1 + 1, 255), out(PIC0 + 1, 255),
    out(PIC0, 17), out(PIC1, 17), out(PIC1 + 1, 40), out(PIC0 + 1, 32),
    out(PIC0 + 1, 4), out(PIC1 + 1, 2), out(PIC0 + 1, 1), out(PIC1 + 1, 1),
    out(PIC0 + 1, 251), out(PIC1 + 1, 255)>>

unmask == <<<<"sti">>, out(PIC0 + 1, 233), out(PIC1 + 1, 239)>>

Program == lowlevel_pics \o lowlevel_uart \o switch_pmode
           \o init_palette \o init_gdtidt \o init_pic \o unmask

-----------------------------------------------------------------------------
(* The chips.                                                              *)

\* "word" is the initialization word the data port expects, or "mask".
PicCommand(c, value) == IF Bit(value, 4) THEN [c EXCEPT !.word = "vector", !.imr = 0, !.isr = {}]
                        ELSE c
PicData(c, value) ==
  CASE c.word = "vector"  -> [c EXCEPT !.vector = value, !.word = "cascade"]
    [] c.word = "cascade" -> [c EXCEPT !.cascade = value, !.word = "mode"]
    [] c.word = "mode"    -> [c EXCEPT !.mode = value, !.word = "mask"]
    [] OTHER              -> [c EXCEPT !.imr = value]

\* With the divisor latch open, the first two registers are the divisor.
UartWrite(u, offset, value) ==
  CASE Bit(u.lcr, 7) /\ offset = 0 -> [u EXCEPT !.divisor = @ - (@ % 256) + value]
    [] Bit(u.lcr, 7) /\ offset = 1 -> [u EXCEPT !.divisor = (@ % 256) + 256 * value]
    [] ~Bit(u.lcr, 7) /\ offset = 0 -> [u EXCEPT !.sent = TRUE]
    [] ~Bit(u.lcr, 7) /\ offset = 1 -> [u EXCEPT !.ier = value]
    [] offset = 2 -> [u EXCEPT !.fcr = value]
    [] offset = 3 -> [u EXCEPT !.lcr = value]
    [] offset = 4 -> [u EXCEPT !.mcr = value]

\* The first write names a colour; red, green and blue follow, then the next colour.
DacWrite(d, port, value) ==
  CASE port = 968 -> [d EXCEPT !.colour = value, !.part = 1]
    [] port = 969 -> [d EXCEPT !.rgb[d.colour][d.part] = value,
                               !.colour = IF d.part = 3 THEN @ + 1 ELSE @, !.part = (@ % 3) + 1]
    [] OTHER -> d

\* A write reaches the 8259 whose ports begin at base, if it is one of its two.
PicWrite(c, base, port, value) == CASE port = base     -> PicCommand(c, value)
                                    [] port = base + 1 -> PicData(c, value)
                                    [] OTHER           -> c

out8(port, value) ==
  /\ pic' = [master |-> PicWrite(pic.master, PIC0, port, value),
             slave  |-> PicWrite(pic.slave, PIC1, port, value)]
  /\ uart' = IF port >= COM1 THEN UartWrite(uart, port - COM1, value) ELSE uart
  /\ dac' = DacWrite(dac, port, value)
  /\ UNCHANGED <<intr, pmode, gdtr, idtr, idt, spare>>

\* May this chip interrupt at this level?
Grants(c, level) == /\ c.word = "mask" /\ ~Bit(c.imr, level)
                    /\ \A l \in c.isr : level < l

\* An interrupt on a vector the firmware does not acknowledge stays in service.
FirmwareInterrupt ==
  /\ intr /\ ~pmode
  /\ \/ \E l \in Lines.master :
          /\ Grants(pic.master, l) /\ pic.master.vector # FirmwareVector.master
          /\ pic' = [pic EXCEPT !.master.isr = @ \cup {l}]
     \/ \E l \in Lines.slave :
          /\ Grants(pic.master, 2) /\ Grants(pic.slave, l)
          /\ pic.slave.vector # FirmwareVector.slave
          /\ pic' = [pic EXCEPT !.master.isr = @ \cup {2}, !.slave.isr = @ \cup {l}]
  /\ UNCHANGED <<ip, intr, pmode, uart, dac, gdtr, idtr, idt, spare>>

-----------------------------------------------------------------------------
instruction == Program[ip]

out_port == instruction[1] = "out" /\ out8(instruction[2], instruction[3])
set_if == /\ instruction[1] \in {"cli", "sti"} /\ intr' = (instruction[1] = "sti")
          /\ UNCHANGED <<pmode, pic, uart, dac, gdtr, idtr, idt, spare>>
enter_pmode == /\ instruction[1] = "pmode" /\ pmode' = TRUE
               /\ UNCHANGED <<intr, pic, uart, dac, gdtr, idtr, idt, spare>>
lgdt == /\ instruction[1] = "lgdt"
        /\ gdtr' = [base |-> instruction[2], limit |-> instruction[3]]
        /\ UNCHANGED <<intr, pmode, pic, uart, dac, idtr, idt, spare>>
load_idtr == /\ instruction[1] = "lidt"
             /\ idtr' = [base |-> instruction[2], limit |-> instruction[3]]
             /\ UNCHANGED <<intr, pmode, pic, uart, dac, gdtr, idt, spare>>
set_segments == /\ instruction[1] = "segments"
                /\ spare' = [at |-> instruction[2], entry |-> set_segmdesc(0, 0, 0)]
                /\ UNCHANGED <<intr, pmode, pic, uart, dac, gdtr, idtr, idt>>
set_gates == /\ instruction[1] = "gates"
             /\ idt' = [at |-> instruction[2],
                        gate |-> [v \in 0..255 |-> set_gatedesc(4095, 0, 0)]]
             /\ UNCHANGED <<intr, pmode, pic, uart, dac, gdtr, idtr, spare>>
set_gate == /\ instruction[1] = "gate"
            /\ idt' = [idt EXCEPT !.gate[instruction[2]] = instruction[3]]
            /\ UNCHANGED <<intr, pmode, pic, uart, dac, gdtr, idtr, spare>>

step == /\ ip <= Len(Program) /\ ip' = ip + 1
        /\ \/ out_port \/ set_if \/ enter_pmode
           \/ lgdt \/ load_idtr \/ set_segments \/ set_gates \/ set_gate

\* What the firmware leaves: its vectors, any mask, an idle 16550, its own table of
\* interrupts at zero.
SetupInit ==
  /\ ip = 1 /\ intr = TRUE /\ pmode = FALSE
  /\ \E imr \in {0, 184, 255} :
       LET chip(vector) == [word |-> "mask", vector |-> vector, cascade |-> 0, mode |-> 1,
                            imr |-> imr, isr |-> {}]
       IN pic = [master |-> chip(FirmwareVector.master), slave |-> chip(FirmwareVector.slave)]
  /\ uart = [divisor |-> 12, ier |-> 0, lcr |-> 3, fcr |-> 0, mcr |-> 0, sent |-> FALSE]
  /\ dac = [colour |-> 0, part |-> 1, rgb |-> [c \in 0..15 |-> <<0, 0, 0>>]]
  /\ gdtr = [base |-> 0, limit |-> 0] /\ idtr = [base |-> 0, limit |-> 1023]
  /\ idt = [at |-> 0, gate |-> <<>>] /\ spare = [at |-> 0, entry |-> NoSegment]

SetupNext == step \/ FirmwareInterrupt

SetupSpec == SetupInit /\ [][SetupNext]_setupVars

-----------------------------------------------------------------------------
Done == ip > Len(Program)

\* Whatever interrupts came between the initialization words and the masks, the
\* kernel enables interrupts on two 8259s joined at input two with nothing left in
\* service, and ends with the keyboard, the mouse and COM1 unmasked.  COM1 runs at
\* 115200 baud and interrupts for received bytes, 14 at a time; setting it up has
\* sent nothing.  The palette registers, which count for themselves, hold each
\* colour of the table in six bits a part.
DevicesReady ==
  pmode /\ intr =>
    /\ \A c \in {pic.master, pic.slave} : c.word = "mask" /\ c.mode = 1 /\ c.isr = {}
    /\ pic.master.cascade = 4 /\ pic.slave.cascade = 2
    /\ Done => pic.master.imr = 233 /\ pic.slave.imr = 239
    /\ uart = [divisor |-> 1, ier |-> 1, lcr |-> 3, fcr |-> 199, mcr |-> 11, sent |-> FALSE]
    /\ \A c \in 0..15, k \in 1..3 : 4 * dac.rgb[c][k] <= table_rgb[c + 1][k]
                                   /\ table_rgb[c + 1][k] < 4 * dac.rgb[c][k] + 4

\* The vectors an interrupt may come on: an unmasked level of either chip, or the
\* master's level seven for a request that went away.
Vectors ==
  LET unmasked(c) == {l \in 0..7 : ~Bit(c.imr, l)}
  IN {pic.master.vector + l : l \in (unmasked(pic.master) \ {2}) \cup {7}}
     \cup {pic.slave.vector + l : l \in IF 2 \in unmasked(pic.master) THEN unmasked(pic.slave) ELSE {}}

Apart(at, limit, at2, limit2) == at + limit < at2 \/ at2 + limit2 < at

\* The processor enters the handler of that vector with interrupts disabled.
Reaches(v) ==
  /\ Apart(spare.at, LIMIT_GDT, idtr.base, idtr.limit) /\ Apart(spare.at, LIMIT_GDT, gdtr.base, gdtr.limit)
  /\ v \in DOMAIN HandlerAt
  /\ idtr.base = idt.at /\ 8 * v + 7 <= idtr.limit
  /\ LET g == idt.gate[v]
     IN /\ InterruptGate(g)
        /\ gdtr.base = Gdt /\ g.selector + 7 <= gdtr.limit /\ KernelCode(Descriptor(g.selector))
        /\ Within(Descriptor(g.selector), GateOffset(g))
        /\ SegmentBase(Descriptor(g.selector)) + GateOffset(g) = Linear32(HandlerAt[v])
=============================================================================
