------------------------------- MODULE Mouse --------------------------------
(***************************************************************************)
(* The mouse, from its packets to the pointer: mouse_handler (start.c) is  *)
(* called with each byte taken from mouse_fifo and assembles packets of    *)
(* three bytes; drawing_desktop sets the pointer's first position.  The    *)
(* mouse ring may drop bytes on the way.                                   *)
(***************************************************************************)
EXTENDS Integers, Sequences

CONSTANTS
  Moves,         \* the [dx, dy, btn] the mouse can report, dy upwards
  xsize, ysize,  \* the screen: 320 and 200
  MaxLost        \* bound: how many bytes may be dropped

ACK == 250  \* 0xfa, the answer to enable_mouse

ASSUME MovesAssumption ==
  Moves \subseteq [dx : -256..255, dy : -256..255, btn : 0..7]
ASSUME ScreenAssumption == xsize \in Nat /\ ysize \in Nat /\ xsize >= 16 /\ ysize >= 44

VARIABLES
  phase, buf, btn, mx, my,  \* mouse_status
  images,                   \* where the pointer has been drawn and not painted over
  sending,                  \* the bytes of the packet being sent
  lost                      \* how many bytes were dropped

vars == <<phase, buf, btn, mx, my, images, sending, lost>>

-----------------------------------------------------------------------------
(* The mouse.                                                              *)

\* The bit of n that counts for weight.
Bit(n, weight) == (n \div weight) % 2
Negative(n) == IF n < 0 THEN 1 ELSE 0

\* Buttons, a bit that is always one, the two signs; then the low eight bits.
Packet(m) == <<m.btn + 8 + 16 * Negative(m.dx) + 32 * Negative(m.dy),
               m.dx % 256, m.dy % 256>>

SendPacket(m) == /\ sending = <<>>
                 /\ sending' = Packet(m)
                 /\ UNCHANGED <<phase, buf, btn, mx, my, images, lost>>

\* The ring is full: the byte is refused.  (The acknowledgement finds it empty.)
Drop == /\ sending # <<>> /\ phase # 0 /\ lost < MaxLost
        /\ sending' = Tail(sending)
        /\ lost' = lost + 1
        /\ UNCHANGED <<phase, buf, btn, mx, my, images>>

-----------------------------------------------------------------------------
(* mouse_handler.                                                          *)

data == Head(sending)
Arrives(p) == /\ sending # <<>> /\ phase = p
              /\ sending' = Tail(sending)
              /\ UNCHANGED lost

wait_ack == /\ Arrives(0)
            /\ phase' = IF data = ACK THEN 1 ELSE 0
            /\ UNCHANGED <<buf, btn, mx, my, images>>

\* The first byte of a packet: bit 3 is set, bits 6 and 7 are clear.  (Mutant:
\* every byte is taken for a first one.)
Header_Any(byte) == TRUE
Header(byte) == Bit(byte, 8) = 1 /\ Bit(byte, 64) = 0 /\ Bit(byte, 128) = 0

first_byte == /\ Arrives(1)
              /\ IF Header(data)
                 THEN phase' = 2 /\ buf' = [buf EXCEPT ![0] = data]
                 ELSE UNCHANGED <<phase, buf>>
              /\ UNCHANGED <<btn, mx, my, images>>

second_byte == /\ Arrives(2)
               /\ phase' = 3
               /\ buf' = [buf EXCEPT ![1] = data]
               /\ UNCHANGED <<btn, mx, my, images>>

\* The sign bit extends the byte (mutant: it does not).
Extended_Not(byte, sign) == byte
Extended(byte, sign) == IF sign = 1 THEN byte - 256 ELSE byte

\* Mutant: the right edge is forgotten.
Clamp_Left(v, last) == IF v < 0 THEN 0 ELSE v
Clamp(v, last) == IF v < 0 THEN 0 ELSE IF v > last THEN last ELSE v

\* The box of 16 by 16 that boxfill8 paints wipes out the image drawn at that place
\* and no other; draw_mouse_on_screen draws one (mutant: the box follows the move).
Redrawn_Late(here, there) == (images \ {there}) \cup {there}
Redrawn(here, there) == (images \ {here}) \cup {there}

third_byte ==
  /\ Arrives(3)
  /\ phase' = 1
  /\ buf' = [buf EXCEPT ![2] = data]
  /\ btn' = buf[0] % 8
  /\ mx' = Clamp(mx + Extended(buf[1], Bit(buf[0], 16)), xsize - 16)
  /\ my' = Clamp(my - Extended(data, Bit(buf[0], 32)), ysize - 16)
  /\ images' = Redrawn(<<mx, my>>, <<mx', my'>>)

-----------------------------------------------------------------------------
Init == /\ phase = 0 /\ buf = [k \in 0..2 |-> 0] /\ btn = 0
        /\ mx = (xsize - 16) \div 2 /\ my = (ysize - 28 - 16) \div 2
        /\ images = {} /\ sending = <<ACK>> /\ lost = 0

Handler == wait_ack \/ first_byte \/ second_byte \/ third_byte
Device  == (\E m \in Moves : SendPacket(m)) \/ Drop

Next == Handler \/ Device

Spec == Init /\ [][Next]_vars

\* What waits is handled (see Kernel), and the mouse is used, if only its buttons.
Clicks == {m \in Moves : m.dx = 0 /\ m.dy = 0}
FairSpec == Spec /\ WF_vars(Handler) /\ WF_vars(\E m \in Moves : SendPacket(m))

-----------------------------------------------------------------------------
Byte == 0..255

\* The pointer's 16 by 16 image stays inside the screen whatever bytes arrive: it
\* is drawn straight into the video memory.
TypeOK == /\ phase \in 0..3 /\ buf \in [0..2 -> Byte] /\ btn \in 0..7
          /\ mx \in 0..(xsize - 16) /\ my \in 0..(ysize - 16)
          /\ sending \in Seq(Byte) /\ Len(sending) <= 3 /\ lost \in Nat

\* The screen shows one pointer, where mouse_status has it, from the first packet on:
\* no move leaves an image behind, whatever bytes were lost before it.
OnePointer == images \in {{}, {<<mx, my>>}}

\* Until mouse_fifo refuses a byte, mouse_handler's three phases move the pointer
\* exactly as the mouse reports it, up to the edges, with the buttons held then.
User == INSTANCE Pointer WITH x <- mx, y <- my, XMax <- xsize - 16, YMax <- ysize - 16
FollowsMouse == User!Init /\ [][lost' = 0 => [User!Next]_(User!vars)]_vars

\* A byte lost in mouse_fifo shifts the packets for mouse_handler, which takes the
\* bytes that look like a first one for it.  Once the mouse lies still but for its
\* buttons, its test of the first byte finds the packets' beginning again.
AtPacket == sending = <<>> => phase = 1
Realigns == <>[][\A m \in Moves \ Clicks : ~SendPacket(m)]_vars => <>[]AtPacket
=============================================================================
