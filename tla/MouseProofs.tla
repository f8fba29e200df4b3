---------------------------- MODULE MouseProofs -----------------------------
(***************************************************************************)
(* Proofs about Mouse, for a screen of any size and any moves: the pointer *)
(* stays on the screen, and follows the mouse until a byte is lost.        *)
(***************************************************************************)
EXTENDS Mouse, TLAPS

\* Where in the packet of m the handler is: the bytes already taken are in buf, the
\* others are on their way.
InPacket(m) ==
  \/ phase = 1 /\ sending = Packet(m)
  \/ phase = 2 /\ sending = Tail(Packet(m)) /\ buf[0] = Packet(m)[1]
  \/ phase = 3 /\ sending = Tail(Tail(Packet(m))) /\ buf[0] = Packet(m)[1]
     /\ buf[1] = Packet(m)[2]

\* Until a byte is lost, the handler's phase agrees with what is on its way.
Aligned == \/ phase = 0 /\ sending = <<ACK>>
           \/ phase = 1 /\ sending = <<>>
           \/ \E m \in Moves : InPacket(m)

\* The inductive invariant.
Tracking == TypeOK /\ (lost = 0 => Aligned)

-----------------------------------------------------------------------------
(* Bytes, packets and the edges of the screen.                             *)

\* The three bytes of a packet: the first looks like a first one.
LEMMA PacketBytes ==
  ASSUME NEW m \in Moves
  PROVE  /\ Packet(m)[1] \in Byte /\ Packet(m)[2] \in Byte /\ Packet(m)[3] \in Byte
         /\ Header(Packet(m)[1])
         /\ Packet(m)[1] % 8 = m.btn
         /\ Extended(Packet(m)[2], Bit(Packet(m)[1], 16)) = m.dx
         /\ Extended(Packet(m)[3], Bit(Packet(m)[1], 32)) = m.dy
<1>1. m.dx \in -256..255 /\ m.dy \in -256..255 /\ m.btn \in 0..7
  BY MovesAssumption
<1>2. /\ Packet(m)[1] = m.btn + 8 + 16 * Negative(m.dx) + 32 * Negative(m.dy)
      /\ Packet(m)[2] = m.dx % 256 /\ Packet(m)[3] = m.dy % 256
  BY DEF Packet
<1>3. Negative(m.dx) \in 0..1 /\ Negative(m.dy) \in 0..1
  BY DEF Negative
<1>4. /\ m.dx < 0 => Negative(m.dx) = 1 /\ m.dx % 256 = m.dx + 256
      /\ ~(m.dx < 0) => Negative(m.dx) = 0 /\ m.dx % 256 = m.dx
      /\ m.dy < 0 => Negative(m.dy) = 1 /\ m.dy % 256 = m.dy + 256
      /\ ~(m.dy < 0) => Negative(m.dy) = 0 /\ m.dy % 256 = m.dy
  BY <1>1 DEF Negative
<1>5. /\ Bit(Packet(m)[1], 16) = Negative(m.dx) /\ Bit(Packet(m)[1], 32) = Negative(m.dy)
      /\ Bit(Packet(m)[1], 8) = 1 /\ Bit(Packet(m)[1], 64) = 0 /\ Bit(Packet(m)[1], 128) = 0
      /\ Packet(m)[1] % 8 = m.btn
  BY <1>1, <1>2, <1>3, SMTT(60) DEF Bit
<1>6. Packet(m)[1] \in Byte /\ Packet(m)[2] \in Byte /\ Packet(m)[3] \in Byte
  BY <1>1, <1>2, <1>3 DEF Byte
<1>7. Header(Packet(m)[1])
  BY <1>5 DEF Header
<1>8. /\ Extended(Packet(m)[2], Bit(Packet(m)[1], 16)) = m.dx
      /\ Extended(Packet(m)[3], Bit(Packet(m)[1], 32)) = m.dy
  BY <1>1, <1>2, <1>4, <1>5 DEF Extended
<1> QED
  BY <1>5, <1>6, <1>7, <1>8

\* What is left of a packet after each of its bytes.
LEMMA PacketTails ==
  ASSUME NEW m \in Moves
  PROVE  /\ Packet(m) \in Seq(Byte) /\ Len(Packet(m)) = 3
         /\ Packet(m) # <<>> /\ Head(Packet(m)) = Packet(m)[1]
         /\ Tail(Packet(m)) # <<>> /\ Head(Tail(Packet(m))) = Packet(m)[2]
         /\ Tail(Tail(Packet(m))) # <<>> /\ Head(Tail(Tail(Packet(m)))) = Packet(m)[3]
         /\ Tail(Tail(Tail(Packet(m)))) = <<>>
<1> DEFINE a == Packet(m)[1]
           b == Packet(m)[2]
           c == Packet(m)[3]
<1>1. a \in Byte /\ b \in Byte /\ c \in Byte
  BY PacketBytes
<1>2. Packet(m) = <<a, b, c>>
  BY DEF Packet
<1> HIDE DEF a, b, c
<1>3. /\ <<a, b, c>> \in Seq(Byte) /\ Len(<<a, b, c>>) = 3
      /\ <<a, b, c>> # <<>> /\ Head(<<a, b, c>>) = a
  BY <1>1
<1>4. Tail(<<a, b, c>>) = <<b, c>> /\ Tail(<<b, c>>) = <<c>> /\ Tail(<<c>>) = <<>>
  BY <1>1
<1>5. <<b, c>> # <<>> /\ Head(<<b, c>>) = b /\ <<c>> # <<>> /\ Head(<<c>>) = c
  BY <1>1
<1>6. Packet(m)[1] = a /\ Packet(m)[2] = b /\ Packet(m)[3] = c
  BY DEF a, b, c
<1> QED
  BY <1>2, <1>3, <1>4, <1>5, <1>6

\* A clamped position lies on the screen.
LEMMA ClampInside ==
  ASSUME NEW v \in Int, NEW last \in Nat
  PROVE  Clamp(v, last) \in 0..last
BY DEF Clamp

\* A sign-extended byte is an integer.
LEMMA ExtendedInt ==
  ASSUME NEW byte \in Byte, NEW sign \in Int
  PROVE  Extended(byte, sign) \in Int
BY DEF Extended, Byte

-----------------------------------------------------------------------------
(* The invariant.                                                          *)

LEMMA InitTracking == Init => Tracking
<1> SUFFICES ASSUME Init PROVE Tracking
  OBVIOUS
<1>1. mx \in 0..(xsize - 16) /\ my \in 0..(ysize - 16)
  BY ScreenAssumption DEF Init
<1>2. sending \in Seq(Byte) /\ Len(sending) <= 3
  BY DEF Init, ACK, Byte
<1>3. phase \in 0..3 /\ buf \in [0..2 -> Byte] /\ btn \in 0..7 /\ lost \in Nat
  BY DEF Init, Byte
<1>4. Aligned
  BY DEF Init, Aligned
<1> QED
  BY <1>1, <1>2, <1>3, <1>4 DEF Tracking, TypeOK

\* A byte taken from a non-empty sequence leaves a byte sequence.
LEMMA Taken ==
  ASSUME TypeOK, sending # <<>>
  PROVE  data \in Byte /\ Tail(sending) \in Seq(Byte) /\ Len(Tail(sending)) <= 3
BY DEF TypeOK, data

LEMMA NextTypeOK == TypeOK /\ [Next]_vars => TypeOK'
<1> SUFFICES ASSUME TypeOK, [Next]_vars PROVE TypeOK'
  OBVIOUS
<1>1. CASE \E m \in Moves : SendPacket(m)
  <2>1. PICK m \in Moves : SendPacket(m)
    BY <1>1
  <2>2. Packet(m) \in Seq(Byte) /\ Len(Packet(m)) = 3 /\ sending' = Packet(m)
    BY <2>1, PacketTails DEF SendPacket
  <2> QED
    BY <2>1, <2>2 DEF SendPacket, TypeOK
<1>2. CASE Drop
  BY <1>2, Taken DEF Drop, TypeOK
<1>3. CASE wait_ack
  BY <1>3, Taken DEF wait_ack, Arrives, TypeOK
<1>4. CASE first_byte
  <2>1. buf' \in [0..2 -> Byte] /\ phase' \in 0..3
    BY <1>4, Taken DEF first_byte, Arrives, TypeOK
  <2> QED
    BY <1>4, <2>1, Taken DEF first_byte, Arrives, TypeOK
<1>5. CASE second_byte
  BY <1>5, Taken DEF second_byte, Arrives, TypeOK
<1>6. CASE third_byte
  <2>1. data \in Byte /\ buf[0] \in Byte /\ buf[1] \in Byte
    BY <1>6, Taken DEF third_byte, Arrives, TypeOK
  <2>2. Bit(buf[0], 16) \in Int /\ Bit(buf[0], 32) \in Int /\ buf[0] % 8 \in 0..7
    BY <2>1 DEF Bit, Byte
  <2>3. /\ Extended(buf[1], Bit(buf[0], 16)) \in Int
        /\ Extended(data, Bit(buf[0], 32)) \in Int
    BY <2>1, <2>2, ExtendedInt
  <2>4. mx' \in 0..(xsize - 16) /\ my' \in 0..(ysize - 16)
    <3> DEFINE x == mx + Extended(buf[1], Bit(buf[0], 16))
               y == my - Extended(data, Bit(buf[0], 32))
    <3>1. x \in Int /\ y \in Int
      BY <2>3 DEF TypeOK
    <3>2. xsize - 16 \in Nat /\ ysize - 16 \in Nat
      BY ScreenAssumption
    <3>3. mx' = Clamp(x, xsize - 16) /\ my' = Clamp(y, ysize - 16)
      BY <1>6 DEF third_byte
    <3> HIDE DEF x, y
    <3> QED
      BY <3>1, <3>2, <3>3, ClampInside
  <2>5. buf' \in [0..2 -> Byte] /\ btn' \in 0..7 /\ phase' \in 0..3
    BY <1>6, <2>1, <2>2 DEF third_byte, TypeOK
  <2> QED
    BY <1>6, <2>4, <2>5, Taken DEF third_byte, Arrives, TypeOK
<1>7. CASE UNCHANGED vars
  BY <1>7 DEF vars, TypeOK
<1> QED
  BY <1>1, <1>2, <1>3, <1>4, <1>5, <1>6, <1>7 DEF Next, Handler, Device

LEMMA NextAligned == Tracking /\ [Next]_vars /\ lost' = 0 => Aligned'
<1> SUFFICES ASSUME Tracking, [Next]_vars, lost' = 0 PROVE Aligned'
  OBVIOUS
<1> USE DEF Tracking
<1>1. CASE \E m \in Moves : SendPacket(m)
  <2>1. PICK m \in Moves : SendPacket(m)
    BY <1>1
  <2>2. sending = <<>> /\ lost = 0 /\ phase' = phase /\ sending' = Packet(m)
    BY <2>1 DEF SendPacket
  <2>3. phase = 1
    BY <2>2, PacketTails DEF Aligned, InPacket
  <2> QED
    BY <2>2, <2>3 DEF Aligned, InPacket
<1>2. CASE Drop
  BY <1>2 DEF Drop, TypeOK
<1>3. CASE wait_ack
  <2>1. phase = 0 /\ sending = <<ACK>>
    BY <1>3 DEF wait_ack, Arrives, Aligned, InPacket
  <2>2. Head(<<ACK>>) = ACK /\ Tail(<<ACK>>) = <<>>
    BY DEF ACK
  <2>3. phase' = 1 /\ sending' = <<>>
    BY <1>3, <2>1, <2>2 DEF wait_ack, Arrives, data
  <2> QED
    BY <2>3 DEF Aligned
<1>4. CASE first_byte
  <2>1. PICK m \in Moves : phase = 1 /\ sending = Packet(m)
    BY <1>4 DEF first_byte, Arrives, Aligned, InPacket
  <2>2. data = Packet(m)[1] /\ Header(data)
    BY <2>1, PacketTails, PacketBytes DEF data
  <2>3. buf'[0] = Packet(m)[1] /\ phase' = 2 /\ sending' = Tail(Packet(m))
    BY <1>4, <2>1, <2>2 DEF first_byte, Arrives, TypeOK
  <2> QED
    BY <2>3 DEF Aligned, InPacket
<1>5. CASE second_byte
  <2>1. PICK m \in Moves : /\ phase = 2 /\ sending = Tail(Packet(m))
                           /\ buf[0] = Packet(m)[1]
    BY <1>5 DEF second_byte, Arrives, Aligned, InPacket
  <2>2. data = Packet(m)[2]
    BY <2>1, PacketTails DEF data
  <2>3. /\ buf'[0] = Packet(m)[1] /\ buf'[1] = Packet(m)[2]
        /\ phase' = 3 /\ sending' = Tail(Tail(Packet(m)))
    BY <1>5, <2>1, <2>2 DEF second_byte, Arrives, TypeOK
  <2> QED
    BY <2>3 DEF Aligned, InPacket
<1>6. CASE third_byte
  <2>1. PICK m \in Moves : phase = 3 /\ sending = Tail(Tail(Packet(m)))
    BY <1>6 DEF third_byte, Arrives, Aligned, InPacket
  <2>2. phase' = 1 /\ sending' = <<>>
    BY <1>6, <2>1, PacketTails DEF third_byte, Arrives
  <2> QED
    BY <2>2 DEF Aligned
<1>7. CASE UNCHANGED vars
  BY <1>7 DEF vars, Aligned, InPacket
<1> QED
  BY <1>1, <1>2, <1>3, <1>4, <1>5, <1>6, <1>7 DEF Next, Handler, Device

\* The handler's phase and buffer agree with the mouse's packets until a byte of one
\* is lost, for any screen and any moves.
THEOREM MouseInvariant == Spec => []Tracking
<1>1. Tracking /\ [Next]_vars => Tracking'
  BY NextTypeOK, NextAligned DEF Tracking
<1> QED
  BY <1>1, InitTracking, PTL DEF Spec

\* Whatever bytes arrive or are lost, the pointer's image stays inside the screen.
THEOREM PointerOnScreen == Spec => []TypeOK
<1>1. Tracking => TypeOK
  BY DEF Tracking
<1> QED
  BY <1>1, MouseInvariant, PTL

\* No packet leaves an image of the pointer behind, on a screen of any size and
\* whatever bytes were lost.
THEOREM OneImage == Spec => []OnePointer
<1>1. Init => OnePointer
  BY DEF Init, OnePointer
<1>2. OnePointer /\ [Next]_vars => OnePointer'
  <2> SUFFICES ASSUME OnePointer, [Next]_vars PROVE OnePointer'
    OBVIOUS
  <2>1. CASE third_byte
    <3>1. images' = (images \ {<<mx, my>>}) \cup {<<mx', my'>>}
      BY <2>1 DEF third_byte, Redrawn
    <3>2. images \ {<<mx, my>>} = {}
      BY DEF OnePointer
    <3> QED
      BY <3>1, <3>2 DEF OnePointer
  <2>2. CASE ~third_byte
    <3>1. UNCHANGED <<mx, my, images>>
      BY <2>2 DEF Next, Handler, Device, wait_ack, first_byte, second_byte, SendPacket, Drop,
                  vars
    <3> QED
      BY <3>1 DEF OnePointer
  <2> QED
    BY <2>1, <2>2
<1> QED
  BY <1>1, <1>2, PTL DEF Spec

-----------------------------------------------------------------------------
(* The pointer follows the mouse.                                          *)

LEMMA InitFollows == Init => User!Init
<1> SUFFICES ASSUME Init PROVE User!Init
  OBVIOUS
<1> QED
  BY ScreenAssumption DEF Init, User!Init

LEMMA StepFollows == Tracking /\ [Next]_vars => (lost' = 0 => [User!Next]_(User!vars))
<1> SUFFICES ASSUME Tracking, [Next]_vars, lost' = 0 PROVE [User!Next]_(User!vars)
  OBVIOUS
<1> USE DEF Tracking
<1>1. CASE third_byte
  <2>1. PICK m \in Moves : /\ phase = 3 /\ sending = Tail(Tail(Packet(m)))
                           /\ buf[0] = Packet(m)[1] /\ buf[1] = Packet(m)[2]
    BY <1>1 DEF third_byte, Arrives, Aligned, InPacket
  <2>2. data = Packet(m)[3]
    BY <2>1, PacketTails DEF data
  <2>3. /\ Extended(buf[1], Bit(buf[0], 16)) = m.dx
        /\ Extended(data, Bit(buf[0], 32)) = m.dy
        /\ buf[0] % 8 = m.btn
    BY <2>1, <2>2, PacketBytes
  <2>4. /\ mx' = Clamp(mx + m.dx, xsize - 16)
        /\ my' = Clamp(my - m.dy, ysize - 16)
        /\ btn' = m.btn
    BY <1>1, <2>3 DEF third_byte
  <2>5. User!Move(m)
    BY <2>4 DEF User!Move, User!Clamp, Clamp
  <2> QED
    BY <2>5 DEF User!Next
<1>2. CASE ~third_byte
  <2>1. UNCHANGED <<mx, my, btn>>
    BY <1>2 DEF Next, Handler, Device, wait_ack, first_byte, second_byte, SendPacket, Drop,
                vars
  <2> QED
    BY <2>1 DEF User!vars
<1> QED
  BY <1>1, <1>2

\* Until a byte is lost, mouse_handler implements the pointer of Pointer: each packet
\* moves it by what the mouse reported, up to the edges, and nothing else does.
THEOREM PointerFollowsMouse == Spec => FollowsMouse
<1>1. Tracking /\ [Next]_vars => [lost' = 0 => [User!Next]_(User!vars)]_vars
  BY StepFollows
<1> QED
  BY <1>1, InitFollows, MouseInvariant, PTL DEF Spec, FollowsMouse
=============================================================================
