------------------------------- MODULE Input -------------------------------
(***************************************************************************)
(* The key ring of keyboard.c and the packet assembly of mouse.c, filled by *)
(* IRQ 1 and IRQ 12 and drained by one frame of gui_handle_input, load by   *)
(* load and store by store: the main thread runs with interrupts enabled    *)
(* and the fields are volatile or compiled without optimisation, so an IRQ  *)
(* may fall between any two of its steps.  A handler runs with interrupts   *)
(* off and is atomic.                                                       *)
(***************************************************************************)
EXTENDS Integers, FiniteSets, Sequences

CONSTANTS
    Size,       \* KB_BUFFER_SIZE
    Budgets,    \* bounds: the scancodes, packets and lost bytes of a behaviour
    Packets,    \* the packets: sequences of three bytes, bit 3 of the first set
    REACH       \* 2000, what dx and dy are clamped to

ASSUME SizeAssumption == Size \in Nat \ {0} /\ REACH \in Nat
ASSUME PacketsAssumption == \A p \in Packets : p \in [1..3 -> 0..255]

VARIABLES
    kb,         \* kb_buffer; an entry is the number of the key press it holds
    head, tail, count,      \* kb_head, kb_tail, kb_count
    shift, caps,            \* shift_down, caps_on
    mouse,      \* g_mouse: x, dx, y, dy, left
    packet, cycle,          \* mouse_packet, mouse_cycle
    pc,         \* where the main thread is in its frame
    key, tmp,   \* the locals c and the loaded kb_count of keyboard_getchar
    mdx, mdy,   \* the locals of gui_handle_input
    cursor,     \* sum of the motion added to the cursor, before clamping
    prev,       \* prev_buttons, the left one
    \* History: what the hardware sent and what the frame consumed.
    scanned, pushed, popped,   \* scancodes; keys stored; keys taken
    lag,                       \* increments of kb_count that were overwritten
    most,                      \* the most keys that were ever pending
    dev, at, sent, lost,       \* the packet being sent, its next byte, totals
    clean,                     \* no byte of it was lost
    budget,                    \* the bounds of this behaviour
    dropped                    \* motion that was overwritten or cut

kbVars    == <<kb, head, tail, count, shift, caps, scanned, pushed, most>>
getVars   == <<key, tmp, popped, lag>>
mouseVars == <<mouse, packet, cycle, dev, at, sent, lost, clean>>
moveVars  == <<mdx, mdy, cursor, prev>>
inputVars == <<kbVars, getVars, mouseVars, moveVars, dropped, pc, budget>>

Pending == pushed - popped

-----------------------------------------------------------------------------
\* keyboard_init, mouse_init: everything empty; the GUI loop starts a frame.
InputInit ==
    /\ kb = [i \in 0..Size - 1 |-> 0]
    /\ head = 0 /\ tail = 0 /\ count = 0
    /\ shift = FALSE /\ caps = FALSE
    /\ mouse = [x |-> 0, dx |-> 0, y |-> 0, dy |-> 0, left |-> FALSE]
    /\ packet = <<0, 0, 0>> /\ cycle = 0
    /\ pc = "getchar" /\ key = -1 /\ tmp = 0
    /\ mdx = 0 /\ mdy = 0 /\ cursor = [x |-> 0, y |-> 0] /\ prev = FALSE
    /\ scanned = 0 /\ pushed = 0 /\ popped = 0 /\ lag = 0 /\ most = 0
    /\ dev \in Packets /\ at = 0 /\ sent = 0 /\ lost = 0 /\ clean = FALSE
    /\ dropped = [x |-> 0, y |-> 0]
    /\ budget \in Budgets

\* IRQ 1, part kb_push: a full ring drops the key.
HasRoom_Bug == TRUE
HasRoom == count < Size

Slot_Bug == (tail + 1) % Size
Slot == tail

Push ==
    \/ /\ HasRoom
       /\ kb' = [kb EXCEPT ![Slot] = pushed + 1]
       /\ tail' = (tail + 1) % Size
       /\ count' = count + 1
       /\ pushed' = pushed + 1
       /\ most' = IF Pending + 1 > most THEN Pending + 1 ELSE most
       /\ lag' = IF pc = "store" THEN lag + 1 ELSE lag
    \/ /\ ~HasRoom
       /\ UNCHANGED <<kb, tail, count, pushed, most, lag>>

\* keyboard_handler.  An increment of kb_count that falls between the load and
\* the store of getchar will be overwritten.
Irq1(code) ==
    /\ scanned < budget.keys
    /\ scanned' = scanned + 1
    /\ \/ /\ code \in {"shift", "unshift"}
          /\ shift' = (code = "shift")
          /\ UNCHANGED <<caps, kb, tail, count, pushed, most, lag>>
       \/ /\ code = "caps"
          /\ caps' = ~caps
          /\ UNCHANGED <<shift, kb, tail, count, pushed, most, lag>>
       \/ /\ code = "key"
          /\ Push
          /\ UNCHANGED <<shift, caps>>
    /\ UNCHANGED <<head, key, tmp, popped, mouseVars, moveVars, dropped, pc>>

-----------------------------------------------------------------------------
\* keyboard_getchar, one step per access to what the handler shares.

\* -1 when the count is zero.
GetEmpty ==
    /\ pc = "getchar" /\ count = 0
    /\ key' = -1 /\ pc' = "readx"
    /\ UNCHANGED <<kbVars, tmp, popped, lag, mouseVars, moveVars, dropped>>

GetSlot ==
    /\ pc = "getchar" /\ count # 0
    /\ key' = kb[head] /\ pc' = "head"
    /\ UNCHANGED <<kbVars, tmp, popped, lag, mouseVars, moveVars, dropped>>

GetHead ==
    /\ pc = "head"
    /\ head' = (head + 1) % Size
    /\ popped' = popped + 1
    /\ pc' = "load"
    /\ UNCHANGED <<kb, tail, count, shift, caps, scanned, pushed, most,
                   key, tmp, lag, mouseVars, moveVars, dropped>>

GetLoad ==
    /\ pc = "load"
    /\ tmp' = count /\ pc' = "store"
    /\ UNCHANGED <<kbVars, key, popped, lag, mouseVars, moveVars, dropped>>

Less_Bug(n) == n
Less(n) == n - 1

GetStore ==
    /\ pc = "store"
    /\ count' = Less(tmp) /\ pc' = "readx"
    /\ UNCHANGED <<kb, head, tail, shift, caps, scanned, pushed, most,
                   getVars, mouseVars, moveVars, dropped>>

-----------------------------------------------------------------------------
\* IRQ 12.  The mouse sends the bytes of a packet one by one; the controller
\* may lose any of them.

Int8(b) == IF b >= 128 THEN b - 256 ELSE b
Bit3(b) == (b \div 8) % 2 = 1
Left(b) == b % 2 = 1
Limited(v) == IF v > REACH THEN REACH ELSE IF v < -REACH THEN -REACH ELSE v

\* Motion is added to what the frame has not consumed yet.
Sum_Bug(v, d) == d
Sum(v, d) == Limited(v + d)

\* The third byte completes a packet.  What arrives after the frame loaded dx
\* and before it zeroed it is dropped, and so is what the clamp cuts.
Excess(v) == v - Limited(v)

Accumulate(dx, dy) ==
    /\ mouse' = [x |-> mouse.x + dx, dx |-> Sum(mouse.dx, dx),
                 y |-> mouse.y - dy, dy |-> Sum(mouse.dy, -dy),
                 left |-> Left(packet[1])]
    /\ dropped' = [x |-> dropped.x + IF pc \in {"ready", "zerox"} THEN dx
                                     ELSE Excess(mouse.dx + dx),
                   y |-> dropped.y + IF pc \in {"zerox", "zeroy"} THEN -dy
                                     ELSE Excess(mouse.dy - dy)]

\* The handler on one byte: the first of a packet must have bit 3 set.
Sync_Bug(b) == TRUE
Sync(b) == Bit3(b)

Irq12(b) ==
    \/ /\ cycle = 0 /\ ~Sync(b)
       /\ UNCHANGED <<mouse, packet, cycle, dropped>>
    \/ /\ (cycle = 0 /\ Sync(b)) \/ cycle = 1
       /\ packet' = [packet EXCEPT ![cycle + 1] = b]
       /\ cycle' = cycle + 1
       /\ UNCHANGED <<mouse, dropped>>
    \/ /\ cycle = 2
       /\ packet' = [packet EXCEPT ![3] = b]
       /\ cycle' = 0
       /\ Accumulate(Int8(packet[2]), Int8(b))

\* The device starts a packet, or sends the next byte of the one under way.
StartPacket(p) ==
    /\ at = 0 /\ sent < budget.packets
    /\ dev' = p /\ at' = 1 /\ sent' = sent + 1 /\ clean' = TRUE
    /\ UNCHANGED <<kbVars, getVars, mouse, packet, cycle, lost, moveVars, dropped, pc>>

SendByte ==
    /\ at > 0
    /\ Irq12(dev[at])
    /\ at' = (at + 1) % 4
    /\ UNCHANGED <<kbVars, getVars, dev, sent, lost, clean, moveVars, pc>>

LoseByte ==
    /\ at > 0 /\ lost < budget.lost
    /\ lost' = lost + 1 /\ clean' = FALSE
    /\ at' = (at + 1) % 4
    /\ UNCHANGED <<kbVars, getVars, mouse, packet, cycle, dev, sent, moveVars, dropped, pc>>

-----------------------------------------------------------------------------
\* gui_handle_input after the key: load dx, load dy, zero dx, zero dy, move the
\* cursor, sample the buttons.

ReadX ==
    /\ pc = "readx"
    /\ mdx' = mouse.dx /\ pc' = "ready"
    /\ UNCHANGED <<kbVars, getVars, mouseVars, mdy, cursor, prev, dropped>>

ReadY ==
    /\ pc = "ready"
    /\ mdy' = mouse.dy /\ pc' = "zerox"
    /\ UNCHANGED <<kbVars, getVars, mouseVars, mdx, cursor, prev, dropped>>

ZeroX ==
    /\ pc = "zerox"
    /\ mouse' = [mouse EXCEPT !.dx = 0] /\ pc' = "zeroy"
    /\ UNCHANGED <<kbVars, getVars, packet, cycle, dev, at, sent, lost, clean,
                   moveVars, dropped>>

ZeroY ==
    /\ pc = "zeroy"
    /\ mouse' = [mouse EXCEPT !.dy = 0] /\ pc' = "move"
    /\ UNCHANGED <<kbVars, getVars, packet, cycle, dev, at, sent, lost, clean,
                   moveVars, dropped>>

Sampled_Bug == prev \/ mouse.left
Sampled == mouse.left

Move ==
    /\ pc = "move"
    /\ cursor' = [x |-> cursor.x + mdx, y |-> cursor.y + mdy]
    /\ mdx' = 0 /\ mdy' = 0
    /\ prev' = Sampled
    /\ pc' = "getchar"
    /\ UNCHANGED <<kbVars, getVars, mouseVars, dropped>>

Frame == /\ \/ GetEmpty \/ GetSlot \/ GetHead \/ GetLoad \/ GetStore
            \/ ReadX \/ ReadY \/ ZeroX \/ ZeroY \/ Move
         /\ UNCHANGED budget

Irq == /\ \/ \E code \in {"shift", "unshift", "caps", "key"} : Irq1(code)
          \/ \E p \in Packets : StartPacket(p)
          \/ SendByte
          \/ LoseByte
       /\ UNCHANGED budget

InputNext == Irq \/ Frame

InputSpec == InputInit /\ [][InputNext]_inputVars
\* The PIT wakes the loop every tick: a frame is never abandoned half-way.
FairSpec == InputSpec /\ WF_inputVars(Frame)
-----------------------------------------------------------------------------
(* Properties *)

\* kb_count is the number of keys in the ring but for the increments that
\* getchar overwrote: it is never ahead of the ring, so getchar never takes a
\* slot that holds no key, and every overwritten increment is a key that stays
\* behind until another one is pressed.
CountExact == pc = "getchar" => count = Pending - lag

\* Keys are delivered once each and in the order they were pressed, as long as no
\* increment was overwritten or the ring had room to spare.
KeysInOrder ==
    pc \in {"load", "store"} /\ (lag = 0 \/ most <= Size) => key = popped

\* After a packet of which no byte was lost and whose motion bytes have bit 3
\* clear, the handler is at the start of a packet again, wherever a loss had left
\* it: the mouse does not stay out of step.
QuietPacketResyncs ==
    at = 0 /\ sent > 0 /\ clean /\ ~Bit3(dev[2]) /\ ~Bit3(dev[3]) => cycle = 0

\* Motion is conserved: what the packets moved is in the cursor, in the locals
\* of the frame or in dx and dy, but for what arrived between a load and its zero
\* and what the clamp cut.
Waiting(v, read) == IF pc \in read THEN 0 ELSE v
MotionConserved ==
    /\ mouse.x = cursor.x + mdx + dropped.x + Waiting(mouse.dx, {"ready", "zerox"})
    /\ mouse.y = cursor.y + mdy + dropped.y + Waiting(mouse.dy, {"zerox", "zeroy"})

\* A button that stays as it is reaches prev_buttons.
ButtonSeen ==
    \A b \in BOOLEAN : (mouse.left = b) ~> (prev = b \/ mouse.left # b)
=============================================================================
