-------------------------------- MODULE TxRing --------------------------------
(***************************************************************************)
(* usb_tx_rb, the ring between the firmware and the bulk IN endpoint, with *)
(* its three users: task_data_out in the main loop writes data frames, the *)
(* bulk OUT callback writes replies from the USB interrupt, and            *)
(* usb_dc_send_from_ringbuffer in the main loop reads.                     *)
(*                                                                         *)
(* The interrupt runs to completion wherever it lands in the main loop, so *)
(* it is one action; the main loop's ring calls are split at every point   *)
(* where an index or mirror has been read or stored and the next has not.  *)
(* With USE_LOCK_RNG the interrupt is held off between lock and unlock.    *)
(***************************************************************************)
EXTENDS Integers, Sequences, FiniteSets

CONSTANTS
  SIZE,          \* USB_TX_RINGBUFFER_SIZE
  FRAME,         \* sizeof(data_blk_out)
  REPLY,         \* the length of a reply
  READMAX,       \* USBD_TXBUFSIZE - 1
  TASKS,         \* calls of task_data_out per turn of the main loop
  OUTSTANDING,   \* replies the host has asked for and not yet received
  WORD,          \* unsigned arithmetic is modulo WORD (2^32)
  Builds         \* the values of USE_LOCK_RNG looked at

ASSUME SizesAssumption ==
  /\ {SIZE, FRAME, REPLY, READMAX, TASKS, OUTSTANDING} \subseteq Nat \ {0}
  /\ FRAME < SIZE /\ REPLY < SIZE /\ READMAX < SIZE
  /\ WORD \in Nat /\ WORD > 2 * SIZE
  /\ Builds \subseteq BOOLEAN

(* What is written between two reads of the main loop, its frames and the  *)
(* replies the host waits for, is no more than one read takes:             *)
(* 4 * 122 + 10 <= 2047.                                                   *)
ASSUME CapacityAssumption == TASKS * FRAME + OUTSTANDING * REPLY <= READMAX

VARIABLES
  USE_LOCK_RNG,  \* usb_buffer.h, fixed when the firmware is built
  pointer, readMirror, readIndex, writeMirror, writeIndex,
  pc,        \* where the main loop is
  turn,      \* task_data_out calls made in this turn of the loop
  mirrors,   \* local: the two mirrors Get_Length has loaded
  size,      \* local: sizeRemained in a write, size in a read
  length,    \* local: the length being written or read
  seq,       \* parity of the next data frame and of the next reply
  blk_overflow_cnt,  \* whether it was ever counted up
  owed,      \* ghost: the bytes accepted and not yet handed to the endpoint
  damage     \* ghost: what has gone wrong, see below

ring   == <<pointer, readMirror, readIndex, writeMirror, writeIndex>>
locals == <<mirrors, size, length>>
ghosts == <<owed, damage>>
vars   == <<USE_LOCK_RNG, ring, pc, turn, locals, seq, blk_overflow_cnt, ghosts>>

(* raced: an interrupt landed where the lock would have held it off;       *)
(* cut: a reply was dropped or truncated for want of room;                 *)
(* stray: a copy was addressed past the end of usb_tx_mem;                 *)
(* garbled: the endpoint was given bytes other than the next ones owed.    *)
Damage == {"raced", "cut", "stray", "garbled"}

(* Inside a call, between lock() and unlock(). *)
LockedSteps ==
  {"w_indices", "w_advance", "w_flip", "r_indices", "r_advance", "r_flip"}

(* Where the indices are between two consistent values. *)
MidUpdate == LockedSteps \ {"w_indices", "r_indices"}

Steps == {"loop", "w_copy", "r_copy"} \cup LockedSteps

Mirrors    == {0, 255}
Flip(m)    == 255 - m
Smaller(a, b) == IF a < b THEN a ELSE b
U(x)       == x % WORD

LengthOf(rm, wm, ri, wi) == U(IF rm = wm THEN wi - ri ELSE SIZE - (ri - wi))
SpaceOf(rm, wm, ri, wi)  == U(SIZE - LengthOf(rm, wm, ri, wi))

(* The bytes of a block: which block, and the place in it. *)
Block(kind, n, len) == [i \in 1 .. len |-> <<kind, n, i>>]
IsReply(byte)       == byte[1] = "reply"

(* seeded fault: the second copy of a split block is forgotten. *)
CopyInNoWrap(bytes, at, remained) ==
  [i \in 0 .. SIZE - 1 |->
     IF at <= i /\ i < at + Len(bytes) THEN bytes[i - at + 1] ELSE pointer[i]]

(* The memory after copying bytes to index at: up to remained of them in   *)
(* place, the others to the start of the memory.                           *)
CopyIn(bytes, at, remained) ==
  [i \in 0 .. SIZE - 1 |->
     IF at <= i /\ i < at + Smaller(Len(bytes), remained) THEN bytes[i - at + 1]
     ELSE IF i + remained < Len(bytes) THEN bytes[i + remained + 1]
     ELSE pointer[i]]

CopyOut(at, n) == [k \in 1 .. n |-> pointer[(at + k - 1) % SIZE]]

(* seeded faults: half a buffer per transfer; only whole frames are sent. *)
ReadCountHalf(unread)   == Smaller(READMAX \div 2, unread)
ReadCountFrames(unread) == IF unread < FRAME THEN 0 ELSE Smaller(READMAX, unread)

(* What one call of Ring_Buffer_Read takes of the bytes it has found. *)
ReadCount(unread) == Smaller(READMAX, unread)

(* A copy of n bytes to or from index at leaves the memory. *)
Stray(at, n, remained) == at + Smaller(n, remained) > SIZE \/ n - remained > SIZE

IsPrefixOf(s, t) == Len(s) <= Len(t) /\ s = SubSeq(t, 1, Len(s))

-------------------------------------------------------------------------------
Init ==
  /\ USE_LOCK_RNG \in Builds
  /\ pointer = [i \in 0 .. SIZE - 1 |-> <<"none", 0, 0>>]
  /\ readMirror = 0 /\ readIndex = 0 /\ writeMirror = 0 /\ writeIndex = 0
  /\ pc = "loop" /\ turn = 0
  /\ mirrors = <<0, 0>> /\ size = 0 /\ length = 0
  /\ seq = [frame |-> 0, reply |-> 0]
  /\ blk_overflow_cnt = FALSE
  /\ owed = << >> /\ damage = {}

(* Get_Length begins, for a write or for a read: both mirrors are loaded.  *)
LoadMirrors(next) ==
  /\ mirrors' = <<readMirror, writeMirror>>
  /\ pc' = next
  /\ UNCHANGED <<ring, turn, size, length, seq, blk_overflow_cnt, ghosts>>

(* task_data_out without 40 samples to send. *)
NoFrame ==
  /\ pc = "loop" /\ turn < TASKS
  /\ turn' = turn + 1
  /\ UNCHANGED <<ring, pc, locals, seq, blk_overflow_cnt, ghosts>>

(* task_data_out with a frame built calls Ring_Buffer_Write. *)
WriteFrame == pc = "loop" /\ turn < TASKS /\ LoadMirrors("w_indices")

WriteLoadIndices ==
  /\ pc = "w_indices"
  /\ size' = SpaceOf(mirrors[1], mirrors[2], readIndex, writeIndex)
  /\ pc' = "w_copy"
  /\ UNCHANGED <<ring, turn, mirrors, length, seq, blk_overflow_cnt, ghosts>>

(* The return of Ring_Buffer_Write to task_data_out with n bytes written.  *)
FrameWritten(n) ==
  /\ blk_overflow_cnt' = (blk_overflow_cnt \/ n # FRAME)
  /\ owed' = owed \o Block("frame", seq.frame, n)
  /\ seq' = [seq EXCEPT !.frame = 1 - @]
  /\ turn' = turn + 1
  /\ pc' = "loop"

(* The space found earlier decides whether and how much is copied; the     *)
(* write index is the present one.                                         *)
WriteCopy ==
  /\ pc = "w_copy"
  /\ \/ /\ size = 0
        /\ FrameWritten(0)
        /\ UNCHANGED <<ring, locals, damage>>
     \/ /\ size # 0
        /\ length' = Smaller(FRAME, size)
        /\ size' = U(SIZE - writeIndex)
        /\ pointer' = CopyIn(Block("frame", seq.frame, length'), writeIndex, size')
        /\ damage' = damage \cup
             IF Stray(writeIndex, length', size') THEN {"stray"} ELSE {}
        /\ pc' = "w_advance"
        /\ UNCHANGED <<readMirror, readIndex, writeMirror, writeIndex, turn,
                       mirrors, seq, blk_overflow_cnt, owed>>

(* seeded fault: an index that reaches the end of the memory stays there. *)
WriteAdvanceOffByOne ==
  /\ pc = "w_advance"
  /\ writeIndex' = IF size >= length THEN writeIndex + length ELSE length - size
  /\ FrameWritten(length)
  /\ UNCHANGED <<pointer, readMirror, readIndex, writeMirror, locals, damage>>

WriteAdvance ==
  /\ pc = "w_advance"
  /\ \/ /\ size > length
        /\ writeIndex' = U(writeIndex + length)
        /\ FrameWritten(length)
     \/ /\ size <= length
        /\ writeIndex' = length - size
        /\ pc' = "w_flip"
        /\ UNCHANGED <<turn, seq, blk_overflow_cnt, owed>>
  /\ UNCHANGED <<pointer, readMirror, readIndex, writeMirror, locals, damage>>

WriteFlip ==
  /\ pc = "w_flip"
  /\ writeMirror' = Flip(writeMirror)
  /\ FrameWritten(length)
  /\ UNCHANGED <<pointer, readMirror, readIndex, writeIndex, locals, damage>>

(* usb_dc_send_from_ringbuffer gets past its wait for the endpoint, after  *)
(* as many polls of ep_tx_busy_flag as it takes, and calls                 *)
(* Ring_Buffer_Read.  In this module the wait may end at any time or never:*)
(* what ends it is in UsbCdc.                                              *)
AtWait  == pc = "loop" /\ turn = TASKS
ReadOut == pc = "loop" /\ turn = TASKS /\ LoadMirrors("r_indices")

ReadLoadIndices ==
  /\ pc = "r_indices"
  /\ size' = LengthOf(mirrors[1], mirrors[2], readIndex, writeIndex)
  /\ pc' = "r_copy"
  /\ UNCHANGED <<ring, turn, mirrors, length, seq, blk_overflow_cnt, ghosts>>

(* What was copied goes to the endpoint when the call returns. *)
ReadCopy ==
  /\ pc = "r_copy"
  /\ \/ /\ size = 0
        /\ pc' = "loop" /\ turn' = 0
        /\ UNCHANGED <<size, length, ghosts>>
     \/ /\ size # 0
        /\ length' = ReadCount(size)
        /\ size' = U(SIZE - readIndex)
        /\ LET out == CopyOut(readIndex, length') IN
             /\ owed' = SubSeq(owed, length' + 1, Len(owed))
             /\ damage' = damage
                  \cup (IF Stray(readIndex, length', size') THEN {"stray"} ELSE {})
                  \cup (IF IsPrefixOf(out, owed) THEN {} ELSE {"garbled"})
        /\ pc' = "r_advance"
        /\ UNCHANGED turn
  /\ UNCHANGED <<ring, mirrors, seq, blk_overflow_cnt>>

ReadAdvance ==
  /\ pc = "r_advance"
  /\ \/ /\ size > length
        /\ readIndex' = U(readIndex + length)
        /\ pc' = "loop" /\ turn' = 0
     \/ /\ size <= length
        /\ readIndex' = length - size
        /\ pc' = "r_flip"
        /\ UNCHANGED turn
  /\ UNCHANGED <<pointer, readMirror, writeMirror, writeIndex, locals, seq,
                 blk_overflow_cnt, ghosts>>

ReadFlip ==
  /\ pc = "r_flip"
  /\ readMirror' = Flip(readMirror)
  /\ pc' = "loop" /\ turn' = 0
  /\ UNCHANGED <<pointer, readIndex, writeMirror, writeIndex, locals, seq,
                 blk_overflow_cnt, ghosts>>

Main ==
  /\ \/ NoFrame
     \/ WriteFrame \/ WriteLoadIndices \/ WriteCopy \/ WriteAdvance \/ WriteFlip
     \/ ReadOut \/ ReadLoadIndices \/ ReadCopy \/ ReadAdvance \/ ReadFlip
  /\ UNCHANGED USE_LOCK_RNG

(* lock() is __disable_irq. *)
InterruptsEnabled == ~ (USE_LOCK_RNG /\ pc \in LockedSteps)

(* The host sends a command only while fewer than OUTSTANDING answers are  *)
(* due; its reply is written whole before the main loop goes on.           *)
Replies(s) == Cardinality({i \in 1 .. Len(s) : IsReply(s[i])})
HostMayAsk == Replies(owed) <= (OUTSTANDING - 1) * REPLY

BulkOutReply ==
  /\ InterruptsEnabled /\ HostMayAsk
  /\ LET space    == SpaceOf(readMirror, writeMirror, readIndex, writeIndex)
         n        == Smaller(REPLY, space)
         remained == U(SIZE - writeIndex)
         bytes    == Block("reply", seq.reply, n) IN
     /\ \/ space = 0 /\ UNCHANGED <<pointer, writeMirror, writeIndex>>
        \/ /\ space # 0
           /\ pointer' = CopyIn(bytes, writeIndex, remained)
           /\ \/ /\ remained > n
                 /\ writeIndex' = U(writeIndex + n)
                 /\ UNCHANGED writeMirror
              \/ /\ remained <= n
                 /\ writeIndex' = n - remained
                 /\ writeMirror' = Flip(writeMirror)
     /\ owed' = owed \o bytes
     /\ damage' = damage
          \cup (IF pc \in LockedSteps THEN {"raced"} ELSE {})
          \cup (IF n # REPLY THEN {"cut"} ELSE {})
          \cup (IF space # 0 /\ Stray(writeIndex, n, remained) THEN {"stray"} ELSE {})
  /\ seq' = [seq EXCEPT !.reply = 1 - @]
  /\ UNCHANGED <<USE_LOCK_RNG, readMirror, readIndex, pc, turn, locals,
                 blk_overflow_cnt>>

(* Nothing is said about what follows a copy outside the memory, or of     *)
(* bytes that nobody wrote: the model stops there.                         *)
Defined   == damage \cap {"stray", "garbled"} = {}
Undefined == ~ Defined /\ UNCHANGED vars

Next == (Defined /\ (Main \/ BulkOutReply)) \/ Undefined

(* while (1) goes on by itself everywhere but at its wait for the endpoint:*)
(* nothing is assumed of ReadOut.                                          *)
Spec     == Init /\ [][Next]_vars
Going    == ~ AtWait /\ Main
FairSpec == Spec /\ WF_vars(Defined /\ Going)

-------------------------------------------------------------------------------
(* Locals and indices in their ranges: the indices of ring_buffer.c are    *)
(* those of its memory, as long as no interrupt lands inside a call.       *)
TypeOK ==
  /\ pc \in Steps /\ turn \in 0 .. TASKS
  /\ readMirror \in Mirrors /\ writeMirror \in Mirrors
  /\ readIndex \in 0 .. WORD - 1 /\ writeIndex \in 0 .. WORD - 1
  /\ size \in 0 .. WORD - 1 /\ length \in 0 .. SIZE
  /\ damage \subseteq Damage
  /\ "raced" \notin damage => {readIndex, writeIndex} \subseteq 0 .. SIZE - 1

Contents ==
  CopyOut(readIndex, LengthOf(readMirror, writeMirror, readIndex, writeIndex))

(* Between two calls the unread bytes of the ring are exactly those the    *)
(* writers were told they wrote (ring_buffer.c, "@return Length of data    *)
(* writted actually") and the endpoint never got anything else.            *)
AcceptedIsStored ==
  pc \notin MidUpdate => Defined /\ Contents = owed

(* The same, unless an interrupt landed inside a ring call at a point the  *)
(* lock would have protected: every other point is harmless, and a build   *)
(* with the lock loses nothing, though it computes the room left before it *)
(* takes the lock (ring_buffer.c:150).                                     *)
AcceptedUnlessRaced == "raced" \in damage \/ AcceptedIsStored

(* With a host that waits for its answers the ring never runs out of room: *)
(* no frame is counted as overflowed and no reply is cut.  The main loop   *)
(* writes at most TASKS frames between two reads of up to READMAX bytes.   *)
NothingRefused ==
  "raced" \in damage \/ (~ blk_overflow_cnt /\ "cut" \notin damage)

(* What the memory and the indices stand for in the middle of a call: a    *)
(* mirror about to be flipped counts as flipped; a frame behind the write  *)
(* index is not in the queue before its call returns; of what a read has   *)
(* found, nothing is in the queue any more, though the read index is yet   *)
(* to pass it.                                                             *)
ReadSide  == IF pc = "r_flip" THEN Flip(readMirror) ELSE readMirror
WriteSide == IF pc = "w_flip" THEN Flip(writeMirror) ELSE writeMirror
Passed    == IF pc = "w_flip" THEN FRAME ELSE 0
Found     == IF pc = "r_copy" THEN ReadCount(size) ELSE 0
Ahead     == IF pc = "r_advance" THEN length ELSE Found
Unread    == LengthOf(ReadSide, WriteSide, readIndex, writeIndex) - Ahead - Passed

InQueue == CopyOut((readIndex + Ahead) % SIZE, Unread)
InCall  == CopyOut(readIndex, Found)

Mailbox == INSTANCE TxQueue WITH queue <- InQueue, hand <- InCall

(* The ring, its calls taken apart and interrupted, is a queue of whole    *)
(* blocks to its users, unless an interrupt landed where the lock would    *)
(* have held it off.  The mapping looks at the memory, the indices and the *)
(* locals only.                                                            *)
WholeBlocksUnlessRaced ==
  /\ Mailbox!Init
  /\ [][Mailbox!Next \/ "raced" \in damage']_<<InQueue, InCall, seq>>

(* A reply accepted by the ring reaches the endpoint, with the lock or     *)
(* without, unless an interrupt landed where the lock would have held it   *)
(* off, or the main loop never gets out of its wait for the endpoint       *)
(* (cdc_acm_template.c:249; UsbCdc!StuckOnlyAfterAbort names the cases).   *)
Unsent(n) == \E i \in 1 .. Len(owed) : owed[i] = <<"reply", n, 1>>

ReplyDelivered ==
  \/ <>[]AtWait
  \/ \A n \in {0, 1} : Unsent(n) ~> (~ Unsent(n) \/ "raced" \in damage)
================================================================================
