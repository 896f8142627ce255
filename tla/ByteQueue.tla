------------------------------- MODULE ByteQueue -------------------------------
(***************************************************************************)
(* What the ring buffer of ring_buffer.c promises its callers: a queue of  *)
(* at most CAPACITY bytes.  A write takes as much of the caller's block as *)
(* fits and says how much that was; a read hands out the oldest bytes; a   *)
(* forced write never fails and forgets the oldest bytes instead - or,     *)
(* for a block, everything: see PutForceBlock.                             *)
(***************************************************************************)
EXTENDS Integers, Sequences

CONSTANTS
  CAPACITY,  \* the size given to Ring_Buffer_Init
  Byte,      \* the values of one byte
  Blocks,    \* the blocks callers write
  Lengths    \* the lengths callers ask to read or peek

VARIABLES
  queue,     \* the bytes stored, oldest first
  reply      \* what the last call returned: its count and its bytes

Smaller(a, b) == IF a < b THEN a ELSE b

NoBytes(n) == [ret |-> n, data |-> << >>]
Bytes(s)   == [ret |-> Len(s), data |-> s]

Init ==
  /\ queue = << >>
  /\ reply = NoBytes(0)

Clear ==
  /\ queue' = << >>
  /\ reply' = NoBytes(0)

(* As much of the block as there is room for is appended.                  *)
Put(block) ==
  LET n == Smaller(Len(block), CAPACITY - Len(queue)) IN
  /\ queue' = queue \o SubSeq(block, 1, n)
  /\ reply' = NoBytes(n)

(* One byte, which displaces the oldest when there is no room.             *)
PutForce(byte) ==
  /\ queue' = IF Len(queue) = CAPACITY THEN Append(Tail(queue), byte)
                                       ELSE Append(queue, byte)
  /\ reply' = NoBytes(1)

(* The newest CAPACITY bytes.  When the block has to displace others the   *)
(* code may also lose them all, and the block with them: what it does then *)
(* depends on where in the memory the queue happens to lie.                *)
PutForceBlock(block) ==
  LET n    == Smaller(Len(block), CAPACITY)
      kept == SubSeq(block, Len(block) - n + 1, Len(block))
      over == Len(queue) + n - CAPACITY IN
  /\ \/ over <= 0 /\ queue' = queue \o kept
     \/ over > 0 /\ queue' = SubSeq(queue, over + 1, Len(queue)) \o kept
     \/ over > 0 /\ queue' = << >>
  /\ reply' = NoBytes(n)

Get(length) ==
  LET n == Smaller(length, Len(queue)) IN
  /\ reply' = Bytes(SubSeq(queue, 1, n))
  /\ queue' = SubSeq(queue, n + 1, Len(queue))

Peek(length) ==
  /\ reply' = Bytes(SubSeq(queue, 1, Smaller(length, Len(queue))))
  /\ UNCHANGED queue

Next ==
  \/ Clear
  \/ \E block \in Blocks : Put(block) \/ PutForceBlock(block)
  \/ \E byte \in Byte : Put(<<byte>>) \/ PutForce(byte)
  \/ \E length \in Lengths \cup {1} : Get(length) \/ Peek(length)

Spec == Init /\ [][Next]_<<queue, reply>>
================================================================================
