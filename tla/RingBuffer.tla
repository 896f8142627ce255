------------------------------ MODULE RingBuffer ------------------------------
(***************************************************************************)
(* ring_buffer.c: a byte ring whose indices carry a "mirror", a byte that  *)
(* is complemented each time the index passes the end of the memory, so    *)
(* that equal indices mean "empty" when the mirrors agree and "full" when  *)
(* they do not.  Every exported operation is one action here: this is the  *)
(* ring with one caller at a time, or with lock callbacks that work.  What *)
(* an interrupt between two statements does to it is in module TxRing.     *)
(***************************************************************************)
EXTENDS Integers, Sequences

CONSTANTS
  SIZE,      \* rbType->size
  Byte,      \* the values of one byte
  Zero,      \* what the memory holds before the first write
  Blocks,    \* the blocks callers write
  Lengths    \* the lengths callers ask to read or peek

ASSUME SizeAssumption   == SIZE \in Nat \ {0}
ASSUME ByteAssumption   == Zero \in Byte
ASSUME BlockAssumption  == Blocks \subseteq Seq(Byte)
ASSUME LengthAssumption == Lengths \subseteq Nat

VARIABLES
  pointer,                  \* the memory
  readMirror,  readIndex,
  writeMirror, writeIndex,
  reply                     \* what the last call returned: count and bytes

indexVars == <<readMirror, readIndex, writeMirror, writeIndex>>
vars == <<pointer, indexVars, reply>>

Slots   == 0 .. SIZE - 1
Mirrors == {0, 255}

(* ~ on a uint8_t that is 0x00 or 0xFF. *)
Flip(mirror) == 255 - mirror

Smaller(a, b) == IF a < b THEN a ELSE b
Wrap(i)       == IF i < SIZE THEN i ELSE i - SIZE

NoBytes(n) == [ret |-> n, data |-> << >>]
Bytes(s)   == [ret |-> Len(s), data |-> s]

-------------------------------------------------------------------------------
Ring_Buffer_Get_Length ==
  IF readMirror = writeMirror
  THEN writeIndex - readIndex
  ELSE SIZE - (readIndex - writeIndex)

Ring_Buffer_Get_Empty_Length == SIZE - Ring_Buffer_Get_Length

Ring_Buffer_Get_Status ==
  CASE readIndex # writeIndex    -> "PARTIAL"
    [] readIndex = writeIndex /\ readMirror = writeMirror -> "EMPTY"
    [] readIndex = writeIndex /\ readMirror # writeMirror -> "FULL"

(* The memory after the one or two copies of the first n bytes of data to  *)
(* writeIndex, the second one to the start of the memory.                  *)
Stored(data, n) ==
  [i \in Slots |->
     IF writeIndex <= i /\ i < writeIndex + n THEN data[i - writeIndex + 1]
     ELSE IF i + SIZE < writeIndex + n THEN data[i + SIZE - writeIndex + 1]
     ELSE pointer[i]]

(* Seeded fault of Fetched: the second copy does not restart at the bottom. *)
FetchedNoWrap(n) ==
  [k \in 1 .. n |-> pointer[IF readIndex + k - 1 < SIZE THEN readIndex + k - 1
                                                       ELSE readIndex]]

(* The bytes the one or two copies of a read of n bytes hand out. *)
Fetched(n) == [k \in 1 .. n |-> pointer[Wrap(readIndex + k - 1)]]

(* Seeded faults of AdvanceWrite: the comparison one byte too generous, and *)
(* the mirror left alone when the index passes the end.                     *)
AdvanceWriteOffByOne(n) ==
  \/ /\ SIZE - writeIndex >= n
     /\ writeIndex' = writeIndex + n
     /\ UNCHANGED writeMirror
  \/ /\ SIZE - writeIndex < n
     /\ writeIndex' = n - (SIZE - writeIndex)
     /\ writeMirror' = Flip(writeMirror)

AdvanceWriteNoFlip(n) ==
  /\ writeIndex' = Wrap(writeIndex + n)
  /\ UNCHANGED writeMirror

AdvanceWrite(n) ==
  \/ /\ SIZE - writeIndex > n
     /\ writeIndex' = writeIndex + n
     /\ UNCHANGED writeMirror
  \/ /\ SIZE - writeIndex <= n
     /\ writeIndex' = n - (SIZE - writeIndex)
     /\ writeMirror' = Flip(writeMirror)

AdvanceRead(n) ==
  \/ /\ SIZE - readIndex > n
     /\ readIndex' = readIndex + n
     /\ UNCHANGED readMirror
  \/ /\ SIZE - readIndex <= n
     /\ readIndex' = n - (SIZE - readIndex)
     /\ readMirror' = Flip(readMirror)

(* A forced write of n bytes that found too little room pulls the read     *)
(* index up to the new write index; only when the write passed the end of  *)
(* the memory is the read mirror complemented too.                         *)
Displace(n) ==
  /\ readIndex' = writeIndex'
  /\ readMirror' = IF SIZE - writeIndex > n THEN readMirror ELSE Flip(readMirror)

-------------------------------------------------------------------------------
Init ==
  /\ pointer = [i \in Slots |-> Zero]
  /\ readMirror = 0  /\ readIndex = 0
  /\ writeMirror = 0 /\ writeIndex = 0
  /\ reply = NoBytes(0)

Ring_Buffer_Reset ==
  /\ readMirror' = 0  /\ readIndex' = 0
  /\ writeMirror' = 0 /\ writeIndex' = 0
  /\ reply' = NoBytes(0)
  /\ UNCHANGED pointer

(* Ring_Buffer_Write_Callback with the copying callback. *)
Ring_Buffer_Write(data) ==
  LET n == Smaller(Len(data), Ring_Buffer_Get_Empty_Length) IN
  /\ \/ /\ Ring_Buffer_Get_Empty_Length = 0
        /\ UNCHANGED <<pointer, writeMirror, writeIndex>>
     \/ /\ Ring_Buffer_Get_Empty_Length # 0
        /\ pointer' = Stored(data, n)
        /\ AdvanceWrite(n)
  /\ reply' = NoBytes(n)
  /\ UNCHANGED <<readMirror, readIndex>>

Ring_Buffer_Write_Byte(byte) ==
  /\ \/ /\ Ring_Buffer_Get_Empty_Length = 0
        /\ reply' = NoBytes(0)
        /\ UNCHANGED <<pointer, writeMirror, writeIndex>>
     \/ /\ Ring_Buffer_Get_Empty_Length # 0
        /\ pointer' = [pointer EXCEPT ![writeIndex] = byte]
        /\ AdvanceWrite(1)
        /\ reply' = NoBytes(1)
  /\ UNCHANGED <<readMirror, readIndex>>

(* Only the last SIZE bytes of a longer block are kept. *)
Ring_Buffer_Write_Force(data) ==
  LET n    == Smaller(Len(data), SIZE)
      kept == SubSeq(data, Len(data) - n + 1, Len(data)) IN
  /\ pointer' = Stored(kept, n)
  /\ AdvanceWrite(n)
  /\ \/ n > Ring_Buffer_Get_Empty_Length /\ Displace(n)
     \/ n <= Ring_Buffer_Get_Empty_Length /\ UNCHANGED <<readMirror, readIndex>>
  /\ reply' = NoBytes(n)

Ring_Buffer_Write_Byte_Force(byte) ==
  /\ pointer' = [pointer EXCEPT ![writeIndex] = byte]
  /\ AdvanceWrite(1)
  /\ \/ Ring_Buffer_Get_Status = "FULL" /\ Displace(1)
     \/ Ring_Buffer_Get_Status # "FULL" /\ UNCHANGED <<readMirror, readIndex>>
  /\ reply' = NoBytes(1)

(* Ring_Buffer_Read_Callback with the copying callback. *)
Ring_Buffer_Read(length) ==
  LET n == Smaller(length, Ring_Buffer_Get_Length) IN
  /\ \/ Ring_Buffer_Get_Length = 0 /\ UNCHANGED <<readMirror, readIndex>>
     \/ Ring_Buffer_Get_Length # 0 /\ AdvanceRead(n)
  /\ reply' = Bytes(Fetched(n))
  /\ UNCHANGED <<pointer, writeMirror, writeIndex>>

Ring_Buffer_Read_Byte ==
  /\ \/ /\ Ring_Buffer_Get_Length = 0
        /\ reply' = NoBytes(0)
        /\ UNCHANGED <<readMirror, readIndex>>
     \/ /\ Ring_Buffer_Get_Length # 0
        /\ reply' = Bytes(<<pointer[readIndex]>>)
        /\ AdvanceRead(1)
  /\ UNCHANGED <<pointer, writeMirror, writeIndex>>

Ring_Buffer_Peek(length) ==
  /\ reply' = Bytes(Fetched(Smaller(length, Ring_Buffer_Get_Length)))
  /\ UNCHANGED <<pointer, indexVars>>

Ring_Buffer_Peek_Byte ==
  /\ reply' = IF Ring_Buffer_Get_Length = 0
              THEN NoBytes(0) ELSE Bytes(<<pointer[readIndex]>>)
  /\ UNCHANGED <<pointer, indexVars>>

Next ==
  \/ Ring_Buffer_Reset
  \/ \E data \in Blocks : Ring_Buffer_Write(data) \/ Ring_Buffer_Write_Force(data)
  \/ \E byte \in Byte : Ring_Buffer_Write_Byte(byte) \/ Ring_Buffer_Write_Byte_Force(byte)
  \/ \E length \in Lengths : Ring_Buffer_Read(length) \/ Ring_Buffer_Peek(length)
  \/ Ring_Buffer_Read_Byte
  \/ Ring_Buffer_Peek_Byte

Spec == Init /\ [][Next]_vars

-------------------------------------------------------------------------------
(* The bytes stored, oldest first. *)
Contents == Fetched(Ring_Buffer_Get_Length)

(* The indices stay inside the memory whatever sequence of calls is made:  *)
(* every copy of ring_buffer.c is addressed by one of them.                *)
TypeOK ==
  /\ pointer \in [Slots -> Byte]
  /\ readMirror \in Mirrors  /\ readIndex \in Slots
  /\ writeMirror \in Mirrors /\ writeIndex \in Slots
  /\ reply \in [ret : Nat, data : Seq(Byte)]

(* The unread bytes are never more than the memory and never fewer than    *)
(* none: with equal mirrors the writer is at or ahead of the reader, with  *)
(* different ones it is at or behind, one lap on.  Get_Length subtracts    *)
(* unsigned numbers in both branches and relies on it.                     *)
MirrorOrder ==
  /\ readMirror = writeMirror => readIndex <= writeIndex
  /\ readMirror # writeMirror => writeIndex <= readIndex

Queue == INSTANCE ByteQueue WITH CAPACITY <- SIZE, queue <- Contents

(* The index and mirror arithmetic implements a bounded queue: whatever    *)
(* the order of calls, nothing is lost, duplicated or reordered across any *)
(* wrap of the memory, but for what PutForceBlock admits.                  *)
ImplementsQueue == Queue!Spec

(* ring_buffer.c:271 says of Ring_Buffer_Write_Force that "old data will   *)
(* be covered by new data when ring buffer is full": what is left is the   *)
(* newest SIZE bytes of the old contents followed by the new ones.         *)
Newest(s) == SubSeq(s, Len(s) - Smaller(Len(s), SIZE) + 1, Len(s))

ForceKeepsNewest ==
  [][\A data \in Blocks :
       Ring_Buffer_Write_Force(data) => Contents' = Newest(Contents \o data)]_vars
================================================================================
