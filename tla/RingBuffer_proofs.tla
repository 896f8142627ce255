---------------------------- MODULE RingBuffer_proofs ----------------------------
(***************************************************************************)
(* Proofs about the ring buffer for every size, every set of bytes and     *)
(* every set of blocks and lengths its callers use.                        *)
(***************************************************************************)
EXTENDS RingBuffer, SequenceTheorems, TLAPS

(* TypeOK alone is not inductive: that a copy stays inside the memory      *)
(* needs the unread length to be at most SIZE, which is MirrorOrder.       *)
IndexInv == TypeOK /\ MirrorOrder

(* Get_Length never underflows: it is a number of bytes of the memory.     *)
LEMMA LengthBounds ==
  ASSUME IndexInv
  PROVE  /\ Ring_Buffer_Get_Length \in 0 .. SIZE
         /\ Ring_Buffer_Get_Empty_Length \in 0 .. SIZE
  BY SizeAssumption DEF IndexInv, TypeOK, MirrorOrder, Mirrors, Slots,
     Ring_Buffer_Get_Length, Ring_Buffer_Get_Empty_Length

(* A flip changes the mirror bit, and there are but two of them.           *)
LEMMA FlipTwice ==
  ASSUME NEW m \in Mirrors, NEW o \in Mirrors
  PROVE  Flip(m) \in Mirrors /\ Flip(m) # m /\ (o # m <=> o = Flip(m))
  BY DEF Mirrors, Flip

(* Moving the write index over at most SIZE bytes leaves it in the memory. *)
LEMMA AdvanceWriteType ==
  ASSUME IndexInv, NEW n \in 0 .. SIZE, AdvanceWrite(n)
  PROVE  writeIndex' \in Slots /\ writeMirror' \in Mirrors
  BY SizeAssumption DEF IndexInv, TypeOK, Mirrors, Slots, AdvanceWrite, Flip

(* A write of no more bytes than there is room for keeps the mirror order. *)
LEMMA AdvanceWriteOrder ==
  ASSUME IndexInv, NEW n \in 0 .. SIZE, n <= Ring_Buffer_Get_Empty_Length,
         AdvanceWrite(n), UNCHANGED <<readMirror, readIndex>>
  PROVE  MirrorOrder'
  BY SizeAssumption DEF IndexInv, TypeOK, MirrorOrder, Mirrors, Slots, AdvanceWrite,
     Flip, Ring_Buffer_Get_Length, Ring_Buffer_Get_Empty_Length

(* A forced write that displaces leaves both indices equal.                *)
LEMMA DisplaceOrder ==
  ASSUME IndexInv, NEW n \in 0 .. SIZE, AdvanceWrite(n), Displace(n)
  PROVE  MirrorOrder' /\ readIndex' \in Slots /\ readMirror' \in Mirrors
  <1>1. writeIndex' \in Slots
    BY AdvanceWriteType
  <1>2. QED
    BY <1>1, SizeAssumption
    DEF IndexInv, TypeOK, MirrorOrder, Mirrors, Slots, Displace, Flip

(* A read of no more bytes than are stored keeps both. *)
LEMMA AdvanceReadOrder ==
  ASSUME IndexInv, NEW n \in 0 .. SIZE, n <= Ring_Buffer_Get_Length,
         AdvanceRead(n), UNCHANGED <<writeMirror, writeIndex>>
  PROVE  MirrorOrder' /\ readIndex' \in Slots /\ readMirror' \in Mirrors
  BY SizeAssumption DEF IndexInv, TypeOK, MirrorOrder, Mirrors, Slots, AdvanceRead,
     Flip, Ring_Buffer_Get_Length

(* What a write leaves in the memory is bytes. *)
LEMMA StoredType ==
  ASSUME IndexInv, NEW data \in Seq(Byte), NEW n \in 0 .. SIZE, n <= Len(data)
  PROVE  Stored(data, n) \in [Slots -> Byte]
  <1>1. ASSUME NEW i \in Slots
        PROVE  (IF writeIndex <= i /\ i < writeIndex + n THEN data[i - writeIndex + 1]
                ELSE IF i + SIZE < writeIndex + n THEN data[i + SIZE - writeIndex + 1]
                ELSE pointer[i]) \in Byte
    BY SizeAssumption DEF IndexInv, TypeOK, Slots
  <1>2. QED
    BY <1>1 DEF Stored

(* What a read or peek hands out is bytes. *)
LEMMA FetchedType ==
  ASSUME IndexInv, NEW n \in 0 .. SIZE
  PROVE  Fetched(n) \in Seq(Byte) /\ Len(Fetched(n)) = n
  <1>1. ASSUME NEW k \in 1 .. n
        PROVE  pointer[Wrap(readIndex + k - 1)] \in Byte
    <2>1. Wrap(readIndex + k - 1) \in Slots
      BY SizeAssumption DEF IndexInv, TypeOK, Slots, Wrap
    <2>2. QED
      BY <2>1 DEF IndexInv, TypeOK
  <1>2. Fetched(n) \in [1 .. n -> Byte]
    BY <1>1 DEF Fetched
  <1>3. QED
    BY <1>2, SizeAssumption

(* A byte stored at the write index. *)
LEMMA StoredByteType ==
  ASSUME IndexInv, NEW byte \in Byte
  PROVE  [pointer EXCEPT ![writeIndex] = byte] \in [Slots -> Byte]
  BY DEF IndexInv, TypeOK

LEMMA InitIndexInv == Init => IndexInv
  <1> SUFFICES ASSUME Init PROVE IndexInv
    OBVIOUS
  <1>1. reply \in [ret : Nat, data : Seq(Byte)]
    BY DEF Init, NoBytes
  <1>2. QED
    BY <1>1, SizeAssumption, ByteAssumption
    DEF Init, IndexInv, TypeOK, MirrorOrder, Mirrors, Slots

(* A reply that carries only a count. *)
LEMMA NoBytesType ==
  ASSUME NEW n \in Nat
  PROVE  NoBytes(n) \in [ret : Nat, data : Seq(Byte)]
  BY DEF NoBytes

LEMMA BytesType ==
  ASSUME NEW s \in Seq(Byte)
  PROVE  Bytes(s) \in [ret : Nat, data : Seq(Byte)]
  BY DEF Bytes

(* One step per operation; under it, the parts of IndexInv it can disturb. *)
LEMMA StepIndexInv == IndexInv /\ [Next]_vars => IndexInv'
  <1> SUFFICES ASSUME IndexInv, [Next]_vars PROVE IndexInv'
    OBVIOUS
  <1> DEFINE ReplyType == [ret : Nat, data : Seq(Byte)]
  <1>a. /\ Ring_Buffer_Get_Length \in 0 .. SIZE
        /\ Ring_Buffer_Get_Empty_Length \in 0 .. SIZE
    BY LengthBounds
  <1>b. ASSUME pointer' \in [Slots -> Byte], reply' \in ReplyType, MirrorOrder',
               readIndex' \in Slots, writeIndex' \in Slots,
               readMirror' \in Mirrors, writeMirror' \in Mirrors
        PROVE  IndexInv'
    BY <1>b DEF IndexInv, TypeOK
  <1>c. ASSUME UNCHANGED indexVars
        PROVE  /\ MirrorOrder' /\ readIndex' \in Slots /\ writeIndex' \in Slots
               /\ readMirror' \in Mirrors /\ writeMirror' \in Mirrors
    BY <1>c DEF indexVars, IndexInv, TypeOK, MirrorOrder
  <1>1. CASE Ring_Buffer_Reset
    <2>1. pointer' \in [Slots -> Byte] /\ reply' \in ReplyType
      BY <1>1, NoBytesType DEF Ring_Buffer_Reset, IndexInv, TypeOK
    <2>2. /\ MirrorOrder' /\ readIndex' \in Slots /\ writeIndex' \in Slots
          /\ readMirror' \in Mirrors /\ writeMirror' \in Mirrors
      BY <1>1, SizeAssumption DEF Ring_Buffer_Reset, MirrorOrder, Slots, Mirrors
    <2>3. QED
      BY <2>1, <2>2, <1>b
  <1>2. ASSUME NEW data \in Blocks, Ring_Buffer_Write(data)
        PROVE  IndexInv'
    <2> DEFINE n == Smaller(Len(data), Ring_Buffer_Get_Empty_Length)
    <2>1. data \in Seq(Byte) /\ n \in 0 .. SIZE /\ n <= Len(data)
          /\ n <= Ring_Buffer_Get_Empty_Length
      BY <1>a, BlockAssumption, SizeAssumption DEF Smaller
    <2>2. reply' \in ReplyType
      BY <1>2, <2>1, NoBytesType DEF Ring_Buffer_Write
    <2>3. CASE Ring_Buffer_Get_Empty_Length = 0
      <3>1. UNCHANGED indexVars /\ UNCHANGED pointer
        BY <1>2, <2>3 DEF Ring_Buffer_Write, indexVars
      <3>2. QED
        BY <3>1, <2>2, <1>b, <1>c DEF IndexInv, TypeOK
    <2>4. CASE Ring_Buffer_Get_Empty_Length # 0
      <3>1. /\ pointer' = Stored(data, n) /\ AdvanceWrite(n)
            /\ UNCHANGED <<readMirror, readIndex>>
        BY <1>2, <2>4 DEF Ring_Buffer_Write
      <3>2. pointer' \in [Slots -> Byte]
        BY <3>1, <2>1, StoredType
      <3>3. writeIndex' \in Slots /\ writeMirror' \in Mirrors /\ MirrorOrder'
        BY <3>1, <2>1, AdvanceWriteType, AdvanceWriteOrder
      <3>4. readIndex' \in Slots /\ readMirror' \in Mirrors
        BY <3>1 DEF IndexInv, TypeOK
      <3>5. QED
        BY <3>2, <3>3, <3>4, <2>2, <1>b
    <2>5. QED
      BY <2>3, <2>4
  <1>3. ASSUME NEW byte \in Byte, Ring_Buffer_Write_Byte(byte)
        PROVE  IndexInv'
    <2>1. reply' \in ReplyType
      BY <1>3, NoBytesType DEF Ring_Buffer_Write_Byte
    <2>2. CASE Ring_Buffer_Get_Empty_Length = 0
      <3>1. UNCHANGED indexVars /\ UNCHANGED pointer
        BY <1>3, <2>2 DEF Ring_Buffer_Write_Byte, indexVars
      <3>2. QED
        BY <3>1, <2>1, <1>b, <1>c DEF IndexInv, TypeOK
    <2>3. CASE Ring_Buffer_Get_Empty_Length # 0
      <3>1. /\ pointer' = [pointer EXCEPT ![writeIndex] = byte] /\ AdvanceWrite(1)
            /\ UNCHANGED <<readMirror, readIndex>>
        BY <1>3, <2>3 DEF Ring_Buffer_Write_Byte
      <3>2. 1 \in 0 .. SIZE /\ 1 <= Ring_Buffer_Get_Empty_Length
        BY <2>3, <1>a, SizeAssumption
      <3>3. writeIndex' \in Slots /\ writeMirror' \in Mirrors /\ MirrorOrder'
        BY <3>1, <3>2, AdvanceWriteType, AdvanceWriteOrder
      <3>4. readIndex' \in Slots /\ readMirror' \in Mirrors
        BY <3>1 DEF IndexInv, TypeOK
      <3>5. QED
        BY <3>1, <3>3, <3>4, <2>1, <1>b, StoredByteType
    <2>4. QED
      BY <2>2, <2>3
  <1>4. ASSUME NEW byte \in Byte, Ring_Buffer_Write_Byte_Force(byte)
        PROVE  IndexInv'
    <2>1. /\ pointer' \in [Slots -> Byte] /\ reply' \in ReplyType
          /\ AdvanceWrite(1) /\ 1 \in 0 .. SIZE
      BY <1>4, NoBytesType, StoredByteType, SizeAssumption
      DEF Ring_Buffer_Write_Byte_Force
    <2>2. writeIndex' \in Slots /\ writeMirror' \in Mirrors
      BY <2>1, AdvanceWriteType
    <2>3. CASE Ring_Buffer_Get_Status = "FULL"
      <3>1. Displace(1)
        BY <1>4, <2>3 DEF Ring_Buffer_Write_Byte_Force
      <3>2. QED
        BY <3>1, <2>1, <2>2, DisplaceOrder, <1>b
    <2>4. CASE Ring_Buffer_Get_Status # "FULL"
      <3>1. UNCHANGED <<readMirror, readIndex>>
        BY <1>4, <2>4 DEF Ring_Buffer_Write_Byte_Force
      <3>2. 1 <= Ring_Buffer_Get_Empty_Length
        BY <2>4, <1>a, SizeAssumption
        DEF Ring_Buffer_Get_Status, Ring_Buffer_Get_Empty_Length,
            Ring_Buffer_Get_Length, IndexInv, TypeOK, MirrorOrder, Slots
      <3>3. MirrorOrder'
        BY <3>1, <3>2, <2>1, AdvanceWriteOrder
      <3>4. readIndex' \in Slots /\ readMirror' \in Mirrors
        BY <3>1 DEF IndexInv, TypeOK
      <3>5. QED
        BY <3>3, <3>4, <2>1, <2>2, <1>b
    <2>5. QED
      BY <2>3, <2>4
  <1>5. ASSUME NEW length \in Lengths, Ring_Buffer_Read(length)
        PROVE  IndexInv'
    <2> DEFINE n == Smaller(length, Ring_Buffer_Get_Length)
    <2>1. n \in 0 .. SIZE /\ n <= Ring_Buffer_Get_Length
      BY <1>a, LengthAssumption, SizeAssumption DEF Smaller
    <2>2. reply' \in ReplyType /\ UNCHANGED <<pointer, writeMirror, writeIndex>>
      BY <1>5, <2>1, FetchedType, BytesType DEF Ring_Buffer_Read
    <2>3. MirrorOrder' /\ readIndex' \in Slots /\ readMirror' \in Mirrors
      <3>1. CASE Ring_Buffer_Get_Length = 0
        BY <3>1, <1>5, <1>c DEF Ring_Buffer_Read, indexVars
      <3>2. CASE Ring_Buffer_Get_Length # 0
        BY <3>2, <1>5, <2>1, AdvanceReadOrder DEF Ring_Buffer_Read
      <3>3. QED
        BY <3>1, <3>2
    <2>4. QED
      BY <2>2, <2>3, <1>b DEF IndexInv, TypeOK
  <1>6. CASE Ring_Buffer_Read_Byte
    <2>1. pointer[readIndex] \in Byte
      BY DEF IndexInv, TypeOK
    <2>2. Bytes(<<pointer[readIndex]>>) \in ReplyType /\ NoBytes(0) \in ReplyType
      <3>1. <<pointer[readIndex]>> \in Seq(Byte)
        BY <2>1
      <3>2. QED
        BY <3>1, BytesType, NoBytesType
    <2>3. reply' \in ReplyType /\ UNCHANGED <<pointer, writeMirror, writeIndex>>
      BY <1>6, <2>2 DEF Ring_Buffer_Read_Byte
    <2>4. MirrorOrder' /\ readIndex' \in Slots /\ readMirror' \in Mirrors
      <3>1. CASE Ring_Buffer_Get_Length = 0
        BY <3>1, <1>6, <1>c DEF Ring_Buffer_Read_Byte, indexVars
      <3>2. CASE Ring_Buffer_Get_Length # 0
        <4>1. 1 \in 0 .. SIZE /\ 1 <= Ring_Buffer_Get_Length
          BY <3>2, <1>a, SizeAssumption
        <4>2. QED
          BY <4>1, <3>2, <1>6, AdvanceReadOrder DEF Ring_Buffer_Read_Byte
      <3>3. QED
        BY <3>1, <3>2
    <2>5. QED
      BY <2>3, <2>4, <1>b DEF IndexInv, TypeOK
  <1>7. ASSUME NEW length \in Lengths, Ring_Buffer_Peek(length)
        PROVE  IndexInv'
    <2> DEFINE n == Smaller(length, Ring_Buffer_Get_Length)
    <2>1. n \in 0 .. SIZE
      BY <1>a, LengthAssumption, SizeAssumption DEF Smaller
    <2>2. reply' \in ReplyType
      BY <1>7, <2>1, FetchedType, BytesType DEF Ring_Buffer_Peek
    <2>3. QED
      BY <1>7, <2>2, <1>b, <1>c DEF Ring_Buffer_Peek, IndexInv, TypeOK
  <1>8. CASE Ring_Buffer_Peek_Byte
    <2>1. pointer[readIndex] \in Byte
      BY DEF IndexInv, TypeOK
    <2>2. Bytes(<<pointer[readIndex]>>) \in ReplyType /\ NoBytes(0) \in ReplyType
      <3>1. <<pointer[readIndex]>> \in Seq(Byte)
        BY <2>1
      <3>2. QED
        BY <3>1, BytesType, NoBytesType
    <2>3. reply' \in ReplyType
      BY <1>8, <2>2 DEF Ring_Buffer_Peek_Byte
    <2>4. QED
      BY <1>8, <2>3, <1>b, <1>c DEF Ring_Buffer_Peek_Byte, IndexInv, TypeOK
  <1>9. ASSUME NEW data \in Blocks, Ring_Buffer_Write_Force(data)
        PROVE  IndexInv'
    <2> DEFINE n    == Smaller(Len(data), SIZE)
               kept == SubSeq(data, Len(data) - n + 1, Len(data))
    <2>1. n \in 0 .. SIZE /\ kept \in Seq(Byte) /\ Len(kept) = n
      BY BlockAssumption, SizeAssumption DEF Smaller
    <2>2. /\ pointer' = Stored(kept, n) /\ AdvanceWrite(n) /\ reply' \in ReplyType
      BY <1>9, <2>1, NoBytesType DEF Ring_Buffer_Write_Force
    <2>3. pointer' \in [Slots -> Byte]
      <3>1. n <= Len(kept)
        BY <2>1
      <3>2. QED
        BY <2>1, <2>2, <3>1, StoredType
    <2>4. writeIndex' \in Slots /\ writeMirror' \in Mirrors
      BY <2>1, <2>2, AdvanceWriteType
    <2>5. MirrorOrder' /\ readIndex' \in Slots /\ readMirror' \in Mirrors
      <3>1. CASE n > Ring_Buffer_Get_Empty_Length
        <4>1. Displace(n)
          BY <1>9, <3>1, <2>1, <1>a DEF Ring_Buffer_Write_Force
        <4>2. QED
          BY <4>1, <2>1, <2>2, DisplaceOrder
      <3>2. CASE n <= Ring_Buffer_Get_Empty_Length
        <4>1. UNCHANGED <<readMirror, readIndex>>
          BY <1>9, <3>2, <2>1, <1>a DEF Ring_Buffer_Write_Force
        <4>2. MirrorOrder'
          BY <4>1, <3>2, <2>1, <2>2, AdvanceWriteOrder
        <4>3. QED
          BY <4>1, <4>2 DEF IndexInv, TypeOK
      <3>3. QED
        BY <3>1, <3>2, <2>1, <1>a
    <2>6. QED
      BY <2>2, <2>3, <2>4, <2>5, <1>b
  <1>10. CASE UNCHANGED vars
    BY <1>10, <1>b, <1>c DEF vars, IndexInv, TypeOK
  <1>11. QED
    BY <1>1, <1>2, <1>3, <1>4, <1>5, <1>6, <1>7, <1>8, <1>9, <1>10
    DEF Next

(* Under any sequence of ring_buffer.c's operations, forced writes         *)
(* included, both indices stay inside the memory and the unread length     *)
(* never underflows.                                                       *)
THEOREM IndicesInMemory == Spec => []IndexInv
  <1>1. QED
    BY InitIndexInv, StepIndexInv, PTL DEF Spec

THEOREM TypeCorrect == Spec => []TypeOK
  <1>1. IndexInv => TypeOK
    BY DEF IndexInv
  <1>2. QED
    BY <1>1, IndicesInMemory, PTL

THEOREM MirrorOrderHolds == Spec => []MirrorOrder
  <1>1. IndexInv => MirrorOrder
    BY DEF IndexInv
  <1>2. QED
    BY <1>1, IndicesInMemory, PTL

-------------------------------------------------------------------------------
(* The ring buffer implements the bounded byte queue of ByteQueue, for     *)
(* every size and every sequence of calls.  The refinement mapping is      *)
(* Contents, the unread bytes in reading order; each lemma says what one   *)
(* index movement does to it.                                              *)

(* n bytes of the ring from index r on, as a sequence. *)
BytesFrom(p, r, n) == [k \in 1 .. n |-> p[Wrap(r + k - 1)]]

LEMMA RingSlice ==
  ASSUME NEW p \in [Slots -> Byte], NEW r \in Slots, NEW n \in 0 .. SIZE
  PROVE  /\ BytesFrom(p, r, n) \in Seq(Byte) /\ Len(BytesFrom(p, r, n)) = n
         /\ \A k \in 1 .. n : BytesFrom(p, r, n)[k] = p[Wrap(r + k - 1)]
         /\ \A k \in 1 .. n : Wrap(r + k - 1) \in Slots
  <1>1. ASSUME NEW k \in 1 .. n
        PROVE  Wrap(r + k - 1) \in Slots
    BY SizeAssumption DEF Slots, Wrap
  <1>2. BytesFrom(p, r, n) \in [1 .. n -> Byte]
    BY <1>1 DEF BytesFrom
  <1>3. n \in Nat
    BY SizeAssumption
  <1>4. BytesFrom(p, r, n) \in Seq(Byte) /\ Len(BytesFrom(p, r, n)) = n
    BY <1>2, <1>3
  <1>5. \A k \in 1 .. n : BytesFrom(p, r, n)[k] = p[Wrap(r + k - 1)]
    BY DEF BytesFrom
  <1>6. QED
    BY <1>1, <1>4, <1>5

(* The unread bytes, in this state. *)
LEMMA ContentsSlice ==
  ASSUME IndexInv
  PROVE  /\ Contents \in Seq(Byte) /\ Len(Contents) = Ring_Buffer_Get_Length
         /\ \A k \in 1 .. Ring_Buffer_Get_Length :
              Contents[k] = pointer[Wrap(readIndex + k - 1)]
  <1>1. Ring_Buffer_Get_Length \in 0 .. SIZE
    BY LengthBounds
  <1>2. pointer \in [Slots -> Byte] /\ readIndex \in Slots
    BY DEF IndexInv, TypeOK
  <1>3. Contents = BytesFrom(pointer, readIndex, Ring_Buffer_Get_Length)
    BY DEF Contents, Fetched, BytesFrom
  <1>4. QED
    BY <1>1, <1>2, <1>3, RingSlice

(* A prefix of the unread bytes is what a read of that many hands out. *)
LEMMA FetchedIsPrefix ==
  ASSUME IndexInv, NEW n \in 0 .. SIZE, n <= Ring_Buffer_Get_Length
  PROVE  Fetched(n) = SubSeq(Contents, 1, n) /\ Len(Fetched(n)) = n
  <1>1. /\ Fetched(n) \in Seq(Byte) /\ Len(Fetched(n)) = n
        /\ \A k \in 1 .. n : Fetched(n)[k] = pointer[Wrap(readIndex + k - 1)]
    <2>1. pointer \in [Slots -> Byte] /\ readIndex \in Slots
      BY DEF IndexInv, TypeOK
    <2>2. Fetched(n) = BytesFrom(pointer, readIndex, n)
      BY DEF Fetched, BytesFrom
    <2>3. QED
      BY <2>1, <2>2, RingSlice
  <1>2. Ring_Buffer_Get_Length \in 0 .. SIZE
    BY LengthBounds
  <1>3. \A k \in 1 .. n : Contents[k] \in Byte
    BY ContentsSlice, <1>2, SizeAssumption
  <1>4. /\ SubSeq(Contents, 1, n) \in Seq(Byte)
        /\ Len(SubSeq(Contents, 1, n)) = n
        /\ \A k \in 1 .. n : SubSeq(Contents, 1, n)[k] = Contents[k]
    <2>1. /\ SubSeq(Contents, 1, n) \in Seq(Byte)
          /\ Len(SubSeq(Contents, 1, n)) = IF 1 <= n THEN n - 1 + 1 ELSE 0
          /\ \A k \in 1 .. n - 1 + 1 : SubSeq(Contents, 1, n)[k] = Contents[1 + k - 1]
      BY <1>3, SubSeqProperties, SizeAssumption
    <2>2. QED
      BY <2>1, SizeAssumption
  <1>5. \A k \in 1 .. n : Fetched(n)[k] = SubSeq(Contents, 1, n)[k]
    <2>1. ASSUME NEW k \in 1 .. n PROVE Fetched(n)[k] = SubSeq(Contents, 1, n)[k]
      <3>1. k \in 1 .. Ring_Buffer_Get_Length
        BY <1>2, SizeAssumption
      <3>2. QED
        BY <3>1, <1>1, <1>4, ContentsSlice
    <2>2. QED
      BY <2>1
  <1>6. QED
    BY <1>1, <1>4, <1>5, SeqEqual, SizeAssumption

(* A write of n bytes that fit appends them. *)
LEMMA WriteAppends ==
  ASSUME IndexInv, NEW data \in Seq(Byte), NEW n \in 0 .. SIZE, n <= Len(data),
         n <= Ring_Buffer_Get_Empty_Length, pointer' \in [Slots -> Byte],
         pointer' = Stored(data, n), AdvanceWrite(n),
         UNCHANGED <<readMirror, readIndex>>
  PROVE  Contents' = Contents \o SubSeq(data, 1, n)
  <1> DEFINE len == Ring_Buffer_Get_Length
             new == SubSeq(data, 1, n)
  <1>1. len \in 0 .. SIZE /\ len + n \in 0 .. SIZE
    BY LengthBounds, SizeAssumption DEF Ring_Buffer_Get_Empty_Length
  <1>2. len' = len + n
    <2>1. /\ readIndex \in Int /\ writeIndex \in Int /\ SIZE \in Int /\ n \in Int
          /\ readMirror \in Mirrors /\ writeMirror \in Mirrors
          /\ readIndex' = readIndex /\ readMirror' = readMirror
      BY SizeAssumption DEF IndexInv, TypeOK, Slots
    <2>2. CASE SIZE - writeIndex > n
      <3>1. writeIndex' = writeIndex + n /\ writeMirror' = writeMirror
        BY <2>1, <2>2 DEF AdvanceWrite
      <3>2. QED
        BY <2>1, <3>1 DEF Ring_Buffer_Get_Length
    <2>3. CASE SIZE - writeIndex <= n
      <3>1. writeIndex' = n - (SIZE - writeIndex) /\ writeMirror' = Flip(writeMirror)
        BY <2>1, <2>3 DEF AdvanceWrite
      <3>2. readMirror = writeMirror
        <4>1. readMirror # writeMirror => n <= readIndex - writeIndex
          BY <2>1 DEF Ring_Buffer_Get_Length, Ring_Buffer_Get_Empty_Length
        <4>2. readIndex < SIZE
          BY SizeAssumption DEF IndexInv, TypeOK, Slots
        <4>3. QED
          BY <2>1, <2>3, <4>1, <4>2
      <3>3. writeMirror' # readMirror'
        BY <2>1, <3>1, <3>2, FlipTwice
      <3>4. QED
        BY <2>1, <3>1, <3>2, <3>3 DEF Ring_Buffer_Get_Length
    <2>4. QED
      BY <2>1, <2>2, <2>3
  <1>3. /\ Contents' \in Seq(Byte) /\ Len(Contents') = len + n
        /\ \A k \in 1 .. len + n :
             /\ Contents'[k] = pointer'[Wrap(readIndex + k - 1)]
             /\ Wrap(readIndex + k - 1) \in Slots
    <2>1. Contents' = BytesFrom(pointer', readIndex, len + n)
      BY <1>2 DEF Contents, Fetched, BytesFrom
    <2>2. readIndex \in Slots
      BY DEF IndexInv, TypeOK
    <2>3. QED
      BY <2>1, <2>2, <1>1, RingSlice
  <1>4. new \in Seq(Byte) /\ Len(new) = n /\ \A k \in 1 .. n : new[k] = data[k]
    <2>1. \A k \in 1 .. n : data[k] \in Byte
      BY SizeAssumption
    <2>2. /\ new \in Seq(Byte)
          /\ Len(new) = IF 1 <= n THEN n - 1 + 1 ELSE 0
          /\ \A k \in 1 .. n - 1 + 1 : new[k] = data[1 + k - 1]
      BY <2>1, SubSeqProperties, SizeAssumption
    <2>3. QED
      BY <2>2, SizeAssumption
  <1>5. /\ Contents \o new \in Seq(Byte) /\ Len(Contents \o new) = len + n
        /\ \A k \in 1 .. len + n :
             (Contents \o new)[k] = IF k <= len THEN Contents[k] ELSE new[k - len]
    <2>1. Contents \in Seq(Byte) /\ Len(Contents) = len
      BY ContentsSlice
    <2> HIDE DEF new, len
    <2>2. QED
      BY <2>1, <1>4, ConcatProperties
  <1>6. ASSUME NEW k \in 1 .. len + n
        PROVE  Contents'[k] = (Contents \o new)[k]
    <2> DEFINE i == Wrap(readIndex + k - 1)
    <2>1. i \in Slots /\ Contents'[k] = pointer'[i]
      BY <1>3
    <2>2. CASE k <= len
      <3>1. ~ (writeIndex <= i /\ i < writeIndex + n) /\ ~ (i + SIZE < writeIndex + n)
        BY <2>2, <1>1, SizeAssumption DEF IndexInv, TypeOK, MirrorOrder, Slots, Wrap,
           Ring_Buffer_Get_Length, Ring_Buffer_Get_Empty_Length
      <3>2. pointer'[i] = pointer[i]
        BY <3>1, <2>1 DEF Stored
      <3>3. Contents[k] = pointer[i]
        BY <2>2, <1>1, ContentsSlice
      <3>4. QED
        BY <2>1, <2>2, <3>2, <3>3, <1>5
    <2>3. CASE ~ (k <= len)
      <3>1. k - len \in 1 .. n
        BY <2>3, <1>1, SizeAssumption
      <3>2. \/ /\ writeIndex <= i /\ i < writeIndex + n
               /\ i - writeIndex + 1 = k - len
            \/ /\ ~ (writeIndex <= i /\ i < writeIndex + n)
               /\ i + SIZE < writeIndex + n
               /\ i + SIZE - writeIndex + 1 = k - len
        BY <2>3, <1>1, SizeAssumption DEF IndexInv, TypeOK, MirrorOrder, Slots, Wrap,
           Ring_Buffer_Get_Length, Ring_Buffer_Get_Empty_Length
      <3>3. pointer'[i] = data[k - len]
        BY <3>2, <2>1 DEF Stored
      <3>4. (Contents \o new)[k] = new[k - len]
        BY <1>5, <2>3
      <3>5. new[k - len] = data[k - len]
        BY <1>4, <3>1
      <3>6. QED
        BY <3>3, <3>4, <3>5, <2>1
    <2>4. QED
      BY <2>2, <2>3
  <1>7. QED
    BY <1>3, <1>5, <1>6, SeqEqual

(* A read of n bytes leaves the others. *)
LEMMA ReadDrops ==
  ASSUME IndexInv, NEW n \in 0 .. SIZE, n <= Ring_Buffer_Get_Length,
         AdvanceRead(n), readIndex' \in Slots,
         UNCHANGED <<pointer, writeMirror, writeIndex>>
  PROVE  Contents' = SubSeq(Contents, n + 1, Len(Contents))
  <1> DEFINE len == Ring_Buffer_Get_Length
             old == SubSeq(Contents, n + 1, Len(Contents))
  <1>1. len \in 0 .. SIZE /\ len - n \in 0 .. SIZE
    BY LengthBounds, SizeAssumption
  <1>2. len' = len - n
    BY SizeAssumption DEF IndexInv, TypeOK, MirrorOrder, Slots, Mirrors, AdvanceRead,
       Flip, Ring_Buffer_Get_Length
  <1>3. /\ Contents' \in Seq(Byte) /\ Len(Contents') = len - n
        /\ \A k \in 1 .. len - n : Contents'[k] = pointer[Wrap(readIndex' + k - 1)]
    <2>1. Contents' = BytesFrom(pointer, readIndex', len - n)
      BY <1>2 DEF Contents, Fetched, BytesFrom
    <2>2. pointer \in [Slots -> Byte]
      BY DEF IndexInv, TypeOK
    <2>3. QED
      BY <2>1, <2>2, <1>1, RingSlice
  <1>4. /\ old \in Seq(Byte) /\ Len(old) = len - n
        /\ \A k \in 1 .. len - n : old[k] = Contents[n + k]
    <2>1. \A k \in n + 1 .. len : Contents[k] \in Byte
      BY ContentsSlice, <1>1, SizeAssumption
    <2>2. /\ old \in Seq(Byte)
          /\ Len(old) = IF n + 1 <= len THEN len - (n + 1) + 1 ELSE 0
          /\ \A k \in 1 .. len - (n + 1) + 1 : old[k] = Contents[(n + 1) + k - 1]
      <3>1. Len(Contents) = len
        BY ContentsSlice
      <3>2. QED
        BY <2>1, <3>1, <1>1, SubSeqProperties, SizeAssumption
    <2>3. QED
      BY <2>2, <1>1, SizeAssumption
  <1>5. ASSUME NEW k \in 1 .. len - n
        PROVE  Contents'[k] = old[k]
    <2>1. Wrap(readIndex' + k - 1) = Wrap(readIndex + (n + k) - 1)
      <3>1. /\ readIndex \in 0 .. SIZE - 1 /\ readIndex' \in 0 .. SIZE - 1
            /\ k \in 1 .. SIZE /\ len - n <= SIZE
        BY <1>1, SizeAssumption DEF IndexInv, TypeOK, Slots
      <3>2. \/ readIndex' = readIndex + n
            \/ readIndex' = readIndex + n - SIZE
        BY <3>1, SizeAssumption DEF AdvanceRead
      <3>3. CASE readIndex' = readIndex + n
        BY <3>1, <3>3, SizeAssumption DEF Wrap
      <3>4. CASE readIndex' = readIndex + n - SIZE
        <4>1. readIndex' + k - 1 < SIZE
          <5>1. len <= SIZE
            BY <1>1
          <5>2. QED
            BY <3>1, <3>4, <1>1, <5>1, SizeAssumption
        <4>2. readIndex + (n + k) - 1 >= SIZE
          BY <3>1, <3>4, SizeAssumption
        <4>3. QED
          BY <3>1, <3>4, <4>1, <4>2, SizeAssumption DEF Wrap
      <3>5. QED
        BY <3>2, <3>3, <3>4
    <2>2. n + k \in 1 .. len
      BY <1>1, SizeAssumption
    <2>3. QED
      BY <2>1, <2>2, <1>3, <1>4, ContentsSlice
  <1>6. QED
    BY <1>3, <1>4, <1>5, SeqEqual, <1>1

(* Storing one byte is a write of one byte, which never wraps. *)
LEMMA StoredOneByte ==
  ASSUME IndexInv, NEW byte \in Byte
  PROVE  [pointer EXCEPT ![writeIndex] = byte] = Stored(<<byte>>, 1)
  <1>1. ASSUME NEW i \in Slots
        PROVE  [pointer EXCEPT ![writeIndex] = byte][i] = Stored(<<byte>>, 1)[i]
    BY SizeAssumption DEF IndexInv, TypeOK, Slots, Stored
  <1>2. /\ [pointer EXCEPT ![writeIndex] = byte] = [i \in Slots |->
               [pointer EXCEPT ![writeIndex] = byte][i]]
        /\ Stored(<<byte>>, 1) = [i \in Slots |-> Stored(<<byte>>, 1)[i]]
    BY DEF IndexInv, TypeOK, Stored
  <1>3. QED
    BY <1>1, <1>2

(* A byte written where there is room is appended. *)
LEMMA WriteByteAppends ==
  ASSUME IndexInv, NEW byte \in Byte, 1 <= Ring_Buffer_Get_Empty_Length,
         pointer' \in [Slots -> Byte], pointer' = Stored(<<byte>>, 1),
         AdvanceWrite(1), UNCHANGED <<readMirror, readIndex>>
  PROVE  /\ Contents' = Contents \o SubSeq(<<byte>>, 1, 1)
         /\ Contents' = Append(Contents, byte)
  <1> DEFINE one == <<byte>>
  <1>1. one \in Seq(Byte) /\ Len(one) = 1 /\ 1 <= Len(one) /\ 1 \in 0 .. SIZE
    BY SizeAssumption
  <1>2. pointer' = Stored(one, 1)
    OBVIOUS
  <1>3. SubSeq(one, 1, 1) = one
    BY <1>1, SubSeqFull
  <1>4. Contents' = Contents \o SubSeq(one, 1, 1)
    <2> HIDE DEF one
    <2>1. QED
      BY <1>1, <1>2, WriteAppends, Zenon
  <1>5. Contents \in Seq(Byte)
    BY ContentsSlice
  <1>6. QED
    BY <1>3, <1>4, <1>5, AppendIsConcat

(* A forced byte on a full ring takes the place of the oldest one. *)
LEMMA ForceShifts ==
  ASSUME IndexInv, NEW byte \in Byte, Ring_Buffer_Get_Length = SIZE,
         pointer' \in [Slots -> Byte], pointer'[writeIndex] = byte,
         \A i \in Slots \ {writeIndex} : pointer'[i] = pointer[i],
         AdvanceWrite(1), Displace(1)
  PROVE  Contents' = Append(Tail(Contents), byte)
  <1>1. /\ readIndex = writeIndex /\ readMirror # writeMirror
        /\ readIndex' = Wrap(readIndex + 1) /\ readIndex' \in Slots
        /\ Ring_Buffer_Get_Length' = SIZE
    BY SizeAssumption DEF IndexInv, TypeOK, MirrorOrder, Slots, Mirrors, AdvanceWrite,
       Displace, Flip, Wrap, Ring_Buffer_Get_Length
  <1>2. /\ Contents' \in Seq(Byte) /\ Len(Contents') = SIZE
        /\ \A k \in 1 .. SIZE : Contents'[k] = pointer'[Wrap(readIndex' + k - 1)]
    <2>1. Contents' = BytesFrom(pointer', readIndex', SIZE)
      BY <1>1 DEF Contents, Fetched, BytesFrom
    <2>2. SIZE \in 0 .. SIZE
      BY SizeAssumption
    <2>3. readIndex' \in Slots
      BY <1>1
    <2>4. QED
      BY <2>1, <2>2, <2>3, RingSlice
  <1>3. /\ Contents \in Seq(Byte) /\ Len(Contents) = SIZE
        /\ \A k \in 1 .. SIZE : Contents[k] = pointer[Wrap(readIndex + k - 1)]
    BY ContentsSlice
  <1>4. /\ Tail(Contents) \in Seq(Byte) /\ Len(Tail(Contents)) = SIZE - 1
        /\ \A k \in 1 .. SIZE - 1 : Tail(Contents)[k] = Contents[k + 1]
    <2>1. Contents # << >>
      BY <1>3, SizeAssumption
    <2>2. QED
      BY <2>1, <1>3, HeadTailProperties
  <1>5. /\ Append(Tail(Contents), byte) \in Seq(Byte)
        /\ Len(Append(Tail(Contents), byte)) = SIZE
        /\ \A k \in 1 .. SIZE - 1 : Append(Tail(Contents), byte)[k] = Contents[k + 1]
        /\ Append(Tail(Contents), byte)[SIZE] = byte
    BY <1>4, AppendProperties, SizeAssumption
  <1>6. ASSUME NEW k \in 1 .. SIZE
        PROVE  Contents'[k] = Append(Tail(Contents), byte)[k]
    <2>1. CASE k < SIZE
      <3>1. /\ Wrap(readIndex' + k - 1) = Wrap(readIndex + (k + 1) - 1)
            /\ Wrap(readIndex' + k - 1) # writeIndex
            /\ Wrap(readIndex' + k - 1) \in Slots
        BY <2>1, <1>1, SizeAssumption DEF Wrap, Slots, IndexInv, TypeOK
      <3>2. pointer'[Wrap(readIndex' + k - 1)] = pointer[Wrap(readIndex + (k + 1) - 1)]
        BY <3>1
      <3>3. k \in 1 .. SIZE - 1 /\ k + 1 \in 1 .. SIZE
        BY <2>1, SizeAssumption
      <3>4. QED
        BY <3>2, <3>3, <1>2, <1>3, <1>5
    <2>2. CASE k = SIZE
      <3>1. Wrap(readIndex' + k - 1) = writeIndex /\ writeIndex \in Slots
        BY <2>2, <1>1, SizeAssumption DEF Wrap, Slots, IndexInv, TypeOK
      <3>2. pointer'[writeIndex] = byte
        BY <3>1
      <3>3. Contents'[k] = pointer'[Wrap(readIndex' + k - 1)]
        BY <1>2
      <3>4. Contents'[k] = byte
        BY <3>1, <3>2, <3>3
      <3>5. Append(Tail(Contents), byte)[k] = byte
        BY <2>2, <1>5
      <3>6. QED
        BY <3>4, <3>5
    <2>3. k < SIZE \/ k = SIZE
      BY SizeAssumption
    <2>4. QED
      BY <2>1, <2>2, <2>3
  <1>7. QED
    BY <1>2, <1>5, <1>6, SeqEqual

(* A forced block that has to displace others, while the writer is one lap *)
(* ahead, takes the place of the oldest bytes.                             *)
LEMMA ForceBlockShifts ==
  ASSUME IndexInv, NEW kept \in Seq(Byte), NEW n \in 0 .. SIZE, Len(kept) = n,
         n > Ring_Buffer_Get_Empty_Length, readMirror # writeMirror,
         pointer' \in [Slots -> Byte], pointer' = Stored(kept, n),
         AdvanceWrite(n), Displace(n), readIndex' \in Slots
  PROVE  Contents' = SubSeq(Contents, Ring_Buffer_Get_Length + n - SIZE + 1,
                            Len(Contents)) \o kept
  <1> DEFINE len  == Ring_Buffer_Get_Length
             over == len + n - SIZE
             rest == SubSeq(Contents, over + 1, Len(Contents))
  <1>1. /\ len \in 0 .. SIZE /\ over \in 1 .. len /\ len - over = SIZE - n
        /\ len = SIZE - (readIndex - writeIndex)
    BY LengthBounds, SizeAssumption
    DEF Ring_Buffer_Get_Empty_Length, Ring_Buffer_Get_Length, IndexInv, TypeOK, Slots
  <1>2. /\ Ring_Buffer_Get_Length' = SIZE
        /\ readIndex' = Wrap(writeIndex + n)
    <2>1. readIndex' = writeIndex' /\ readMirror' # writeMirror'
      BY SizeAssumption DEF IndexInv, TypeOK, Slots, Mirrors, AdvanceWrite, Displace, Flip
    <2>2. writeIndex' = Wrap(writeIndex + n)
      BY SizeAssumption DEF IndexInv, TypeOK, Slots, AdvanceWrite, Wrap
    <2>3. QED
      BY <2>1, <2>2, SizeAssumption DEF Ring_Buffer_Get_Length, Slots
  <1>3. /\ Contents' \in Seq(Byte) /\ Len(Contents') = SIZE
        /\ \A k \in 1 .. SIZE :
             /\ Contents'[k] = pointer'[Wrap(readIndex' + k - 1)]
             /\ Wrap(readIndex' + k - 1) \in Slots
    <2>1. Contents' = BytesFrom(pointer', readIndex', SIZE)
      BY <1>2 DEF Contents, Fetched, BytesFrom
    <2>2. SIZE \in 0 .. SIZE
      BY SizeAssumption
    <2>3. QED
      BY <2>1, <2>2, RingSlice
  <1>4. /\ rest \in Seq(Byte) /\ Len(rest) = SIZE - n
        /\ \A k \in 1 .. SIZE - n : rest[k] = Contents[over + k]
    <2>1. Contents \in Seq(Byte) /\ Len(Contents) = len
      BY ContentsSlice
    <2> HIDE DEF len, over
    <2>0. over \in Nat /\ len \in Nat /\ over >= 1
      BY <1>1, SizeAssumption
    <2>2. \A k \in over + 1 .. len : Contents[k] \in Byte
      BY <2>0, <2>1
    <2>3. /\ rest \in Seq(Byte)
          /\ Len(rest) = IF over + 1 <= len THEN len - (over + 1) + 1 ELSE 0
          /\ \A k \in 1 .. len - (over + 1) + 1 : rest[k] = Contents[(over + 1) + k - 1]
      BY <2>0, <2>1, <2>2, SubSeqProperties
    <2> HIDE DEF rest
    <2>4. len - over = SIZE - n /\ SIZE - n \in Nat
      BY <1>1, SizeAssumption
    <2>5. len - (over + 1) + 1 = SIZE - n /\ (SIZE - n = 0 \/ over + 1 <= len)
      BY <2>0, <2>4
    <2>6. Len(rest) = SIZE - n
      BY <2>0, <2>3, <2>4, <2>5
    <2>7. ASSUME NEW k \in 1 .. SIZE - n
          PROVE  rest[k] = Contents[over + k]
      <3>1. (over + 1) + k - 1 = over + k
        BY <2>0, <2>4
      <3>2. QED
        BY <2>3, <2>5, <3>1
    <2>8. QED
      BY <2>3, <2>6, <2>7
  <1>5. /\ rest \o kept \in Seq(Byte) /\ Len(rest \o kept) = SIZE
        /\ \A k \in 1 .. SIZE :
             (rest \o kept)[k] = IF k <= SIZE - n THEN rest[k] ELSE kept[k - (SIZE - n)]
    <2> HIDE DEF rest
    <2>1. QED
      BY <1>4, ConcatProperties, SizeAssumption
  <1>6. ASSUME NEW k \in 1 .. SIZE
        PROVE  Contents'[k] = (rest \o kept)[k]
    <2> DEFINE i == Wrap(readIndex' + k - 1)
    <2>1. i \in Slots /\ Contents'[k] = pointer'[i]
      BY <1>3
    <2>2. CASE k <= SIZE - n
      <3>1. /\ ~ (writeIndex <= i /\ i < writeIndex + n) /\ ~ (i + SIZE < writeIndex + n)
            /\ i = Wrap(readIndex + (over + k) - 1)
            /\ over + k \in 1 .. len /\ k \in 1 .. SIZE - n
        BY <2>2, <1>1, <1>2, SizeAssumption DEF IndexInv, TypeOK, Slots, Wrap
      <3>2. pointer'[i] = pointer[i]
        BY <3>1, <2>1 DEF Stored
      <3>3. Contents[over + k] = pointer[i]
        BY <3>1, ContentsSlice
      <3>4. rest[k] = Contents[over + k]
        BY <3>1, <1>4
      <3>5. (rest \o kept)[k] = rest[k]
        BY <2>2, <1>5
      <3>6. QED
        BY <2>1, <3>2, <3>3, <3>4, <3>5
    <2>3. CASE ~ (k <= SIZE - n)
      <3>1. \/ /\ writeIndex <= i /\ i < writeIndex + n
               /\ i - writeIndex + 1 = k - (SIZE - n)
            \/ /\ ~ (writeIndex <= i /\ i < writeIndex + n)
               /\ i + SIZE < writeIndex + n
               /\ i + SIZE - writeIndex + 1 = k - (SIZE - n)
        BY <2>3, <1>2, SizeAssumption DEF IndexInv, TypeOK, Slots, Wrap
      <3>2. pointer'[i] = kept[k - (SIZE - n)]
        BY <3>1, <2>1 DEF Stored
      <3>3. QED
        BY <3>2, <2>1, <2>3, <1>5
    <2>4. QED
      BY <2>2, <2>3
  <1>7. Contents' = rest \o kept
    <2> HIDE DEF rest
    <2>1. QED
      BY <1>3, <1>5, <1>6, SeqEqual
  <1>8. QED
    BY <1>7

(* On the same lap such a block always passes the end of the memory, both  *)
(* mirrors are complemented, and the ring looks empty.                     *)
LEMMA ForceBlockEmpties ==
  ASSUME IndexInv, NEW n \in 0 .. SIZE, n > Ring_Buffer_Get_Empty_Length,
         readMirror = writeMirror, AdvanceWrite(n), Displace(n), readIndex' \in Slots
  PROVE  Contents' = << >>
  <1>1. n >= SIZE - writeIndex
    BY SizeAssumption DEF IndexInv, TypeOK, MirrorOrder, Slots,
       Ring_Buffer_Get_Length, Ring_Buffer_Get_Empty_Length
  <1>2. readIndex' = writeIndex' /\ readMirror' = writeMirror'
    BY <1>1, SizeAssumption DEF IndexInv, TypeOK, Slots, AdvanceWrite, Displace
  <1>3. readIndex' \in Int
    BY SizeAssumption DEF Slots
  <1>4. Ring_Buffer_Get_Length' = 0
    <2>1. Ring_Buffer_Get_Length' = writeIndex' - readIndex'
      BY <1>2 DEF Ring_Buffer_Get_Length
    <2>2. \A i, j \in Int : i = j => i - j = 0
      OBVIOUS
    <2>3. writeIndex' = readIndex' /\ writeIndex' \in Int
      BY <1>2, <1>3
    <2>4. writeIndex' - readIndex' = 0
      BY <2>2, <2>3, <1>3
    <2>5. QED
      BY <2>1, <2>4, Zenon
  <1>5. QED
    BY <1>4 DEF Contents, Fetched

(* Nothing unread, nothing moved: the queue is as it was. *)
LEMMA ContentsKept ==
  ASSUME UNCHANGED <<pointer, indexVars>>
  PROVE  Contents' = Contents
  BY DEF indexVars, Contents, Fetched, Ring_Buffer_Get_Length

LEMMA ContentsEmpty ==
  ASSUME readIndex = writeIndex, readMirror = writeMirror, readIndex \in Int
  PROVE  Contents = << >>
  <1>1. Ring_Buffer_Get_Length = 0
    BY DEF Ring_Buffer_Get_Length
  <1>2. QED
    BY <1>1 DEF Contents, Fetched

(* Reading or peeking one byte, as a read or peek of length one. *)
LEMMA OneByteFetched ==
  ASSUME IndexInv
  PROVE  Bytes(<<pointer[readIndex]>>) = Bytes(Fetched(1)) /\ NoBytes(0) = Bytes(Fetched(0))
  <1>1. Fetched(1) = <<pointer[readIndex]>>
    BY SizeAssumption DEF Fetched, Wrap, IndexInv, TypeOK, Slots
  <1>2. Fetched(0) = << >>
    BY DEF Fetched
  <1>3. QED
    BY <1>1, <1>2 DEF Bytes, NoBytes

(* The initial ring is the empty queue. *)
LEMMA InitQueue == Init => Queue!Init
  <1> SUFFICES ASSUME Init PROVE Queue!Init
    OBVIOUS
  <1>1. Contents = << >>
    BY ContentsEmpty DEF Init
  <1>2. reply = Queue!NoBytes(0)
    BY DEF Init, NoBytes, Queue!NoBytes
  <1>3. QED
    BY <1>1, <1>2 DEF Queue!Init

(* Every operation is the queue operation of the same purpose. *)
LEMMA StepQueue ==
  ASSUME IndexInv, IndexInv', [Next]_vars
  PROVE  [Queue!Next]_<<Contents, reply>>
  <1> DEFINE len == Ring_Buffer_Get_Length
  <1>a. /\ len \in 0 .. SIZE /\ Len(Contents) = len /\ Contents \in Seq(Byte)
        /\ Ring_Buffer_Get_Empty_Length = SIZE - len
    BY LengthBounds, ContentsSlice DEF Ring_Buffer_Get_Empty_Length
  <1>b. pointer' \in [Slots -> Byte] /\ readIndex' \in Slots
    BY DEF IndexInv, TypeOK
  <1>1. CASE Ring_Buffer_Reset
    <2>1. Contents' = << >>
      BY <1>1, ContentsEmpty
      DEF Ring_Buffer_Reset, Contents, Fetched, Ring_Buffer_Get_Length
    <2>2. Queue!Clear
      BY <1>1, <2>1 DEF Ring_Buffer_Reset, Queue!Clear, NoBytes, Queue!NoBytes
    <2>3. QED
      BY <2>2 DEF Queue!Next
  <1>2. ASSUME NEW data \in Blocks, Ring_Buffer_Write(data)
        PROVE  Queue!Put(data)
    <2> DEFINE n == Smaller(Len(data), SIZE - len)
    <2>1. /\ data \in Seq(Byte) /\ n \in 0 .. SIZE /\ n <= Len(data)
          /\ n <= Ring_Buffer_Get_Empty_Length
          /\ n = Queue!Smaller(Len(data), SIZE - Len(Contents))
      BY <1>a, BlockAssumption, SizeAssumption DEF Smaller, Queue!Smaller
    <2>2. reply' = Queue!NoBytes(n)
      BY <1>2, <1>a DEF Ring_Buffer_Write, NoBytes, Queue!NoBytes
    <2>3. Contents' = Contents \o SubSeq(data, 1, n)
      <3>1. CASE Ring_Buffer_Get_Empty_Length = 0
        <4>1. Contents' = Contents
          BY <3>1, <1>2, ContentsKept DEF Ring_Buffer_Write, indexVars
        <4>2. n = 0
          BY <3>1, <2>1, SizeAssumption
        <4>3. SubSeq(data, 1, n) = << >>
          BY <4>2, SubSeqEmpty
        <4>4. QED
          BY <4>1, <4>3, <1>a, ConcatEmptySeq
      <3>2. CASE Ring_Buffer_Get_Empty_Length # 0
        <4>1. /\ pointer' = Stored(data, n) /\ AdvanceWrite(n)
              /\ UNCHANGED <<readMirror, readIndex>>
          BY <3>2, <1>2, <1>a DEF Ring_Buffer_Write
        <4>2. QED
          BY <4>1, <2>1, <1>b, WriteAppends
      <3>3. QED
        BY <3>1, <3>2
    <2>4. QED
      BY <2>1, <2>2, <2>3 DEF Queue!Put
  <1>3. ASSUME NEW byte \in Byte, Ring_Buffer_Write_Byte(byte)
        PROVE  Queue!Put(<<byte>>)
    <2> DEFINE n == Smaller(1, SIZE - len)
    <2>1. /\ <<byte>> \in Seq(Byte) /\ Len(<<byte>>) = 1 /\ n \in 0 .. 1
          /\ n = Queue!Smaller(Len(<<byte>>), SIZE - Len(Contents))
      BY <1>a, SizeAssumption DEF Smaller, Queue!Smaller
    <2>2. CASE Ring_Buffer_Get_Empty_Length = 0
      <3>1. n = 0
        BY <2>2, <1>a, SizeAssumption DEF Smaller
      <3>2. Contents' = Contents /\ reply' = Queue!NoBytes(n)
        BY <3>1, <2>2, <1>3, ContentsKept
        DEF Ring_Buffer_Write_Byte, indexVars, NoBytes, Queue!NoBytes
      <3>3. SubSeq(<<byte>>, 1, n) = << >>
        BY <3>1, SubSeqEmpty
      <3>4. Contents' = Contents \o SubSeq(<<byte>>, 1, n)
        BY <3>2, <3>3, <1>a, ConcatEmptySeq
      <3>5. QED
        BY <3>2, <3>4, <2>1 DEF Queue!Put
    <2>3. CASE Ring_Buffer_Get_Empty_Length # 0
      <3>1. n = 1 /\ 1 <= Ring_Buffer_Get_Empty_Length /\ 1 \in 0 .. SIZE
        BY <2>3, <1>a, SizeAssumption DEF Smaller
      <3>2. /\ pointer' = Stored(<<byte>>, 1) /\ AdvanceWrite(1)
            /\ UNCHANGED <<readMirror, readIndex>> /\ reply' = Queue!NoBytes(n)
        BY <3>1, <2>3, <1>3, StoredOneByte
        DEF Ring_Buffer_Write_Byte, NoBytes, Queue!NoBytes
      <3>3. Contents' = Contents \o SubSeq(<<byte>>, 1, 1)
        BY <3>1, <3>2, <1>b, WriteByteAppends
      <3>4. QED
        BY <3>1, <3>2, <3>3, <2>1 DEF Queue!Put
    <2>4. QED
      BY <2>2, <2>3
  <1>4. ASSUME NEW byte \in Byte, Ring_Buffer_Write_Byte_Force(byte)
        PROVE  Queue!PutForce(byte)
    <2>1. /\ pointer' = [pointer EXCEPT ![writeIndex] = byte] /\ AdvanceWrite(1)
          /\ reply' = Queue!NoBytes(1)
      BY <1>4 DEF Ring_Buffer_Write_Byte_Force, NoBytes, Queue!NoBytes
    <2>2. Ring_Buffer_Get_Status = "FULL" <=> len = SIZE
      BY SizeAssumption DEF Ring_Buffer_Get_Status, Ring_Buffer_Get_Length, IndexInv,
         TypeOK, MirrorOrder, Slots
    <2>3. CASE len = SIZE
      <3>1. Displace(1)
        BY <1>4, <2>2, <2>3 DEF Ring_Buffer_Write_Byte_Force
      <3>2. /\ pointer'[writeIndex] = byte
            /\ \A i \in Slots \ {writeIndex} : pointer'[i] = pointer[i]
        BY <2>1 DEF IndexInv, TypeOK
      <3>3. Contents' = Append(Tail(Contents), byte)
        BY <2>1, <2>3, <3>1, <3>2, <1>b, ForceShifts
      <3>4. QED
        BY <3>3, <2>1, <2>3, <1>a DEF Queue!PutForce
    <2>4. CASE len # SIZE
      <3>1. UNCHANGED <<readMirror, readIndex>>
        BY <1>4, <2>2, <2>4 DEF Ring_Buffer_Write_Byte_Force
      <3>2. 1 <= Ring_Buffer_Get_Empty_Length /\ 1 \in 0 .. SIZE
        BY <2>4, <1>a, SizeAssumption
      <3>3. pointer' = Stored(<<byte>>, 1)
        BY <2>1, StoredOneByte
      <3>4. Contents' = Append(Contents, byte)
        BY <3>1, <3>2, <3>3, <2>1, <1>b, WriteByteAppends
      <3>5. QED
        BY <3>4, <2>1, <2>4, <1>a DEF Queue!PutForce
    <2>5. QED
      BY <2>3, <2>4
  <1>5. ASSUME NEW length \in Nat, NEW n, n = Smaller(length, len),
               len = 0 => UNCHANGED indexVars, len # 0 => AdvanceRead(n),
               UNCHANGED <<pointer, writeMirror, writeIndex>>,
               reply' = Bytes(Fetched(n))
        PROVE  Queue!Get(length)
    <2>1. n \in 0 .. SIZE /\ n <= len /\ n = Queue!Smaller(length, Len(Contents))
      BY <1>5, <1>a, SizeAssumption DEF Smaller, Queue!Smaller
    <2>2. reply' = Queue!Bytes(SubSeq(Contents, 1, n))
      BY <1>5, <2>1, FetchedIsPrefix DEF Bytes, Queue!Bytes
    <2>3. Contents' = SubSeq(Contents, n + 1, Len(Contents))
      <3>1. CASE len = 0
        <4>1. Contents' = Contents
          BY <3>1, <1>5, ContentsKept
        <4>2. n = 0 /\ Len(Contents) = 0
          BY <3>1, <2>1, <1>a
        <4>3. Contents = << >> /\ SubSeq(Contents, n + 1, Len(Contents)) = << >>
          BY <4>2, <1>a, SubSeqEmpty
        <4>4. QED
          BY <4>1, <4>3
      <3>2. CASE len # 0
        BY <3>2, <1>5, <2>1, <1>b, ReadDrops
      <3>3. QED
        BY <3>1, <3>2
    <2>4. QED
      BY <2>1, <2>2, <2>3 DEF Queue!Get
  <1>6. ASSUME NEW length \in Lengths, Ring_Buffer_Read(length)
        PROVE  Queue!Get(length)
    <2>1. length \in Nat
      BY LengthAssumption
    <2>2. /\ len = 0 => UNCHANGED indexVars
          /\ len # 0 => AdvanceRead(Smaller(length, len))
          /\ UNCHANGED <<pointer, writeMirror, writeIndex>>
          /\ reply' = Bytes(Fetched(Smaller(length, len)))
      BY <1>6 DEF Ring_Buffer_Read, indexVars
    <2>3. QED
      BY <2>1, <2>2, <1>5
  <1>7. CASE Ring_Buffer_Read_Byte
    <2>1. Smaller(1, len) = IF len = 0 THEN 0 ELSE 1
      BY <1>a, SizeAssumption DEF Smaller
    <2>2. reply' = Bytes(Fetched(Smaller(1, len)))
      BY <1>7, <2>1, OneByteFetched DEF Ring_Buffer_Read_Byte
    <2>3. /\ len = 0 => UNCHANGED indexVars
          /\ len # 0 => AdvanceRead(Smaller(1, len))
          /\ UNCHANGED <<pointer, writeMirror, writeIndex>>
      BY <1>7, <2>1 DEF Ring_Buffer_Read_Byte, indexVars
    <2>4. Queue!Get(1)
      BY <2>2, <2>3, <1>5
    <2>5. QED
      BY <2>4 DEF Queue!Next
  <1>8. ASSUME NEW length \in Nat, reply' = Bytes(Fetched(Smaller(length, len))),
               UNCHANGED <<pointer, indexVars>>
        PROVE  Queue!Peek(length)
    <2> DEFINE n == Smaller(length, len)
    <2>1. n \in 0 .. SIZE /\ n <= len /\ n = Queue!Smaller(length, Len(Contents))
      BY <1>a, SizeAssumption DEF Smaller, Queue!Smaller
    <2>2. reply' = Queue!Bytes(SubSeq(Contents, 1, n))
      BY <1>8, <2>1, FetchedIsPrefix DEF Bytes, Queue!Bytes
    <2>3. QED
      BY <1>8, <2>1, <2>2, ContentsKept DEF Queue!Peek
  <1>9. ASSUME NEW length \in Lengths, Ring_Buffer_Peek(length)
        PROVE  Queue!Peek(length)
    BY <1>9, <1>8, LengthAssumption DEF Ring_Buffer_Peek
  <1>10. CASE Ring_Buffer_Peek_Byte
    <2>1. Smaller(1, len) = IF len = 0 THEN 0 ELSE 1
      BY <1>a, SizeAssumption DEF Smaller
    <2>2. reply' = Bytes(Fetched(Smaller(1, len)))
      BY <1>10, <2>1, OneByteFetched DEF Ring_Buffer_Peek_Byte
    <2>3. Queue!Peek(1)
      BY <1>10, <2>2, <1>8 DEF Ring_Buffer_Peek_Byte
    <2>4. QED
      BY <2>3 DEF Queue!Next
  <1>11. ASSUME NEW data \in Blocks, Ring_Buffer_Write_Force(data)
         PROVE  Queue!PutForceBlock(data)
    <2> DEFINE n    == Smaller(Len(data), SIZE)
               kept == SubSeq(data, Len(data) - n + 1, Len(data))
               over == Len(Contents) + n - SIZE
    <2>1. /\ n \in 0 .. SIZE /\ kept \in Seq(Byte) /\ Len(kept) = n
          /\ n = Queue!Smaller(Len(data), SIZE)
      BY BlockAssumption, SizeAssumption DEF Smaller, Queue!Smaller
    <2>2. /\ pointer' = Stored(kept, n) /\ AdvanceWrite(n)
          /\ reply' = Queue!NoBytes(n)
          /\ n > Ring_Buffer_Get_Empty_Length => Displace(n)
          /\ n <= Ring_Buffer_Get_Empty_Length => UNCHANGED <<readMirror, readIndex>>
      BY <1>11, <1>a, <2>1, SizeAssumption
      DEF Ring_Buffer_Write_Force, NoBytes, Queue!NoBytes
    <2> HIDE DEF n, kept
    <2>3. \/ over <= 0 /\ Contents' = Contents \o kept
          \/ over > 0 /\ Contents' = SubSeq(Contents, over + 1, Len(Contents)) \o kept
          \/ over > 0 /\ Contents' = << >>
      <3>1. CASE n <= Ring_Buffer_Get_Empty_Length
        <4>1. over <= 0
          <5>1. n <= SIZE - Len(Contents) /\ Len(Contents) \in Int /\ n \in Int /\ SIZE \in Int
            BY <3>1, <1>a, <2>1, SizeAssumption DEF Ring_Buffer_Get_Empty_Length
          <5>2. QED
            BY <5>1
        <4>2. Contents' = Contents \o SubSeq(kept, 1, n)
          <5>1. n <= Len(kept)
            BY <2>1, SizeAssumption
          <5>2. pointer' = Stored(kept, n) /\ AdvanceWrite(n) /\ UNCHANGED <<readMirror, readIndex>>
            BY <3>1, <2>2
          <5>3. QED
            BY <3>1, <2>1, <5>1, <5>2, <1>b, WriteAppends
        <4>3. SubSeq(kept, 1, n) = kept
          BY <2>1, SubSeqFull
        <4>4. QED
          BY <4>1, <4>2, <4>3
      <3>2. CASE n > Ring_Buffer_Get_Empty_Length /\ readMirror # writeMirror
        <4>1. over > 0
          BY <3>2, <1>a, <2>1, SizeAssumption
        <4>2. Contents' = SubSeq(Contents, len + n - SIZE + 1, Len(Contents)) \o kept
          BY <3>2, <2>1, <2>2, <1>b, ForceBlockShifts
        <4>3. QED
          BY <4>1, <4>2, <1>a
      <3>3. CASE n > Ring_Buffer_Get_Empty_Length /\ readMirror = writeMirror
        <4>1. over > 0
          BY <3>3, <1>a, <2>1, SizeAssumption
        <4>2. Contents' = << >>
          BY <3>3, <2>1, <2>2, <1>b, ForceBlockEmpties
        <4>3. QED
          BY <4>1, <4>2
      <3>4. n <= Ring_Buffer_Get_Empty_Length \/ n > Ring_Buffer_Get_Empty_Length
        BY <1>a, <2>1, SizeAssumption
      <3>5. QED
        BY <3>1, <3>2, <3>3, <3>4
    <2>4. QED
      BY <2>1, <2>2, <2>3 DEF Queue!PutForceBlock, n, kept
  <1>12. CASE UNCHANGED vars
    BY <1>12, ContentsKept DEF vars
  <1>13. QED
    BY <1>1, <1>2, <1>3, <1>4, <1>6, <1>7, <1>9, <1>10, <1>11, <1>12
    DEF Next, Queue!Next

(* ring_buffer.c is a bounded byte queue: whatever the sequence of whole   *)
(* calls, no byte is lost, duplicated or reordered, and each call returns  *)
(* what the queue says, but for what PutForceBlock admits.                 *)
THEOREM QueueRefinement == Spec => ImplementsQueue
  <1>1. IndexInv /\ IndexInv' /\ [Next]_vars => [Queue!Next]_<<Contents, reply>>
    BY StepQueue
  <1>2. QED
    BY <1>1, IndicesInMemory, InitQueue, PTL DEF Spec, ImplementsQueue, Queue!Spec
================================================================================
