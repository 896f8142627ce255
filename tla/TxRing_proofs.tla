---------------------------- MODULE TxRing_proofs ----------------------------
(***************************************************************************)
(* usb_tx_rb under its three users, for every size of the ring, of a frame *)
(* and of a reply that CapacityAssumption allows, with and without the     *)
(* lock.  The argument is one inductive invariant, RingInv: where the      *)
(* indices stand for the number of bytes owed (IndexInv, Spans), what the  *)
(* memory holds (MemoryInv, Holds), what the main loop has in its locals   *)
(* (StageInv) and how much can be owed at each point (TrafficInv).  The    *)
(* last is what makes the room computed before the lock (ring_buffer.c:150)*)
(* good enough when it is used: an interrupt may have taken some of it     *)
(* since, never so much that the frame no longer fits.                     *)
(*                                                                         *)
(* An interrupt inside a call, where the lock would have held it off, sets *)
(* "raced" and ends the argument: TxRingRace.cfg shows why.  Types is what *)
(* holds even then.                                                        *)
(***************************************************************************)
EXTENDS TxRing, FiniteSetTheorems, SequenceTheorems, TLAPS

(* Where the main loop is in a write and in a read. *)
Writing == {"w_indices", "w_copy", "w_advance", "w_flip"}
Reading == {"r_indices", "r_copy", "r_advance", "r_flip"}

(* What holds of the variables whatever an interrupt has done. *)
Types ==
  /\ pc \in Steps /\ turn \in 0 .. TASKS
  /\ pc \in Writing => turn < TASKS
  /\ pc \in Reading => turn = TASKS
  /\ readMirror \in Mirrors /\ writeMirror \in Mirrors
  /\ readIndex \in 0 .. WORD - 1 /\ writeIndex \in 0 .. WORD - 1
  /\ size \in 0 .. WORD - 1 /\ length \in 0 .. SIZE
  /\ seq \in [frame : {0, 1}, reply : {0, 1}]
  /\ damage \subseteq Damage

Raced == "raced" \in damage

(* A place in the memory, passed its end at most once. *)
Wrapped(i) == IF i < SIZE THEN i ELSE i - SIZE

(* The indices and mirrors of a ring of n unread bytes. *)
Spans(n, rm, wm, ri, wi) ==
  /\ n \in 0 .. SIZE /\ ri \in 0 .. SIZE - 1
  /\ wi = Wrapped(ri + n)
  /\ rm = wm <=> ri + n < SIZE

(* The memory holds the bytes s from place at on. *)
Holds(memory, s, at) == \A k \in 1 .. Len(s) : s[k] = memory[Wrapped(at + k - 1)]

(* The bytes handed out that the read index has not passed yet; and the    *)
(* frame that is in the memory without being accepted.                     *)
Taken  == IF pc = "r_advance" THEN length ELSE 0
InHand == IF pc \in {"w_advance", "w_flip"} THEN Block("frame", seq.frame, FRAME) ELSE << >>

Byte == {"none", "frame", "reply"} \X Nat \X Nat

IndexInv == Spans(Taken + Len(owed) + Passed, ReadSide, WriteSide, readIndex, writeIndex)

MemoryInv ==
  /\ owed \in Seq(Byte)
  /\ Holds(pointer, owed \o InHand, Wrapped(readIndex + Taken))

(* What the main loop knows at each point. *)
StageInv ==
  /\ pc \in {"w_indices", "r_indices"} => mirrors = <<readMirror, writeMirror>>
  /\ pc = "w_copy" => size >= FRAME
  /\ pc = "w_advance" => size = SIZE - writeIndex
  /\ pc \in {"w_advance", "w_flip"} => length = FRAME
  /\ pc = "r_copy" => size \in 0 .. Len(owed)
                      /\ \A i \in size + 1 .. Len(owed) : IsReply(owed[i])
  /\ pc = "r_advance" => length \in 1 .. READMAX /\ size = SIZE - readIndex

(* At most OUTSTANDING replies and the frames of this turn are owed; once  *)
(* a read has taken its bytes, only replies.                               *)
TrafficInv ==
  /\ Replies(owed) <= OUTSTANDING * REPLY
  /\ IF pc \in {"r_advance", "r_flip"} THEN Len(owed) = Replies(owed)
                                       ELSE Len(owed) - Replies(owed) <= turn * FRAME

Unharmed == damage = {} /\ blk_overflow_cnt = FALSE

RingInv == IndexInv /\ MemoryInv /\ StageInv /\ TrafficInv /\ Unharmed
TxInv   == Types /\ (Raced \/ RingInv)

-------------------------------------------------------------------------------
LEMMA Sizes ==
  /\ SIZE \in Nat \ {0} /\ FRAME \in Nat \ {0} /\ REPLY \in Nat \ {0}
  /\ READMAX \in Nat \ {0} /\ TASKS \in Nat \ {0} /\ OUTSTANDING \in Nat \ {0}
  /\ FRAME < SIZE /\ REPLY < SIZE /\ READMAX < SIZE
  /\ WORD \in Nat \ {0} /\ WORD > 2 * SIZE
BY SizesAssumption

LEMMA WordRange == \A x \in Int : U(x) \in 0 .. WORD - 1
BY Sizes DEF U

LEMMA WordExact == \A x \in 0 .. WORD - 1 : U(x) = x
BY Sizes DEF U

LEMMA TypesInit == Init => Types
<1> SUFFICES ASSUME Init PROVE Types
  OBVIOUS
<1>1. /\ readMirror \in Mirrors /\ writeMirror \in Mirrors
      /\ pc \in Steps /\ pc \notin Writing /\ pc \notin Reading
      /\ damage \subseteq Damage
  BY DEF Init, Mirrors, Steps, Writing, Reading
<1>2. turn \in 0 .. TASKS /\ length \in 0 .. SIZE
  BY Sizes DEF Init
<1>3. readIndex \in 0 .. WORD - 1 /\ writeIndex \in 0 .. WORD - 1 /\ size \in 0 .. WORD - 1
  BY Sizes DEF Init
<1>4. seq \in [frame : {0, 1}, reply : {0, 1}]
  BY DEF Init
<1> QED BY <1>1, <1>2, <1>3, <1>4 DEF Types

LEMMA FlipKept == \A m \in Mirrors : Flip(m) \in Mirrors /\ Flip(m) # m
BY DEF Mirrors, Flip

LEMMA SpaceRange ==
  ASSUME NEW rm, NEW wm, NEW ri \in Int, NEW wi \in Int
  PROVE  /\ LengthOf(rm, wm, ri, wi) \in 0 .. WORD - 1
         /\ SpaceOf(rm, wm, ri, wi) \in 0 .. WORD - 1
<1>1. LengthOf(rm, wm, ri, wi) \in 0 .. WORD - 1
  BY Sizes, WordRange DEF LengthOf
<1>2. SIZE - LengthOf(rm, wm, ri, wi) \in Int
  BY <1>1, Sizes
<1> QED BY <1>1, <1>2, WordRange DEF SpaceOf

LEMMA TypesWritten ==
  ASSUME Types, pc \in Writing, NEW n, FrameWritten(n)
  PROVE  /\ pc' \in Steps /\ turn' \in 0 .. TASKS
         /\ pc' \notin Writing /\ pc' \notin Reading
         /\ seq' \in [frame : {0, 1}, reply : {0, 1}]
<1>1. turn \in 0 .. TASKS /\ turn < TASKS /\ turn' = turn + 1
  BY DEF Types, FrameWritten
<1>2. turn' \in 0 .. TASKS
  BY <1>1, Sizes
<1>3. seq' \in [frame : {0, 1}, reply : {0, 1}]
  BY DEF Types, FrameWritten
<1>4. pc' \in Steps /\ pc' \notin Writing /\ pc' \notin Reading
  BY DEF FrameWritten, Steps, Writing, Reading
<1> QED BY <1>2, <1>3, <1>4

LEMMA TypesStart ==
  ASSUME Types, NoFrame \/ WriteFrame \/ ReadOut
  PROVE  Types'
<1>1. CASE NoFrame
  <2>1. turn' \in 0 .. TASKS
    BY <1>1, Sizes DEF NoFrame, Types
  <2>2. pc' \in Steps /\ pc' \notin Writing /\ pc' \notin Reading
    BY <1>1 DEF NoFrame, Steps, Writing, Reading
  <2> QED BY <1>1, <2>1, <2>2 DEF NoFrame, Types, ring, locals, ghosts
<1>2. CASE WriteFrame
  <2>1. pc' \in Steps /\ turn' = turn /\ turn < TASKS /\ pc' \notin Reading
    BY <1>2 DEF WriteFrame, LoadMirrors, Steps, LockedSteps, Reading
  <2> QED BY <1>2, <2>1 DEF WriteFrame, LoadMirrors, Types, ring, ghosts
<1>3. CASE ReadOut
  <2>1. pc' \in Steps /\ turn' = turn /\ turn = TASKS /\ pc' \notin Writing
    BY <1>3 DEF ReadOut, LoadMirrors, Steps, LockedSteps, Writing
  <2> QED BY <1>3, <2>1 DEF ReadOut, LoadMirrors, Types, ring, ghosts
<1> QED BY <1>1, <1>2, <1>3

LEMMA TypesIndices ==
  ASSUME Types, WriteLoadIndices \/ ReadLoadIndices
  PROVE  Types'
<1>1. size' \in 0 .. WORD - 1
  BY SpaceRange DEF WriteLoadIndices, ReadLoadIndices, Types
<1>2. /\ pc' \in Steps
      /\ pc' \in Writing => pc \in Writing
      /\ pc' \in Reading => pc \in Reading
  BY DEF WriteLoadIndices, ReadLoadIndices, Steps, Writing, Reading
<1> QED BY <1>1, <1>2 DEF WriteLoadIndices, ReadLoadIndices, Types, ring, ghosts

LEMMA TypesWrite ==
  ASSUME Types, WriteCopy \/ WriteAdvance \/ WriteFlip
  PROVE  Types'
<1>1. CASE WriteCopy /\ size = 0
  <2>1. /\ FrameWritten(0) /\ pc \in Writing
        /\ UNCHANGED <<readMirror, readIndex, writeMirror, writeIndex, size, length, damage>>
    BY <1>1 DEF WriteCopy, Writing, ring, locals
  <2> QED BY <2>1, TypesWritten DEF Types
<1>2. CASE WriteCopy /\ size # 0
  <2>1. /\ length' = Smaller(FRAME, size) /\ size' = U(SIZE - writeIndex)
        /\ pc = "w_copy" /\ pc' = "w_advance" /\ turn' = turn /\ seq' = seq
        /\ readMirror' = readMirror /\ writeMirror' = writeMirror
        /\ readIndex' = readIndex /\ writeIndex' = writeIndex
        /\ damage' \subseteq damage \cup {"stray"}
    BY <1>2 DEF WriteCopy
  <2>2. length' \in 0 .. SIZE /\ size' \in 0 .. WORD - 1
    BY <2>1, Sizes, WordRange DEF Types, Smaller
  <2>3. pc' \in Steps /\ pc \in Writing /\ pc' \notin Reading /\ damage' \subseteq Damage
    BY <2>1 DEF Steps, LockedSteps, Writing, Reading, Types, Damage
  <2> QED BY <2>1, <2>2, <2>3 DEF Types
<1>3. CASE WriteAdvance /\ size > length
  <2>1. /\ FrameWritten(length) /\ pc \in Writing /\ writeIndex' = U(writeIndex + length)
        /\ UNCHANGED <<readMirror, readIndex, writeMirror, size, length, damage>>
    BY <1>3 DEF WriteAdvance, Writing, locals, Types
  <2>2. writeIndex' \in 0 .. WORD - 1
    BY <2>1, Sizes, WordRange DEF Types
  <2> QED BY <2>1, <2>2, TypesWritten DEF Types
<1>4. CASE WriteAdvance /\ size <= length
  <2>1. /\ writeIndex' = length - size /\ pc = "w_advance" /\ pc' = "w_flip"
        /\ UNCHANGED <<turn, seq, readMirror, readIndex, writeMirror, size, length, damage>>
    BY <1>4 DEF WriteAdvance, locals, Types
  <2>2. writeIndex' \in 0 .. WORD - 1
    BY <1>4, <2>1, Sizes DEF Types
  <2>3. pc' \in Steps /\ pc \in Writing /\ pc' \notin Reading
    BY <2>1 DEF Steps, LockedSteps, Writing, Reading
  <2> QED BY <2>1, <2>2, <2>3 DEF Types
<1>5. CASE WriteFlip
  <2>1. /\ FrameWritten(length) /\ pc \in Writing /\ writeMirror' = Flip(writeMirror)
        /\ UNCHANGED <<readMirror, readIndex, writeIndex, size, length, damage>>
    BY <1>5 DEF WriteFlip, Writing, locals
  <2> QED BY <2>1, TypesWritten, FlipKept DEF Types
<1> QED BY <1>1, <1>2, <1>3, <1>4, <1>5 DEF WriteAdvance, Types

LEMMA TypesRead ==
  ASSUME Types, ReadCopy \/ ReadAdvance \/ ReadFlip
  PROVE  Types'
<1> DEFINE Home == pc' = "loop" /\ turn' = 0
<1>1. Home => /\ pc' \in Steps /\ turn' \in 0 .. TASKS
              /\ pc' \notin Writing /\ pc' \notin Reading
  BY Sizes DEF Steps, Writing, Reading
<1>2. CASE ReadCopy /\ size = 0
  <2>1. /\ Home
        /\ UNCHANGED <<readMirror, readIndex, writeMirror, writeIndex, size, length, seq, damage>>
    BY <1>2 DEF ReadCopy, ring, ghosts
  <2> QED BY <1>1, <2>1 DEF Types
<1>3. CASE ReadCopy /\ size # 0
  <2>1. /\ length' = ReadCount(size) /\ size' = U(SIZE - readIndex)
        /\ pc = "r_copy" /\ pc' = "r_advance" /\ turn' = turn /\ seq' = seq
        /\ readMirror' = readMirror /\ writeMirror' = writeMirror
        /\ readIndex' = readIndex /\ writeIndex' = writeIndex
        /\ damage' \subseteq damage \cup {"stray", "garbled"}
    BY <1>3 DEF ReadCopy, ring
  <2>2. length' \in 0 .. SIZE /\ size' \in 0 .. WORD - 1
    BY <2>1, Sizes, WordRange DEF Types, Smaller, ReadCount
  <2>3. pc' \in Steps /\ pc \in Reading /\ pc' \notin Writing /\ damage' \subseteq Damage
    BY <2>1 DEF Steps, LockedSteps, Writing, Reading, Types, Damage
  <2> QED BY <2>1, <2>2, <2>3 DEF Types
<1>4. CASE ReadAdvance /\ size > length
  <2>1. /\ Home /\ readIndex' = U(readIndex + length)
        /\ UNCHANGED <<readMirror, writeIndex, writeMirror, size, length, seq, damage>>
    BY <1>4 DEF ReadAdvance, locals, ghosts, Types
  <2>2. readIndex' \in 0 .. WORD - 1
    BY <2>1, Sizes, WordRange DEF Types
  <2> QED BY <1>1, <2>1, <2>2 DEF Types
<1>5. CASE ReadAdvance /\ size <= length
  <2>1. /\ readIndex' = length - size /\ pc = "r_advance" /\ pc' = "r_flip"
        /\ UNCHANGED <<turn, seq, readMirror, writeIndex, writeMirror, size, length, damage>>
    BY <1>5 DEF ReadAdvance, locals, ghosts, Types
  <2>2. readIndex' \in 0 .. WORD - 1
    BY <1>5, <2>1, Sizes DEF Types
  <2>3. pc' \in Steps /\ pc \in Reading /\ pc' \notin Writing
    BY <2>1 DEF Steps, LockedSteps, Writing, Reading
  <2> QED BY <2>1, <2>2, <2>3 DEF Types
<1>6. CASE ReadFlip
  <2>1. /\ Home /\ readMirror' = Flip(readMirror)
        /\ UNCHANGED <<readIndex, writeIndex, writeMirror, size, length, seq, damage>>
    BY <1>6 DEF ReadFlip, locals, ghosts
  <2> QED BY <1>1, <2>1, FlipKept DEF Types
<1> QED BY <1>2, <1>3, <1>4, <1>5, <1>6 DEF ReadAdvance, Types

LEMMA TypesReply ==
  ASSUME Types, BulkOutReply
  PROVE  Types'
<1> DEFINE space    == SpaceOf(readMirror, writeMirror, readIndex, writeIndex)
           n        == Smaller(REPLY, space)
           remained == U(SIZE - writeIndex)
<1>1. space \in 0 .. WORD - 1 /\ remained \in 0 .. WORD - 1
  BY SpaceRange, WordRange, Sizes DEF Types
<1>2. n \in 0 .. SIZE
  BY <1>1, Sizes DEF Smaller
<1>3. \/ writeIndex' = writeIndex /\ writeMirror' = writeMirror
      \/ writeIndex' = U(writeIndex + n) /\ writeMirror' = writeMirror
      \/ writeIndex' = n - remained /\ remained <= n /\ writeMirror' = Flip(writeMirror)
  BY DEF BulkOutReply
<1> HIDE DEF space, n, remained
<1>4. writeMirror' \in Mirrors
  BY <1>3, FlipKept DEF Types
<1>5. writeIndex' \in 0 .. WORD - 1
  <2>1. writeIndex \in 0 .. WORD - 1 /\ writeIndex + n \in Int
    BY <1>2 DEF Types
  <2>2. U(writeIndex + n) \in 0 .. WORD - 1
    BY <2>1, WordRange
  <2>3. n - remained \in Int /\ (remained <= n => n - remained \in 0 .. WORD - 1)
    <3>1. n \in Nat /\ WORD \in Nat /\ n < WORD /\ remained \in Nat
      BY <1>1, <1>2, Sizes
    <3> QED BY <3>1
  <2>4. CASE writeIndex' = writeIndex
    BY <2>1, <2>4
  <2>5. CASE writeIndex' = U(writeIndex + n)
    BY <2>2, <2>5
  <2>6. CASE writeIndex' = n - remained /\ remained <= n
    BY <2>3, <2>6
  <2> QED BY <1>3, <2>4, <2>5, <2>6
<1>6. damage' \subseteq Damage
  <2>1. damage' \subseteq damage \cup {"raced", "cut", "stray"}
    BY DEF BulkOutReply
  <2> QED BY <2>1 DEF Types, Damage
<1>7. seq' \in [frame : {0, 1}, reply : {0, 1}]
  <2>1. seq' = [seq EXCEPT !.reply = 1 - seq.reply]
    BY DEF BulkOutReply
  <2> QED BY <2>1 DEF Types
<1>8. /\ readIndex' = readIndex /\ readMirror' = readMirror /\ pc' = pc /\ turn' = turn
      /\ size' = size /\ length' = length
  BY DEF BulkOutReply, locals
<1> QED BY <1>4, <1>5, <1>6, <1>7, <1>8 DEF Types

LEMMA TypesNext == Types /\ [Next]_vars => Types'
<1> SUFFICES ASSUME Types, [Next]_vars PROVE Types'
  OBVIOUS
<1>1. CASE Main
  BY <1>1, TypesStart, TypesIndices, TypesWrite, TypesRead DEF Main
<1>2. CASE BulkOutReply
  BY <1>2, TypesReply
<1>3. CASE UNCHANGED vars
  BY <1>3 DEF vars, ring, locals, ghosts, Types
<1> QED BY <1>1, <1>2, <1>3 DEF Next, Undefined

-------------------------------------------------------------------------------
LEMMA FirstPlaces ==
  ASSUME NEW n \in Nat
  PROVE  IsFiniteSet(1 .. n) /\ Cardinality(1 .. n) = n
<1>1. IsFiniteSet(1 .. n) /\ Cardinality(1 .. n) = IF 1 > n THEN 0 ELSE n - 1 + 1
  BY FS_Interval
<1> QED BY <1>1

LEMMA RepliesBound ==
  ASSUME NEW s \in Seq(Byte)
  PROVE  Replies(s) \in 0 .. Len(s)
<1> DEFINE here == {i \in 1 .. Len(s) : IsReply(s[i])}
<1>1. Len(s) \in Nat
  OBVIOUS
<1>2. IsFiniteSet(1 .. Len(s)) /\ Cardinality(1 .. Len(s)) = Len(s)
  BY <1>1, FirstPlaces
<1>3. IsFiniteSet(here) /\ Cardinality(here) <= Len(s)
  BY <1>2, FS_Subset
<1>4. Cardinality(here) \in Nat
  BY <1>3, FS_CardinalityType
<1> QED BY <1>1, <1>3, <1>4 DEF Replies

LEMMA RepliesAll ==
  ASSUME NEW s \in Seq(Byte), \A i \in 1 .. Len(s) : IsReply(s[i])
  PROVE  Replies(s) = Len(s)
<1>1. {i \in 1 .. Len(s) : IsReply(s[i])} = 1 .. Len(s)
  OBVIOUS
<1>2. Len(s) \in Nat
  OBVIOUS
<1>3. Cardinality(1 .. Len(s)) = Len(s)
  BY <1>2, FirstPlaces
<1> QED BY <1>1, <1>3 DEF Replies

LEMMA Blocks ==
  ASSUME NEW kind \in {"frame", "reply"}, NEW n \in Nat, NEW len \in Nat
  PROVE  /\ Block(kind, n, len) \in Seq(Byte)
         /\ Len(Block(kind, n, len)) = len
         /\ \A i \in 1 .. len : Block(kind, n, len)[i] = <<kind, n, i>>
<1>1. \A i \in 1 .. len : <<kind, n, i>> \in Byte
  BY DEF Byte
<1> QED BY <1>1 DEF Block

(* What appending one sequence to another gives, place by place. *)
LEMMA Joined ==
  ASSUME NEW s \in Seq(Byte), NEW t \in Seq(Byte)
  PROVE  /\ s \o t \in Seq(Byte)
         /\ Len(s \o t) = Len(s) + Len(t)
         /\ \A i \in 1 .. Len(s) : (s \o t)[i] = s[i]
         /\ \A i \in 1 .. Len(t) : (s \o t)[Len(s) + i] = t[i]
         /\ \A i \in Len(s) + 1 .. Len(s) + Len(t) : (s \o t)[i] = t[i - Len(s)]
BY ConcatProperties

LEMMA RepliesFrame ==
  ASSUME NEW s \in Seq(Byte), NEW n \in Nat, NEW len \in Nat
  PROVE  Replies(s \o Block("frame", n, len)) = Replies(s)
<1> DEFINE b == Block("frame", n, len)
           t == s \o b
<1>0. b \in Seq(Byte) /\ Len(b) = len /\ \A i \in 1 .. len : b[i] = <<"frame", n, i>>
  BY Blocks
<1> HIDE DEF b
<1>1. b \in Seq(Byte) /\ Len(b) = len /\ \A i \in 1 .. len : ~ IsReply(b[i])
  BY <1>0 DEF IsReply
<1>2. /\ Len(t) = Len(s) + len
      /\ \A i \in 1 .. Len(s) : t[i] = s[i]
      /\ \A i \in Len(s) + 1 .. Len(s) + len : t[i] = b[i - Len(s)]
  BY <1>1, Joined
<1> HIDE DEF t
<1>3. \A i \in Len(s) + 1 .. Len(s) + len : ~ IsReply(t[i])
  BY <1>1, <1>2
<1>4. {i \in 1 .. Len(t) : IsReply(t[i])} = {i \in 1 .. Len(s) : IsReply(s[i])}
  BY <1>1, <1>2, <1>3
<1>5. Replies(t) = Replies(s)
  BY <1>4 DEF Replies
<1> QED BY <1>5 DEF t, b

LEMMA RepliesReply ==
  ASSUME NEW s \in Seq(Byte), NEW n \in Nat, NEW len \in Nat
  PROVE  Replies(s \o Block("reply", n, len)) = Replies(s) + len
<1> DEFINE b    == Block("reply", n, len)
           t    == s \o b
           here == {i \in 1 .. Len(s) : IsReply(s[i])}
           new  == Len(s) + 1 .. Len(s) + len
<1>0. b \in Seq(Byte) /\ Len(b) = len /\ \A i \in 1 .. len : b[i] = <<"reply", n, i>>
  BY Blocks
<1> HIDE DEF b
<1>1. b \in Seq(Byte) /\ Len(b) = len /\ \A i \in 1 .. len : IsReply(b[i])
  BY <1>0 DEF IsReply
<1>2. /\ Len(t) = Len(s) + len
      /\ \A i \in 1 .. Len(s) : t[i] = s[i]
      /\ \A i \in Len(s) + 1 .. Len(s) + len : t[i] = b[i - Len(s)]
  BY <1>1, Joined
<1> HIDE DEF t
<1>3. \A i \in new : IsReply(t[i])
  BY <1>1, <1>2
<1>4. {i \in 1 .. Len(t) : IsReply(t[i])} = here \cup new
  BY <1>1, <1>2, <1>3
<1>5. /\ IsFiniteSet(1 .. Len(s)) /\ IsFiniteSet(new)
      /\ Cardinality(new) = len
  BY FS_Interval
<1>6. IsFiniteSet(here)
  BY <1>5, FS_Subset
<1>7. here \cap new = {}
  OBVIOUS
<1>8. Cardinality(here) \in Nat /\ Cardinality(here \cap new) = 0
  BY <1>6, <1>7, FS_CardinalityType, FS_EmptySet
<1>9. Cardinality(here \cup new) = Cardinality(here) + Cardinality(new) - Cardinality(here \cap new)
  BY <1>5, <1>6, FS_Union
<1>10. Replies(t) = Cardinality(here \cup new) /\ Replies(s) = Cardinality(here)
  BY <1>4 DEF Replies
<1> HIDE DEF here, new
<1>11. Replies(t) = Replies(s) + len
  BY <1>5, <1>8, <1>9, <1>10
<1> QED BY <1>11 DEF t, b

LEMMA RepliesLeft ==
  ASSUME NEW s \in Seq(Byte), NEW k \in 0 .. Len(s),
         \A i \in k + 1 .. Len(s) : IsReply(s[i])
  PROVE  LET t == SubSeq(s, k + 1, Len(s))
         IN  /\ t \in Seq(Byte) /\ Len(t) = Len(s) - k
             /\ \A i \in 1 .. Len(t) : t[i] = s[k + i]
             /\ Replies(t) = Len(t) /\ Replies(t) <= Replies(s)
<1> DEFINE t    == SubSeq(s, k + 1, Len(s))
           left == k + 1 .. Len(s)
           here == {i \in 1 .. Len(s) : IsReply(s[i])}
<1>1. t \in Seq(Byte) /\ Len(t) = Len(s) - k /\ \A i \in 1 .. Len(t) : t[i] = s[k + i]
  OBVIOUS
<1>2. \A i \in 1 .. Len(t) : IsReply(t[i])
  BY <1>1
<1> HIDE DEF t
<1>3. Replies(t) = Len(t)
  BY <1>1, <1>2, RepliesAll
<1>4. IsFiniteSet(1 .. Len(s)) /\ Cardinality(left) = Len(s) - k
  BY FS_Interval
<1>5. IsFiniteSet(here)
  BY <1>4, FS_Subset
<1>6. left \subseteq here
  OBVIOUS
<1>7. Cardinality(left) <= Cardinality(here)
  BY <1>5, <1>6, FS_Subset
<1>8. Replies(t) <= Replies(s)
  BY <1>1, <1>3, <1>4, <1>7 DEF Replies
<1> QED BY <1>1, <1>3, <1>8 DEF t

-------------------------------------------------------------------------------
(* The ring's own computations, where the indices span n bytes. *)
LEMMA SpanLength ==
  ASSUME NEW n, NEW rm, NEW wm, NEW ri, NEW wi, Spans(n, rm, wm, ri, wi)
  PROVE  LengthOf(rm, wm, ri, wi) = n /\ SpaceOf(rm, wm, ri, wi) = SIZE - n
<1>1. n \in 0 .. SIZE /\ ri \in 0 .. SIZE - 1 /\ wi \in 0 .. SIZE - 1
  BY Sizes DEF Spans, Wrapped
<1>2. rm = wm => wi - ri = n
  BY <1>1, Sizes DEF Spans, Wrapped
<1>3. rm # wm => SIZE - (ri - wi) = n
  BY <1>1, Sizes DEF Spans, Wrapped
<1>4. LengthOf(rm, wm, ri, wi) = U(n)
  BY <1>2, <1>3 DEF LengthOf
<1>5. n \in 0 .. WORD - 1 /\ SIZE - n \in 0 .. WORD - 1
  BY <1>1, Sizes
<1>6. LengthOf(rm, wm, ri, wi) = n
  BY <1>4, <1>5, WordExact
<1>7. SpaceOf(rm, wm, ri, wi) = SIZE - n
  BY <1>5, <1>6, WordExact DEF SpaceOf
<1> QED BY <1>6, <1>7

(* The write index moves on by k bytes, within the memory or past its end, *)
(* and so does the read index.                                             *)
LEMMA SpanWritten ==
  ASSUME NEW n, NEW rm \in Mirrors, NEW wm \in Mirrors, NEW ri, NEW wi,
         Spans(n, rm, wm, ri, wi), NEW k \in Nat, n + k <= SIZE
  PROVE  /\ SIZE - wi > k => Spans(n + k, rm, wm, ri, wi + k)
         /\ SIZE - wi <= k => Spans(n + k, rm, Flip(wm), ri, k - (SIZE - wi))
<1>1. n \in 0 .. SIZE /\ ri \in 0 .. SIZE - 1 /\ wi \in 0 .. SIZE - 1
  BY Sizes DEF Spans, Wrapped
<1>2. Flip(wm) = rm <=> wm # rm
  BY DEF Mirrors, Flip
<1>3. SIZE - wi > k => Spans(n + k, rm, wm, ri, wi + k)
  BY <1>1, Sizes DEF Spans, Wrapped
<1>4. ASSUME SIZE - wi <= k
      PROVE  /\ rm = wm /\ ri + n < SIZE /\ ri + n + k >= SIZE
             /\ k - (SIZE - wi) = Wrapped(ri + (n + k))
  BY <1>1, <1>4, Sizes DEF Spans, Wrapped
<1>5. SIZE - wi <= k => Spans(n + k, rm, Flip(wm), ri, k - (SIZE - wi))
  BY <1>1, <1>2, <1>4, Sizes DEF Spans
<1> QED BY <1>3, <1>5

LEMMA SpanRead ==
  ASSUME NEW n, NEW rm \in Mirrors, NEW wm \in Mirrors, NEW ri, NEW wi,
         Spans(n, rm, wm, ri, wi), NEW k \in 0 .. n
  PROVE  /\ SIZE - ri > k => Spans(n - k, rm, wm, ri + k, wi)
         /\ SIZE - ri <= k => Spans(n - k, Flip(rm), wm, k - (SIZE - ri), wi)
<1>1. n \in 0 .. SIZE /\ ri \in 0 .. SIZE - 1 /\ wi \in 0 .. SIZE - 1
  BY Sizes DEF Spans, Wrapped
<1>2. Flip(rm) = wm <=> rm # wm
  BY DEF Mirrors, Flip
<1>3. SIZE - ri > k => Spans(n - k, rm, wm, ri + k, wi)
  BY <1>1, Sizes DEF Spans, Wrapped
<1>4. ASSUME SIZE - ri <= k
      PROVE  /\ rm # wm /\ ri + n >= SIZE
             /\ k - (SIZE - ri) \in 0 .. SIZE - 1
             /\ wi = Wrapped((k - (SIZE - ri)) + (n - k))
             /\ (k - (SIZE - ri)) + (n - k) < SIZE
  BY <1>1, <1>4, Sizes DEF Spans, Wrapped
<1>5. SIZE - ri <= k => Spans(n - k, Flip(rm), wm, k - (SIZE - ri), wi)
  BY <1>1, <1>2, <1>4, Sizes DEF Spans
<1> QED BY <1>3, <1>5

(* Copying a block to the write index keeps what is unread and puts the    *)
(* block behind it.                                                        *)
LEMMA CopyHolds ==
  ASSUME NEW s \in Seq(Byte), NEW b \in Seq(Byte), NEW rm, NEW wm, NEW ri, NEW wi,
         Spans(Len(s), rm, wm, ri, wi), Len(s) + Len(b) <= SIZE,
         Holds(pointer, s, ri)
  PROVE  Holds(CopyIn(b, wi, SIZE - wi), s \o b, ri)
<1> DEFINE n == Len(s)
           k == Len(b)
           m == CopyIn(b, wi, SIZE - wi)
           at(j) == Wrapped(ri + j - 1)
<1>1. /\ n \in 0 .. SIZE /\ k \in 0 .. SIZE /\ n + k <= SIZE
      /\ ri \in 0 .. SIZE - 1 /\ wi \in 0 .. SIZE - 1 /\ wi = Wrapped(ri + n)
  BY Sizes DEF Spans, Wrapped
<1>2. \A i \in 0 .. SIZE - 1 :
        m[i] = IF wi <= i /\ i < wi + Smaller(k, SIZE - wi) THEN b[i - wi + 1]
               ELSE IF i + (SIZE - wi) < k THEN b[i + (SIZE - wi) + 1]
               ELSE pointer[i]
  BY DEF CopyIn
<1>3. /\ Len(s \o b) = n + k
      /\ \A i \in 1 .. n : (s \o b)[i] = s[i]
      /\ \A i \in n + 1 .. n + k : (s \o b)[i] = b[i - n]
  BY Joined
<1> HIDE DEF n, k, m
<1>4. \A j \in 1 .. n : /\ at(j) \in 0 .. SIZE - 1
                        /\ ~ (wi <= at(j) /\ at(j) < wi + Smaller(k, SIZE - wi))
                        /\ ~ (at(j) + (SIZE - wi) < k)
  BY <1>1, Sizes DEF Wrapped, Smaller
<1>5. \A j \in 1 .. n : m[at(j)] = pointer[at(j)]
  BY <1>2, <1>4
<1>6. \A j \in 1 .. n : s[j] = pointer[at(j)]
  BY DEF Holds, n
<1>7. \A j \in n + 1 .. n + k :
        /\ at(j) \in 0 .. SIZE - 1
        /\ \/ wi <= at(j) /\ at(j) < wi + Smaller(k, SIZE - wi) /\ at(j) - wi + 1 = j - n
           \/ /\ ~ (wi <= at(j) /\ at(j) < wi + Smaller(k, SIZE - wi))
              /\ at(j) + (SIZE - wi) < k /\ at(j) + (SIZE - wi) + 1 = j - n
  BY <1>1, Sizes DEF Wrapped, Smaller
<1>8. \A j \in n + 1 .. n + k : m[at(j)] = b[j - n]
  BY <1>2, <1>7
<1>9. \A j \in 1 .. n + k : j \in 1 .. n \/ j \in n + 1 .. n + k
  BY <1>1
<1>10. \A j \in 1 .. n + k : (s \o b)[j] = m[at(j)]
  BY <1>3, <1>5, <1>6, <1>8, <1>9
<1> QED BY <1>3, <1>10 DEF Holds, m

(* Nor does a block that there is room for pass the end of the memory      *)
(* after its second copy.                                                  *)
LEMMA NotStray ==
  ASSUME NEW at \in 0 .. SIZE - 1, NEW k \in 0 .. SIZE
  PROVE  ~ Stray(at, k, SIZE - at)
BY Sizes DEF Stray, Smaller

LEMMA Remainder ==
  ASSUME NEW x \in 0 .. SIZE - 1, NEW y \in 0 .. SIZE
  PROVE  (x + y) % SIZE = Wrapped(x + y)
<1>1. SIZE \in Nat \ {0} /\ x + y \in 0 .. (2 * SIZE) - 1
  BY Sizes
<1>2. CASE x + y < SIZE
  BY <1>1, <1>2 DEF Wrapped
<1>3. CASE x + y >= SIZE
  <2>1. x + y - SIZE \in 0 .. SIZE - 1 /\ x + y = (x + y - SIZE) + SIZE
    BY <1>1, <1>3
  <2>2. (x + y) % SIZE = (x + y - SIZE) % SIZE
    BY <1>1, <2>1
  <2>3. (x + y - SIZE) % SIZE = x + y - SIZE
    BY <1>1, <2>1
  <2> QED BY <1>1, <1>3, <2>2, <2>3 DEF Wrapped
<1> QED BY <1>1, <1>2, <1>3

(* A read of the first n bytes held gives these bytes. *)
LEMMA CopyOutHeld ==
  ASSUME NEW s \in Seq(Byte), NEW ri \in 0 .. SIZE - 1, Len(s) <= SIZE,
         Holds(pointer, s, ri), NEW n \in 0 .. Len(s)
  PROVE  CopyOut(ri, n) = SubSeq(s, 1, n)
<1>1. \A k \in 1 .. n : (ri + k - 1) % SIZE = Wrapped(ri + k - 1)
  <2> SUFFICES ASSUME NEW k \in 1 .. n PROVE (ri + k - 1) % SIZE = Wrapped(ri + k - 1)
    OBVIOUS
  <2>1. k - 1 \in 0 .. SIZE /\ ri + k - 1 = ri + (k - 1)
    BY Sizes
  <2>2. (ri + (k - 1)) % SIZE = Wrapped(ri + (k - 1))
    BY <2>1, Remainder
  <2> QED BY <2>1, <2>2
<1>2. \A k \in 1 .. n : pointer[(ri + k - 1) % SIZE] = s[k]
  BY <1>1 DEF Holds
<1>3. CopyOut(ri, n) = [k \in 1 .. n |-> s[k]]
  BY <1>2 DEF CopyOut
<1>4. SubSeq(s, 1, n) = [k \in 1 .. n |-> s[k]]
  OBVIOUS
<1> QED BY <1>3, <1>4

-------------------------------------------------------------------------------
(* Between two calls, and while a call has only looked, the invariant says *)
(* what one expects.                                                       *)
Settled ==
  /\ owed \in Seq(Byte)
  /\ Spans(Len(owed), readMirror, writeMirror, readIndex, writeIndex)
  /\ Holds(pointer, owed, readIndex)

LEMMA WrappedInside == \A i \in 0 .. SIZE - 1 : Wrapped(i + 0) = i
BY Sizes DEF Wrapped

LEMMA SettledIs ==
  ASSUME pc \notin MidUpdate, IndexInv, MemoryInv
  PROVE  Settled
<1>1. /\ Taken = 0 /\ Passed = 0 /\ InHand = << >>
      /\ ReadSide = readMirror /\ WriteSide = writeMirror
  BY DEF MidUpdate, LockedSteps, Taken, Passed, InHand, ReadSide, WriteSide
<1>2. owed \in Seq(Byte)
  BY DEF MemoryInv
<1>3. Len(owed) \in Nat /\ Taken + Len(owed) + Passed = Len(owed) /\ owed \o InHand = owed
  BY <1>1, <1>2
<1>4. Spans(Len(owed), readMirror, writeMirror, readIndex, writeIndex)
  BY <1>1, <1>3 DEF IndexInv
<1>5. readIndex \in 0 .. SIZE - 1
  BY <1>4 DEF Spans
<1>6. Wrapped(readIndex + 0) = readIndex
  BY <1>5, WrappedInside
<1>7. Holds(pointer, owed, readIndex)
  BY <1>1, <1>3, <1>6 DEF MemoryInv
<1> QED BY <1>2, <1>4, <1>7 DEF Settled

LEMMA SettledGives ==
  ASSUME pc \notin MidUpdate, Settled
  PROVE  IndexInv /\ MemoryInv
<1>1. /\ Taken = 0 /\ Passed = 0 /\ InHand = << >>
      /\ ReadSide = readMirror /\ WriteSide = writeMirror
  BY DEF MidUpdate, LockedSteps, Taken, Passed, InHand, ReadSide, WriteSide
<1>2. owed \in Seq(Byte)
  BY DEF Settled
<1>3. /\ Len(owed) \in Nat /\ Taken + Len(owed) + Passed = Len(owed)
      /\ owed \o InHand = owed
  BY <1>1, <1>2
<1>4. readIndex \in 0 .. SIZE - 1
  BY DEF Spans, Settled
<1>5. Wrapped(readIndex + 0) = readIndex
  BY <1>4, WrappedInside
<1>6. IndexInv
  BY <1>1, <1>3 DEF IndexInv, Settled
<1>7. MemoryInv
  BY <1>1, <1>2, <1>3, <1>5 DEF MemoryInv, Settled
<1> QED BY <1>6, <1>7

LEMMA SettledAfter ==
  ASSUME pc' \notin MidUpdate, Settled'
  PROVE  IndexInv' /\ MemoryInv'
<1>1. /\ Taken' = 0 /\ Passed' = 0 /\ InHand' = << >>
      /\ ReadSide' = readMirror' /\ WriteSide' = writeMirror'
  BY DEF MidUpdate, LockedSteps, Taken, Passed, InHand, ReadSide, WriteSide
<1>2. owed' \in Seq(Byte)
  BY DEF Settled
<1>3. /\ Len(owed') \in Nat /\ Taken' + Len(owed') + Passed' = Len(owed')
      /\ owed' \o InHand' = owed'
  BY <1>1, <1>2
<1>4. readIndex' \in 0 .. SIZE - 1
  BY DEF Spans, Settled
<1>5. Wrapped(readIndex' + 0) = readIndex'
  BY <1>4, WrappedInside
<1>6. IndexInv'
  BY <1>1, <1>3 DEF IndexInv, Settled
<1>7. MemoryInv'
  BY <1>1, <1>2, <1>3, <1>5 DEF MemoryInv, Settled
<1> QED BY <1>6, <1>7

(* There is room for a frame as long as one is due in this turn, and for a *)
(* reply when the host may ask; a read takes everything.                   *)
LEMMA Budget ==
  ASSUME Types, TrafficInv, owed \in Seq(Byte), pc \notin {"r_advance", "r_flip"}
  PROVE  /\ Len(owed) <= READMAX
         /\ turn < TASKS => Len(owed) + FRAME <= READMAX
         /\ HostMayAsk => /\ Len(owed) + REPLY <= READMAX
                          /\ Replies(owed) + REPLY <= OUTSTANDING * REPLY
<1> DEFINE r == Replies(owed)
<1>1. /\ Len(owed) \in Nat /\ r \in Nat /\ turn \in Nat /\ turn <= TASKS
      /\ Len(owed) - r <= turn * FRAME /\ r <= OUTSTANDING * REPLY
      /\ HostMayAsk => r <= (OUTSTANDING - 1) * REPLY
  BY RepliesBound DEF TrafficInv, Types, HostMayAsk
<1> HIDE DEF r
<1>2. /\ turn * FRAME \in Nat /\ TASKS * FRAME \in Nat /\ OUTSTANDING * REPLY \in Nat
      /\ turn * FRAME <= TASKS * FRAME
      /\ turn < TASKS => turn * FRAME + FRAME <= TASKS * FRAME
      /\ (OUTSTANDING - 1) * REPLY = OUTSTANDING * REPLY - REPLY
  <2>1. turn * FRAME \in Nat /\ TASKS * FRAME \in Nat /\ OUTSTANDING * REPLY \in Nat
    BY <1>1, Sizes
  <2>2. (OUTSTANDING - 1) * REPLY = OUTSTANDING * REPLY - REPLY
    BY Sizes
  <2>3. TASKS * FRAME = turn * FRAME + (TASKS - turn) * FRAME
    BY <1>1, Sizes
  <2>4. (TASKS - turn) * FRAME >= 0
    BY <1>1, Sizes
  <2>5. turn < TASKS => (TASKS - turn) * FRAME >= FRAME
    <3> SUFFICES ASSUME turn < TASKS PROVE (TASKS - turn) * FRAME >= FRAME
      OBVIOUS
    <3>1. TASKS - turn - 1 \in Nat /\ FRAME \in Nat
      BY <1>1, Sizes
    <3>2. (TASKS - turn - 1) * FRAME \in Nat
      BY <3>1
    <3>3. (TASKS - turn) * FRAME = (TASKS - turn - 1) * FRAME + FRAME
      BY <1>1, Sizes
    <3> QED BY <3>1, <3>2, <3>3
  <2>6. (TASKS - turn) * FRAME \in Int
    BY <1>1, Sizes
  <2> HIDE DEF r
  <2> QED BY <2>1, <2>2, <2>3, <2>4, <2>5, <2>6, Sizes
<1>3. TASKS * FRAME + OUTSTANDING * REPLY <= READMAX
  BY CapacityAssumption
<1>4. Len(owed) <= READMAX
  BY <1>1, <1>2, <1>3, Sizes
<1>5. turn < TASKS => Len(owed) + FRAME <= READMAX
  BY <1>1, <1>2, <1>3, Sizes
<1>6. HostMayAsk => Len(owed) + REPLY <= READMAX /\ r + REPLY <= OUTSTANDING * REPLY
  BY <1>1, <1>2, <1>3, Sizes
<1> QED BY <1>4, <1>5, <1>6 DEF r

LEMMA RingInit == Init => RingInv
<1> SUFFICES ASSUME Init PROVE RingInv
  OBVIOUS
<1>1. pc = "loop" /\ pc \notin MidUpdate /\ owed = << >> /\ Len(owed) = 0 /\ owed \in Seq(Byte)
  BY DEF Init, MidUpdate, LockedSteps
<1>2. Spans(Len(owed), readMirror, writeMirror, readIndex, writeIndex)
  BY <1>1, Sizes DEF Init, Spans, Wrapped
<1>3. Holds(pointer, owed, readIndex)
  BY <1>1 DEF Holds
<1>4. IndexInv /\ MemoryInv
  <2>1. Settled
    BY <1>1, <1>2, <1>3 DEF Settled
  <2> QED BY <1>1, <2>1, SettledGives
<1>5. StageInv
  BY <1>1 DEF StageInv
<1>6. Replies(owed) = 0
  <2>1. Replies(owed) \in 0 .. Len(owed)
    BY <1>1, RepliesBound
  <2> QED BY <1>1, <2>1
<1>7. TrafficInv
  <2>1. 0 <= OUTSTANDING * REPLY /\ 0 <= turn * FRAME
    BY Sizes DEF Init
  <2> QED BY <1>1, <1>6, <2>1 DEF TrafficInv
<1>8. Unharmed
  BY DEF Init, Unharmed
<1> QED BY <1>4, <1>5, <1>7, <1>8 DEF RingInv

LEMMA RingStart ==
  ASSUME Types, RingInv, NoFrame \/ WriteFrame \/ ReadOut
  PROVE  RingInv'
<1>1. /\ pc = "loop" /\ pc' \in {"loop", "w_indices", "r_indices"}
      /\ turn' = turn \/ turn' = turn + 1
      /\ pc' \in {"w_indices", "r_indices"} => mirrors' = <<readMirror, writeMirror>>
  BY DEF NoFrame, WriteFrame, ReadOut, LoadMirrors
<1>2. /\ pointer' = pointer /\ readMirror' = readMirror /\ readIndex' = readIndex
      /\ writeMirror' = writeMirror /\ writeIndex' = writeIndex /\ owed' = owed
      /\ damage' = damage /\ blk_overflow_cnt' = blk_overflow_cnt
  BY DEF NoFrame, WriteFrame, ReadOut, LoadMirrors, ring, ghosts
<1>3. pc \notin MidUpdate /\ pc' \notin MidUpdate
  BY <1>1 DEF MidUpdate, LockedSteps
<1>4. Settled
  BY <1>3, SettledIs DEF RingInv
<1>5. Settled'
  BY <1>2, <1>4 DEF Settled
<1>6. IndexInv' /\ MemoryInv'
  BY <1>3, <1>5, SettledAfter
<1>7. StageInv'
  BY <1>1, <1>2 DEF StageInv
<1>8. TrafficInv'
  <2>1. /\ Replies(owed)' = Replies(owed) /\ Len(owed)' = Len(owed)
        /\ pc \notin {"r_advance", "r_flip"} /\ pc' \notin {"r_advance", "r_flip"}
    BY <1>1, <1>2 DEF Replies
  <2>2. Replies(owed) \in Nat /\ Len(owed) \in Nat /\ turn \in Nat
    BY <1>4, RepliesBound DEF Settled, Types
  <2>3. turn' * FRAME >= turn * FRAME /\ turn' * FRAME \in Int /\ turn * FRAME \in Int
    <3>1. (turn + 1) * FRAME = turn * FRAME + FRAME /\ turn * FRAME \in Int
      BY <2>2, Sizes
    <3> QED BY <1>1, <3>1, Sizes
  <2>4. Len(owed) - Replies(owed) <= turn * FRAME /\ Replies(owed) <= OUTSTANDING * REPLY
    BY <2>1 DEF RingInv, TrafficInv
  <2>5. Len(owed) - Replies(owed) <= turn' * FRAME
    BY <2>2, <2>3, <2>4
  <2> QED BY <2>1, <2>4, <2>5 DEF TrafficInv
<1>9. Unharmed'
  BY <1>2 DEF RingInv, Unharmed
<1> QED BY <1>6, <1>7, <1>8, <1>9 DEF RingInv

LEMMA RingIndices ==
  ASSUME Types, RingInv, WriteLoadIndices \/ ReadLoadIndices
  PROVE  RingInv'
<1>1. /\ pc \in {"w_indices", "r_indices"} /\ pc' \in {"w_copy", "r_copy"}
      /\ pc = "w_indices" <=> pc' = "w_copy"
      /\ turn' = turn
  BY DEF WriteLoadIndices, ReadLoadIndices
<1>2. /\ pointer' = pointer /\ readMirror' = readMirror /\ readIndex' = readIndex
      /\ writeMirror' = writeMirror /\ writeIndex' = writeIndex /\ owed' = owed
      /\ damage' = damage /\ blk_overflow_cnt' = blk_overflow_cnt
  BY DEF WriteLoadIndices, ReadLoadIndices, ring, ghosts
<1>3. pc \notin MidUpdate /\ pc' \notin MidUpdate
  BY <1>1 DEF MidUpdate, LockedSteps
<1>4. Settled
  BY <1>3, SettledIs DEF RingInv
<1>5. Settled'
  BY <1>2, <1>4 DEF Settled
<1>6. IndexInv' /\ MemoryInv'
  BY <1>3, <1>5, SettledAfter
<1>7. StageInv'
  <2>1. mirrors[1] = readMirror /\ mirrors[2] = writeMirror
    BY <1>1 DEF RingInv, StageInv
  <2>2. /\ LengthOf(mirrors[1], mirrors[2], readIndex, writeIndex) = Len(owed)
        /\ SpaceOf(mirrors[1], mirrors[2], readIndex, writeIndex) = SIZE - Len(owed)
    BY <1>4, <2>1, SpanLength DEF Settled
  <2>3. Len(owed) \in Nat
    BY <1>4 DEF Settled
  <2>4. pc' = "r_copy" => size' = Len(owed)
    BY <1>1, <2>2 DEF WriteLoadIndices, ReadLoadIndices
  <2>5. pc' = "w_copy" => size' >= FRAME
    <3> SUFFICES ASSUME pc' = "w_copy" PROVE size' >= FRAME
      OBVIOUS
    <3>1. size' = SIZE - Len(owed) /\ turn < TASKS
      BY <1>1, <2>2 DEF WriteLoadIndices, ReadLoadIndices, Types, Writing
    <3>2. Len(owed) + FRAME <= READMAX
      BY <1>1, <1>4, <3>1, Budget DEF RingInv, Settled
    <3> QED BY <2>3, <3>1, <3>2, Sizes
  <2>6. pc' = "r_copy" => size' \in 0 .. Len(owed') /\ \A i \in size' + 1 .. Len(owed') : IsReply(owed'[i])
    BY <1>2, <2>3, <2>4
  <2> QED BY <1>1, <2>5, <2>6 DEF StageInv
<1>8. TrafficInv'
  BY <1>1, <1>2 DEF RingInv, TrafficInv, Replies
<1>9. Unharmed'
  BY <1>2 DEF RingInv, Unharmed
<1> QED BY <1>6, <1>7, <1>8, <1>9 DEF RingInv

-------------------------------------------------------------------------------
LEMMA RingWriteCopy ==
  ASSUME Types, RingInv, WriteCopy
  PROVE  RingInv'
<1> DEFINE block == Block("frame", seq.frame, FRAME)
<1>1. pc = "w_copy" /\ pc \notin MidUpdate /\ turn < TASKS
  BY DEF WriteCopy, MidUpdate, LockedSteps, Types, Writing
<1>2. Settled
  BY <1>1, SettledIs DEF RingInv
<1>3. size >= FRAME /\ size \in Nat /\ size # 0
  BY <1>1, Sizes DEF RingInv, StageInv, Types
<1>4. /\ length' = Smaller(FRAME, size) /\ size' = U(SIZE - writeIndex)
      /\ pointer' = CopyIn(Block("frame", seq.frame, length'), writeIndex, size')
      /\ damage' = damage \cup IF Stray(writeIndex, length', size') THEN {"stray"} ELSE {}
      /\ pc' = "w_advance"
  BY <1>3 DEF WriteCopy
<1>5. /\ readMirror' = readMirror /\ readIndex' = readIndex /\ writeMirror' = writeMirror
      /\ writeIndex' = writeIndex /\ turn' = turn /\ seq' = seq /\ owed' = owed
      /\ blk_overflow_cnt' = blk_overflow_cnt
  BY <1>3 DEF WriteCopy
<1>6. length' = FRAME
  BY <1>3, <1>4, Sizes DEF Smaller
<1>7. writeIndex \in 0 .. SIZE - 1 /\ readIndex \in 0 .. SIZE - 1
  BY <1>2, Sizes DEF Settled, Spans, Wrapped
<1>8. size' = SIZE - writeIndex
  BY <1>4, <1>7, WordExact, Sizes
<1>9. owed \in Seq(Byte) /\ Len(owed) \in Nat /\ Len(owed) + FRAME <= READMAX
  BY <1>1, <1>2, Budget DEF RingInv, Settled
<1>10. block \in Seq(Byte) /\ Len(block) = FRAME
  <2>1. seq.frame \in Nat
    BY DEF Types
  <2> QED BY <2>1, Blocks, Sizes
<1>11. pointer' = CopyIn(block, writeIndex, SIZE - writeIndex)
  BY <1>4, <1>6, <1>8
<1>12. InHand' = block /\ Taken' = 0 /\ Passed' = 0
  BY <1>4, <1>5 DEF InHand, Taken, Passed
<1> HIDE DEF block
<1>13. Len(owed) + Len(block) <= SIZE
  BY <1>9, <1>10, Sizes
<1>14. Holds(CopyIn(block, writeIndex, SIZE - writeIndex), owed \o block, readIndex)
  BY <1>2, <1>9, <1>10, <1>13, CopyHolds DEF Settled
<1>15. MemoryInv'
  <2>1. Wrapped(readIndex' + Taken') = readIndex'
    BY <1>5, <1>7, <1>12, WrappedInside
  <2> QED BY <1>5, <1>9, <1>11, <1>12, <1>14, <2>1 DEF MemoryInv
<1>16. IndexInv'
  <2>1. Taken' + Len(owed') + Passed' = Len(owed)
    BY <1>5, <1>9, <1>12
  <2>2. ReadSide' = readMirror /\ WriteSide' = writeMirror
    BY <1>4, <1>5 DEF ReadSide, WriteSide
  <2> QED BY <1>2, <1>5, <2>1, <2>2 DEF IndexInv, Settled
<1>17. StageInv'
  BY <1>4, <1>5, <1>6, <1>8 DEF StageInv
<1>18. TrafficInv'
  BY <1>1, <1>4, <1>5 DEF RingInv, TrafficInv, Replies
<1>19. Unharmed'
  <2>1. ~ Stray(writeIndex, length', size')
    BY <1>6, <1>7, <1>8, NotStray, Sizes
  <2> QED BY <1>4, <1>5, <2>1 DEF RingInv, Unharmed
<1> QED BY <1>15, <1>16, <1>17, <1>18, <1>19 DEF RingInv

(* Ring_Buffer_Write returns: the frame becomes one of those owed. *)
LEMMA RingWritten ==
  ASSUME Types, RingInv, pc \in {"w_advance", "w_flip"}, FrameWritten(length),
         pointer' = pointer, readMirror' = readMirror, readIndex' = readIndex,
         damage' = damage,
         Spans(Len(owed) + FRAME, readMirror, writeMirror', readIndex, writeIndex')
  PROVE  RingInv'
<1> DEFINE block == Block("frame", seq.frame, FRAME)
<1>1. length = FRAME /\ turn \in Nat
  BY DEF RingInv, StageInv, Types
<1>2. /\ owed' = owed \o block /\ pc' = "loop" /\ turn' = turn + 1
      /\ blk_overflow_cnt' = (blk_overflow_cnt \/ FRAME # FRAME)
  BY <1>1 DEF FrameWritten
<1>3. InHand = block /\ Taken = 0
  BY DEF InHand, Taken
<1>4. seq.frame \in Nat /\ FRAME \in Nat
  BY Sizes DEF Types
<1>5. block \in Seq(Byte) /\ Len(block) = FRAME
  BY <1>4, Blocks
<1>6. Replies(owed \o block) = Replies(owed)
  BY <1>4, RepliesFrame DEF RingInv, MemoryInv
<1> HIDE DEF block
<1>7. owed \in Seq(Byte)
  BY DEF RingInv, MemoryInv
<1>8. owed' \in Seq(Byte) /\ Len(owed') = Len(owed) + FRAME /\ Len(owed) \in Nat
  <2>1. owed \o block \in Seq(Byte) /\ Len(owed \o block) = Len(owed) + Len(block)
    BY <1>5, <1>7, Joined
  <2>2. Len(owed) \in Nat
    BY <1>7
  <2> QED BY <1>2, <1>5, <2>1, <2>2
<1>9. readIndex \in 0 .. SIZE - 1
  BY DEF Spans
<1>10. Holds(pointer, owed \o block, readIndex)
  BY <1>3, <1>9, WrappedInside DEF RingInv, MemoryInv
<1>11. pc' \notin MidUpdate
  BY <1>2 DEF MidUpdate, LockedSteps
<1>12. Settled'
  BY <1>2, <1>8, <1>10 DEF Settled
<1>13. IndexInv' /\ MemoryInv'
  BY <1>11, <1>12, SettledAfter
<1>14. StageInv'
  BY <1>2 DEF StageInv
<1>15. TrafficInv'
  <2>1. Replies(owed)' = Replies(owed)
    BY <1>2, <1>6
  <2>2. Replies(owed) \in Nat
    BY <1>7, RepliesBound
  <2>3. Replies(owed) <= OUTSTANDING * REPLY /\ Len(owed) - Replies(owed) <= turn * FRAME
    BY DEF RingInv, TrafficInv
  <2>4. (turn + 1) * FRAME = turn * FRAME + FRAME /\ turn * FRAME \in Int
    BY <1>1, Sizes
  <2>5. Len(owed') - Replies(owed)' <= turn' * FRAME
    <3>1. Len(owed') = Len(owed) + FRAME /\ turn' = turn + 1
      BY <1>2, <1>8
    <3>2. Len(owed) \in Nat /\ FRAME \in Nat
      BY <1>7, Sizes
    <3> DEFINE l == Len(owed)
               q == Replies(owed)
               f == turn * FRAME
    <3>3. /\ Len(owed') = l + FRAME /\ Replies(owed)' = q /\ turn' * FRAME = f + FRAME
          /\ l - q <= f /\ l \in Int /\ q \in Int /\ f \in Int /\ FRAME \in Int
      BY <2>1, <2>2, <2>3, <2>4, <3>1, <3>2
    <3> HIDE DEF l, q, f
    <3> QED BY <3>3
  <2> QED BY <1>2, <2>1, <2>3, <2>5 DEF TrafficInv
<1>16. Unharmed'
  BY <1>2 DEF RingInv, Unharmed
<1> QED BY <1>13, <1>14, <1>15, <1>16 DEF RingInv

LEMMA RingWriteAdvance ==
  ASSUME Types, RingInv, WriteAdvance
  PROVE  RingInv'
<1>1. pc = "w_advance" /\ length = FRAME /\ size = SIZE - writeIndex
  BY DEF WriteAdvance, RingInv, StageInv
<1>2. owed \in Seq(Byte) /\ Len(owed) \in Nat /\ Len(owed) + FRAME <= SIZE
  <2>1. owed \in Seq(Byte) /\ Len(owed) \in Nat
    BY DEF RingInv, MemoryInv
  <2>2. turn < TASKS
    BY <1>1 DEF Types, Writing
  <2> QED BY <1>1, <2>1, <2>2, Budget, Sizes DEF RingInv
<1>3. Spans(Len(owed), readMirror, writeMirror, readIndex, writeIndex)
  <2>1. Taken + Len(owed) + Passed = Len(owed) /\ ReadSide = readMirror /\ WriteSide = writeMirror
    BY <1>1, <1>2 DEF Taken, Passed, ReadSide, WriteSide
  <2> QED BY <2>1 DEF RingInv, IndexInv
<1>4. writeIndex \in 0 .. SIZE - 1 /\ readIndex \in 0 .. SIZE - 1
  BY <1>3, Sizes DEF Spans, Wrapped
<1>5. /\ SIZE - writeIndex > FRAME =>
           Spans(Len(owed) + FRAME, readMirror, writeMirror, readIndex, writeIndex + FRAME)
      /\ SIZE - writeIndex <= FRAME =>
           Spans(Len(owed) + FRAME, readMirror, Flip(writeMirror), readIndex,
                 FRAME - (SIZE - writeIndex))
  <2>1. readMirror \in Mirrors /\ writeMirror \in Mirrors /\ FRAME \in Nat
    BY Sizes DEF Types
  <2> QED BY <1>2, <1>3, <2>1, SpanWritten
<1>6. /\ pointer' = pointer /\ readMirror' = readMirror /\ readIndex' = readIndex
      /\ writeMirror' = writeMirror /\ damage' = damage /\ length' = length
  BY DEF WriteAdvance, locals
<1>7. CASE size > length
  <2>1. FrameWritten(length) /\ writeIndex' = U(writeIndex + length)
    BY <1>7 DEF WriteAdvance, Types
  <2>2. writeIndex' = writeIndex + FRAME
    BY <1>1, <1>4, <1>7, <2>1, WordExact, Sizes
  <2>3. Spans(Len(owed) + FRAME, readMirror, writeMirror', readIndex, writeIndex')
    BY <1>1, <1>5, <1>6, <1>7, <2>2
  <2> QED BY <1>1, <1>6, <2>1, <2>3, RingWritten
<1>8. CASE size <= length
  <2>1. /\ writeIndex' = length - size /\ pc' = "w_flip"
        /\ turn' = turn /\ seq' = seq /\ blk_overflow_cnt' = blk_overflow_cnt /\ owed' = owed
    BY <1>8 DEF WriteAdvance, Types
  <2>2. Taken' = 0 /\ Passed' = FRAME /\ InHand' = InHand /\ Taken = 0
    BY <1>1, <2>1 DEF Taken, Passed, InHand
  <2>3. ReadSide' = readMirror /\ WriteSide' = Flip(writeMirror)
    BY <1>6, <2>1 DEF ReadSide, WriteSide
  <2>4. Taken' + Len(owed') + Passed' = Len(owed) + FRAME
    BY <1>2, <2>1, <2>2, Sizes
  <2>5. IndexInv'
    BY <1>1, <1>5, <1>6, <1>8, <2>1, <2>3, <2>4 DEF IndexInv
  <2>6. MemoryInv'
    BY <1>6, <2>1, <2>2 DEF RingInv, MemoryInv
  <2>7. StageInv'
    BY <1>1, <1>6, <2>1 DEF StageInv
  <2>8. TrafficInv'
    BY <1>1, <2>1 DEF RingInv, TrafficInv, Replies
  <2>9. Unharmed'
    BY <1>6, <2>1 DEF RingInv, Unharmed
  <2> QED BY <2>5, <2>6, <2>7, <2>8, <2>9 DEF RingInv
<1> QED BY <1>7, <1>8 DEF WriteAdvance

LEMMA RingWriteFlip ==
  ASSUME Types, RingInv, WriteFlip
  PROVE  RingInv'
<1>1. /\ pc = "w_flip" /\ writeMirror' = Flip(writeMirror) /\ FrameWritten(length)
      /\ pointer' = pointer /\ readMirror' = readMirror /\ readIndex' = readIndex
      /\ writeIndex' = writeIndex /\ damage' = damage
  BY DEF WriteFlip
<1>2. Len(owed) \in Nat
  BY DEF RingInv, MemoryInv
<1>3. /\ Taken + Len(owed) + Passed = Len(owed) + FRAME
      /\ ReadSide = readMirror /\ WriteSide = Flip(writeMirror)
  BY <1>1, <1>2, Sizes DEF Taken, Passed, ReadSide, WriteSide
<1>4. Spans(Len(owed) + FRAME, readMirror, writeMirror', readIndex, writeIndex')
  BY <1>1, <1>3 DEF RingInv, IndexInv
<1> QED BY <1>1, <1>4, RingWritten

-------------------------------------------------------------------------------
(* A place reached in two strides. *)
LEMMA WrappedTwice ==
  ASSUME NEW x \in 0 .. SIZE - 1, NEW y \in 0 .. SIZE, NEW z \in 0 .. SIZE, y + z <= SIZE
  PROVE  /\ Wrapped(x + y) \in 0 .. SIZE - 1
         /\ Wrapped(Wrapped(x + y) + z) = Wrapped(x + (y + z))
BY Sizes DEF Wrapped

LEMMA RingReadNothing ==
  ASSUME Types, RingInv, ReadCopy, size = 0
  PROVE  RingInv'
<1>1. /\ pc = "r_copy" /\ pc' = "loop" /\ turn' = 0 /\ owed' = owed /\ damage' = damage
      /\ pointer' = pointer /\ readMirror' = readMirror /\ readIndex' = readIndex
      /\ writeMirror' = writeMirror /\ writeIndex' = writeIndex
      /\ blk_overflow_cnt' = blk_overflow_cnt
  BY DEF ReadCopy, ring, ghosts
<1>2. pc \notin MidUpdate /\ pc' \notin MidUpdate
  BY <1>1 DEF MidUpdate, LockedSteps
<1>3. Settled
  BY <1>2, SettledIs DEF RingInv
<1>4. Settled'
  BY <1>1, <1>3 DEF Settled
<1>5. IndexInv' /\ MemoryInv'
  BY <1>2, <1>4, SettledAfter
<1>6. StageInv'
  BY <1>1 DEF StageInv
<1>7. TrafficInv'
  <2>1. \A i \in 1 .. Len(owed) : IsReply(owed[i])
    BY <1>1 DEF RingInv, StageInv
  <2>2. Replies(owed) = Len(owed) /\ Len(owed) \in Nat
    BY <1>3, <2>1, RepliesAll DEF Settled
  <2>3. Replies(owed) <= OUTSTANDING * REPLY
    BY DEF RingInv, TrafficInv
  <2>4. Replies(owed') = Replies(owed) /\ Len(owed') - Replies(owed') <= turn' * FRAME
    BY <1>1, <2>2, Sizes
  <2> QED BY <1>1, <2>3, <2>4 DEF TrafficInv
<1>8. Unharmed'
  BY <1>1 DEF RingInv, Unharmed
<1> QED BY <1>5, <1>6, <1>7, <1>8 DEF RingInv

LEMMA RingReadCopy ==
  ASSUME Types, RingInv, ReadCopy, size # 0
  PROVE  RingInv'
<1>1. /\ pc = "r_copy" /\ pc' = "r_advance"
      /\ length' = ReadCount(size) /\ size' = U(SIZE - readIndex)
      /\ owed' = SubSeq(owed, length' + 1, Len(owed))
      /\ damage' = damage
           \cup (IF Stray(readIndex, length', size') THEN {"stray"} ELSE {})
           \cup (IF IsPrefixOf(CopyOut(readIndex, length'), owed) THEN {} ELSE {"garbled"})
  BY DEF ReadCopy
<1>2. /\ pointer' = pointer /\ readMirror' = readMirror /\ readIndex' = readIndex
      /\ writeMirror' = writeMirror /\ writeIndex' = writeIndex
      /\ blk_overflow_cnt' = blk_overflow_cnt
  BY DEF ReadCopy, ring
<1>3. Settled
  <2>1. pc \notin MidUpdate
    BY <1>1 DEF MidUpdate, LockedSteps
  <2> QED BY <2>1, SettledIs DEF RingInv
<1>4. owed \in Seq(Byte) /\ Len(owed) \in Nat /\ Len(owed) <= READMAX
  <2>1. owed \in Seq(Byte)
    BY <1>3 DEF Settled
  <2> QED BY <1>1, <2>1, Budget DEF RingInv
<1>5. /\ size \in 1 .. Len(owed)
      /\ \A i \in size + 1 .. Len(owed) : IsReply(owed[i])
  BY <1>1, <1>4 DEF RingInv, StageInv
<1>6. length' = size
  BY <1>1, <1>4, <1>5, Sizes DEF ReadCount, Smaller
<1>7. /\ readIndex \in 0 .. SIZE - 1
      /\ Spans(Len(owed), readMirror, writeMirror, readIndex, writeIndex)
      /\ Holds(pointer, owed, readIndex)
  BY <1>3 DEF Settled, Spans
<1>8. size' = SIZE - readIndex
  BY <1>1, <1>7, WordExact, Sizes
<1>9. /\ owed' \in Seq(Byte) /\ Len(owed') = Len(owed) - size
      /\ \A i \in 1 .. Len(owed') : owed'[i] = owed[size + i]
      /\ Replies(owed') = Len(owed') /\ Replies(owed') <= Replies(owed)
  <2>1. owed' = SubSeq(owed, size + 1, Len(owed))
    BY <1>1, <1>6
  <2>2. size \in 0 .. Len(owed)
    BY <1>4, <1>5
  <2>3. LET t == SubSeq(owed, size + 1, Len(owed))
        IN  /\ t \in Seq(Byte) /\ Len(t) = Len(owed) - size
            /\ \A i \in 1 .. Len(t) : t[i] = owed[size + i]
            /\ Replies(t) = Len(t) /\ Replies(t) <= Replies(owed)
    BY <1>4, <1>5, <2>2, RepliesLeft
  <2> QED BY <2>1, <2>3
<1>10. Taken' = size /\ Passed' = 0 /\ InHand' = << >>
  BY <1>1, <1>6 DEF Taken, Passed, InHand
<1>11. IndexInv'
  <2>1. Taken' + Len(owed') + Passed' = Len(owed)
    BY <1>4, <1>5, <1>9, <1>10
  <2>2. ReadSide' = readMirror /\ WriteSide' = writeMirror
    BY <1>1, <1>2 DEF ReadSide, WriteSide
  <2> QED BY <1>2, <1>7, <2>1, <2>2 DEF IndexInv
<1>12. Holds(pointer, owed', Wrapped(readIndex + size))
  <2> SUFFICES ASSUME NEW k \in 1 .. Len(owed')
               PROVE  owed'[k] = pointer[Wrapped(Wrapped(readIndex + size) + k - 1)]
    BY DEF Holds
  <2>1. /\ size \in 0 .. SIZE /\ k - 1 \in 0 .. SIZE /\ size + (k - 1) <= SIZE
        /\ size + k \in 1 .. Len(owed)
    BY <1>4, <1>5, <1>9, Sizes
  <2>2. /\ Wrapped(readIndex + size) \in 0 .. SIZE - 1
        /\ Wrapped(Wrapped(readIndex + size) + (k - 1)) = Wrapped(readIndex + (size + (k - 1)))
    BY <1>7, <2>1, WrappedTwice
  <2>3. owed[size + k] = pointer[Wrapped(readIndex + (size + k) - 1)]
    BY <1>7, <2>1 DEF Holds
  <2>4. /\ readIndex + (size + k) - 1 = readIndex + (size + (k - 1))
        /\ Wrapped(readIndex + size) + k - 1 = Wrapped(readIndex + size) + (k - 1)
    BY <1>7, <2>1, <2>2
  <2> QED BY <1>9, <2>2, <2>3, <2>4
<1>13. MemoryInv'
  <2>1. owed' \o InHand' = owed'
    BY <1>9, <1>10
  <2>2. Wrapped(readIndex' + Taken') = Wrapped(readIndex + size)
    BY <1>2, <1>10
  <2> QED BY <1>2, <1>9, <1>12, <2>1, <2>2 DEF MemoryInv
<1>14. StageInv'
  <2>1. length' \in 1 .. READMAX /\ size' = SIZE - readIndex'
    BY <1>2, <1>4, <1>5, <1>6, <1>8, Sizes
  <2> QED BY <1>1, <2>1 DEF StageInv
<1>15. TrafficInv'
  <2>1. Replies(owed) <= OUTSTANDING * REPLY /\ Replies(owed) \in Nat /\ Replies(owed') \in Nat
    BY <1>4, <1>9, RepliesBound DEF RingInv, TrafficInv
  <2>2. OUTSTANDING * REPLY \in Nat
    BY Sizes
  <2>3. Replies(owed') <= OUTSTANDING * REPLY
    BY <1>9, <2>1, <2>2
  <2> QED BY <1>1, <1>9, <2>3 DEF TrafficInv
<1>16. Unharmed'
  <2>1. ~ Stray(readIndex, length', size')
    <3>1. length' \in 0 .. SIZE
      BY <1>4, <1>5, <1>6, Sizes
    <3> QED BY <1>7, <1>8, <3>1, NotStray
  <2>2. CopyOut(readIndex, length') = SubSeq(owed, 1, size)
    <3>1. Len(owed) <= SIZE /\ size \in 0 .. Len(owed)
      BY <1>4, <1>5, Sizes
    <3> QED BY <1>4, <1>6, <1>7, <3>1, CopyOutHeld
  <2>3. IsPrefixOf(CopyOut(readIndex, length'), owed)
    <3>1. Len(SubSeq(owed, 1, size)) = size /\ size <= Len(owed)
      BY <1>4, <1>5
    <3> QED BY <2>2, <3>1 DEF IsPrefixOf
  <2> QED BY <1>1, <1>2, <2>1, <2>3 DEF RingInv, Unharmed
<1> QED BY <1>11, <1>13, <1>14, <1>15, <1>16 DEF RingInv

LEMMA RingReadAdvance ==
  ASSUME Types, RingInv, ReadAdvance
  PROVE  RingInv'
<1>1. pc = "r_advance" /\ length \in 1 .. READMAX /\ size = SIZE - readIndex
  BY DEF ReadAdvance, RingInv, StageInv
<1>2. /\ pointer' = pointer /\ readMirror' = readMirror /\ writeMirror' = writeMirror
      /\ writeIndex' = writeIndex /\ owed' = owed /\ damage' = damage
      /\ blk_overflow_cnt' = blk_overflow_cnt
  BY DEF ReadAdvance, ghosts
<1>3. owed \in Seq(Byte) /\ Len(owed) \in Nat
  BY DEF RingInv, MemoryInv
<1>4. Spans(length + Len(owed), readMirror, writeMirror, readIndex, writeIndex)
  <2>1. /\ Taken + Len(owed) + Passed = length + Len(owed)
        /\ ReadSide = readMirror /\ WriteSide = writeMirror
    BY <1>1, <1>3 DEF Taken, Passed, ReadSide, WriteSide
  <2> QED BY <2>1 DEF RingInv, IndexInv
<1>5. readIndex \in 0 .. SIZE - 1
  BY <1>4 DEF Spans
<1>6. /\ SIZE - readIndex > length =>
           Spans(Len(owed), readMirror, writeMirror, readIndex + length, writeIndex)
      /\ SIZE - readIndex <= length =>
           Spans(Len(owed), Flip(readMirror), writeMirror, length - (SIZE - readIndex), writeIndex)
  <2>1. readMirror \in Mirrors /\ writeMirror \in Mirrors
    BY DEF Types
  <2>2. length \in 0 .. length + Len(owed) /\ (length + Len(owed)) - length = Len(owed)
    BY <1>1, <1>3
  <2> QED BY <1>4, <2>1, <2>2, SpanRead
<1>7. Holds(pointer, owed, Wrapped(readIndex + length))
  <2>1. InHand = << >> /\ Taken = length
    BY <1>1 DEF InHand, Taken
  <2>2. owed \o InHand = owed
    BY <1>3, <2>1
  <2> QED BY <2>1, <2>2 DEF RingInv, MemoryInv
<1>8. Len(owed) = Replies(owed) /\ Replies(owed) <= OUTSTANDING * REPLY
  BY <1>1 DEF RingInv, TrafficInv
<1>9. Unharmed'
  BY <1>2 DEF RingInv, Unharmed
<1>10. CASE size > length
  <2>1. pc' = "loop" /\ turn' = 0 /\ readIndex' = U(readIndex + length)
    BY <1>10 DEF ReadAdvance, Types
  <2>2. readIndex' = readIndex + length /\ readIndex' = Wrapped(readIndex + length)
    BY <1>1, <1>5, <1>10, <2>1, WordExact, Sizes DEF Wrapped
  <2>3. Settled'
    <3>1. Spans(Len(owed), readMirror, writeMirror, readIndex', writeIndex)
      BY <1>1, <1>6, <1>10, <2>2
    <3> QED BY <1>2, <1>3, <1>7, <2>2, <3>1 DEF Settled
  <2>4. IndexInv' /\ MemoryInv'
    <3>1. pc' \notin MidUpdate
      BY <2>1 DEF MidUpdate, LockedSteps
    <3> QED BY <2>3, <3>1, SettledAfter
  <2>5. StageInv'
    BY <2>1 DEF StageInv
  <2>6. TrafficInv'
    <3>1. Len(owed) - Replies(owed) <= turn' * FRAME
      BY <1>3, <1>8, <2>1, Sizes
    <3> QED BY <1>2, <1>8, <2>1, <3>1 DEF TrafficInv
  <2> QED BY <1>9, <2>4, <2>5, <2>6 DEF RingInv
<1>11. CASE size <= length
  <2>1. pc' = "r_flip" /\ readIndex' = length - size
    BY <1>11 DEF ReadAdvance, Types
  <2>2. readIndex' = length - (SIZE - readIndex) /\ readIndex' = Wrapped(readIndex + length)
    BY <1>1, <1>5, <1>11, <2>1, Sizes DEF Wrapped
  <2>3. Taken' = 0 /\ Passed' = 0 /\ InHand' = << >>
    BY <2>1 DEF Taken, Passed, InHand
  <2>4. ReadSide' = Flip(readMirror) /\ WriteSide' = writeMirror
    BY <1>2, <2>1 DEF ReadSide, WriteSide
  <2>5. Spans(Len(owed), Flip(readMirror), writeMirror, readIndex', writeIndex)
    BY <1>1, <1>6, <1>11, <2>2
  <2>6. IndexInv'
    <3>1. Taken' + Len(owed') + Passed' = Len(owed)
      BY <1>2, <1>3, <2>3
    <3> QED BY <1>2, <2>4, <2>5, <3>1 DEF IndexInv
  <2>7. MemoryInv'
    <3>1. readIndex' \in 0 .. SIZE - 1
      BY <2>5 DEF Spans
    <3>2. Wrapped(readIndex' + Taken') = readIndex'
      BY <2>3, <3>1, WrappedInside
    <3>3. owed' \o InHand' = owed
      BY <1>2, <1>3, <2>3
    <3> QED BY <1>2, <1>3, <1>7, <2>2, <3>2, <3>3 DEF MemoryInv
  <2>8. StageInv'
    BY <2>1 DEF StageInv
  <2>9. TrafficInv'
    BY <1>2, <1>8, <2>1 DEF TrafficInv
  <2> QED BY <1>9, <2>6, <2>7, <2>8, <2>9 DEF RingInv
<1> QED BY <1>10, <1>11 DEF ReadAdvance

LEMMA RingReadFlip ==
  ASSUME Types, RingInv, ReadFlip
  PROVE  RingInv'
<1>1. /\ pc = "r_flip" /\ pc' = "loop" /\ turn' = 0 /\ readMirror' = Flip(readMirror)
      /\ pointer' = pointer /\ readIndex' = readIndex
      /\ writeMirror' = writeMirror /\ writeIndex' = writeIndex
      /\ owed' = owed /\ damage' = damage /\ blk_overflow_cnt' = blk_overflow_cnt
  BY DEF ReadFlip, ghosts
<1>2. owed \in Seq(Byte) /\ Len(owed) \in Nat
  BY DEF RingInv, MemoryInv
<1>3. /\ Taken = 0 /\ Passed = 0 /\ InHand = << >>
      /\ ReadSide = Flip(readMirror) /\ WriteSide = writeMirror
  BY <1>1 DEF Taken, Passed, InHand, ReadSide, WriteSide
<1>4. Taken + Len(owed) + Passed = Len(owed) /\ owed \o InHand = owed
  BY <1>2, <1>3
<1>5. Spans(Len(owed), Flip(readMirror), writeMirror, readIndex, writeIndex)
  BY <1>3, <1>4 DEF RingInv, IndexInv
<1>6. readIndex \in 0 .. SIZE - 1
  BY <1>5 DEF Spans
<1>7. Holds(pointer, owed, readIndex)
  BY <1>3, <1>4, <1>6, WrappedInside DEF RingInv, MemoryInv
<1>8. Settled'
  BY <1>1, <1>2, <1>5, <1>7 DEF Settled
<1>9. IndexInv' /\ MemoryInv'
  <2>1. pc' \notin MidUpdate
    BY <1>1 DEF MidUpdate, LockedSteps
  <2> QED BY <1>8, <2>1, SettledAfter
<1>10. StageInv'
  BY <1>1 DEF StageInv
<1>11. TrafficInv'
  <2>1. Len(owed) = Replies(owed) /\ Replies(owed) <= OUTSTANDING * REPLY
    BY <1>1 DEF RingInv, TrafficInv
  <2>2. Len(owed) - Replies(owed) <= turn' * FRAME
    BY <1>1, <1>2, <2>1, Sizes
  <2> QED BY <1>1, <2>1, <2>2 DEF TrafficInv
<1>12. Unharmed'
  BY <1>1 DEF RingInv, Unharmed
<1> QED BY <1>9, <1>10, <1>11, <1>12 DEF RingInv

-------------------------------------------------------------------------------
(* An interrupt that lands where the lock would let it finds the ring      *)
(* settled and room for its reply.                                         *)
LEMMA RingReply ==
  ASSUME Types, RingInv, BulkOutReply, pc \notin LockedSteps
  PROVE  RingInv'
<1> DEFINE block == Block("reply", seq.reply, REPLY)
<1>1. /\ pc' = pc /\ pc \notin MidUpdate /\ pc' \notin MidUpdate
      /\ pc \in {"loop", "w_copy", "r_copy"}
  BY DEF BulkOutReply, MidUpdate, LockedSteps, Types, Steps
<1>2. Settled
  BY <1>1, SettledIs DEF RingInv
<1>3. /\ owed \in Seq(Byte) /\ Len(owed) \in Nat
      /\ Spans(Len(owed), readMirror, writeMirror, readIndex, writeIndex)
      /\ Holds(pointer, owed, readIndex)
  BY <1>2 DEF Settled
<1>4. /\ HostMayAsk /\ Len(owed) + REPLY <= READMAX
      /\ Replies(owed) + REPLY <= OUTSTANDING * REPLY
  <2>1. HostMayAsk
    BY DEF BulkOutReply
  <2>2. pc \notin {"r_advance", "r_flip"}
    BY <1>1
  <2> QED BY <1>3, <2>1, <2>2, Budget DEF RingInv
<1>5. writeIndex \in 0 .. SIZE - 1 /\ readIndex \in 0 .. SIZE - 1
  BY <1>3, Sizes DEF Spans, Wrapped
<1>6. SpaceOf(readMirror, writeMirror, readIndex, writeIndex) = SIZE - Len(owed)
  BY <1>3, SpanLength
<1>7. SIZE - Len(owed) # 0 /\ Smaller(REPLY, SIZE - Len(owed)) = REPLY
  BY <1>3, <1>4, Sizes DEF Smaller
<1>8. U(SIZE - writeIndex) = SIZE - writeIndex
  BY <1>5, WordExact, Sizes
<1>9. block \in Seq(Byte) /\ Len(block) = REPLY
  <2>1. seq.reply \in Nat
    BY DEF Types
  <2> QED BY <2>1, Blocks, Sizes
<1>10. Replies(owed \o block) = Replies(owed) + REPLY
  <2>1. seq.reply \in Nat
    BY DEF Types
  <2> QED BY <1>3, <2>1, RepliesReply, Sizes
<1>11. /\ pointer' = CopyIn(block, writeIndex, SIZE - writeIndex)
       /\ \/ /\ SIZE - writeIndex > REPLY
             /\ writeIndex' = U(writeIndex + REPLY) /\ writeMirror' = writeMirror
          \/ /\ SIZE - writeIndex <= REPLY
             /\ writeIndex' = REPLY - (SIZE - writeIndex) /\ writeMirror' = Flip(writeMirror)
       /\ owed' = owed \o block
  BY <1>6, <1>7, <1>8 DEF BulkOutReply
<1>12. damage' = {}
  <2>1. ~ Stray(writeIndex, REPLY, SIZE - writeIndex)
    BY <1>5, NotStray, Sizes
  <2>2. damage = {}
    BY DEF RingInv, Unharmed
  <2> QED BY <1>6, <1>7, <1>8, <2>1, <2>2 DEF BulkOutReply
<1>13. /\ readMirror' = readMirror /\ readIndex' = readIndex /\ turn' = turn
       /\ size' = size /\ blk_overflow_cnt' = blk_overflow_cnt
  BY DEF BulkOutReply, locals
<1> HIDE DEF block
<1>14. owed' \in Seq(Byte) /\ Len(owed') = Len(owed) + REPLY
  <2>1. owed \o block \in Seq(Byte) /\ Len(owed \o block) = Len(owed) + Len(block)
    BY <1>3, <1>9, Joined
  <2> QED BY <1>9, <1>11, <2>1
<1>15. Spans(Len(owed'), readMirror', writeMirror', readIndex', writeIndex')
  <2>1. readMirror \in Mirrors /\ writeMirror \in Mirrors /\ REPLY \in Nat
        /\ Len(owed) + REPLY <= SIZE
    BY <1>3, <1>4, Sizes DEF Types
  <2>2. /\ SIZE - writeIndex > REPLY =>
             Spans(Len(owed) + REPLY, readMirror, writeMirror, readIndex, writeIndex + REPLY)
        /\ SIZE - writeIndex <= REPLY =>
             Spans(Len(owed) + REPLY, readMirror, Flip(writeMirror), readIndex,
                   REPLY - (SIZE - writeIndex))
    BY <1>3, <2>1, SpanWritten
  <2>3. SIZE - writeIndex > REPLY => U(writeIndex + REPLY) = writeIndex + REPLY
    BY <1>5, WordExact, Sizes
  <2> QED BY <1>11, <1>13, <1>14, <2>2, <2>3
<1>16. Holds(pointer', owed', readIndex')
  <2>1. Len(owed) + Len(block) <= SIZE
    BY <1>3, <1>4, <1>9, Sizes
  <2>2. Holds(CopyIn(block, writeIndex, SIZE - writeIndex), owed \o block, readIndex)
    BY <1>3, <1>9, <2>1, CopyHolds
  <2> QED BY <1>11, <1>13, <2>2
<1>17. IndexInv' /\ MemoryInv'
  <2>1. Settled'
    BY <1>14, <1>15, <1>16 DEF Settled
  <2> QED BY <1>1, <2>1, SettledAfter
<1>18. StageInv'
  <2>1. pc' = "w_copy" => size' >= FRAME
    BY <1>1, <1>13 DEF RingInv, StageInv
  <2>2. ASSUME pc' = "r_copy"
        PROVE  size' \in 0 .. Len(owed') /\ \A i \in size' + 1 .. Len(owed') : IsReply(owed'[i])
    <3>1. size \in 0 .. Len(owed) /\ \A i \in size + 1 .. Len(owed) : IsReply(owed[i])
      BY <1>1, <2>2 DEF RingInv, StageInv
    <3>2. size' \in 0 .. Len(owed')
      BY <1>3, <1>13, <1>14, <3>1, Sizes
    <3>3. /\ \A i \in 1 .. Len(owed) : owed'[i] = owed[i]
          /\ \A i \in Len(owed) + 1 .. Len(owed) + REPLY : owed'[i] = block[i - Len(owed)]
      BY <1>3, <1>9, <1>11, Joined
    <3>4. \A i \in 1 .. REPLY : IsReply(block[i])
      <4>1. seq.reply \in Nat
        BY DEF Types
      <4>2. \A i \in 1 .. REPLY : block[i] = <<"reply", seq.reply, i>>
        BY <4>1, Blocks, Sizes DEF block
      <4> QED BY <4>2 DEF IsReply
    <3>5. \A i \in size + 1 .. Len(owed') : IsReply(owed'[i])
      <4> TAKE i \in size + 1 .. Len(owed')
      <4>1. CASE i \in size + 1 .. Len(owed)
        BY <3>1, <3>3, <4>1
      <4>2. CASE i \in Len(owed) + 1 .. Len(owed) + REPLY
        <5>1. i - Len(owed) \in 1 .. REPLY
          BY <1>3, <4>2, Sizes
        <5> QED BY <3>3, <3>4, <4>2, <5>1
      <4> QED BY <1>3, <1>14, <3>1, <4>1, <4>2, Sizes
    <3> QED BY <1>13, <3>2, <3>5
  <2> QED BY <1>1, <2>1, <2>2 DEF StageInv
<1>19. TrafficInv'
  <2>1. Replies(owed') = Replies(owed) + REPLY /\ Replies(owed) \in Nat
    BY <1>3, <1>10, <1>11, RepliesBound
  <2>2. Len(owed) - Replies(owed) <= turn * FRAME
    BY <1>1 DEF RingInv, TrafficInv
  <2>3. Len(owed') - Replies(owed') = Len(owed) - Replies(owed)
    BY <1>3, <1>14, <2>1, Sizes
  <2> QED BY <1>1, <1>4, <1>13, <2>1, <2>2, <2>3 DEF TrafficInv
<1>20. Unharmed'
  BY <1>12, <1>13 DEF RingInv, Unharmed
<1> QED BY <1>17, <1>18, <1>19, <1>20 DEF RingInv

LEMMA RingNext == TxInv /\ [Next]_vars => TxInv'
<1> SUFFICES ASSUME TxInv, [Next]_vars PROVE TxInv'
  OBVIOUS
<1>1. Types /\ Types'
  BY TypesNext DEF TxInv
<1>2. CASE Raced
  <2>1. damage \subseteq damage'
    BY <1>2 DEF Next, Undefined, Main, NoFrame, WriteFrame, WriteLoadIndices, WriteCopy,
                WriteAdvance, WriteFlip, ReadOut, ReadLoadIndices, ReadCopy, ReadAdvance,
                ReadFlip, LoadMirrors, BulkOutReply, vars, ghosts
  <2> QED BY <1>1, <1>2, <2>1 DEF TxInv, Raced
<1>3. CASE RingInv /\ Main
  <2>1. RingInv'
    BY <1>1, <1>3, RingStart, RingIndices, RingWriteCopy, RingWriteAdvance, RingWriteFlip,
       RingReadNothing, RingReadCopy, RingReadAdvance, RingReadFlip DEF Main
  <2> QED BY <1>1, <2>1 DEF TxInv
<1>4. CASE RingInv /\ BulkOutReply
  <2>1. CASE pc \in LockedSteps
    <3>1. "raced" \in damage'
      BY <1>4, <2>1 DEF BulkOutReply
    <3> QED BY <1>1, <3>1 DEF TxInv, Raced
  <2>2. CASE pc \notin LockedSteps
    BY <1>1, <1>4, <2>2, RingReply DEF TxInv
  <2> QED BY <2>1, <2>2
<1>5. CASE RingInv /\ UNCHANGED vars
  <2>1. /\ pointer' = pointer /\ readMirror' = readMirror /\ readIndex' = readIndex
        /\ writeMirror' = writeMirror /\ writeIndex' = writeIndex /\ owed' = owed
    BY <1>5 DEF vars, ring, ghosts
  <2>2. /\ pc' = pc /\ turn' = turn /\ mirrors' = mirrors /\ size' = size /\ length' = length
        /\ seq' = seq /\ damage' = damage /\ blk_overflow_cnt' = blk_overflow_cnt
    BY <1>5 DEF vars, locals, ghosts
  <2>3. IndexInv'
    BY <1>5, <2>1, <2>2 DEF RingInv, IndexInv, Taken, Passed, ReadSide, WriteSide
  <2>4. MemoryInv'
    BY <1>5, <2>1, <2>2 DEF RingInv, MemoryInv, Taken, InHand
  <2>5. StageInv'
    BY <1>5, <2>1, <2>2 DEF RingInv, StageInv
  <2>6. TrafficInv'
    BY <1>5, <2>1, <2>2 DEF RingInv, TrafficInv, Replies
  <2>7. Unharmed'
    BY <1>5, <2>2 DEF RingInv, Unharmed
  <2> QED BY <1>1, <2>3, <2>4, <2>5, <2>6, <2>7 DEF TxInv, RingInv
<1> QED BY <1>2, <1>3, <1>4, <1>5 DEF TxInv, Next, Undefined

(* The invariant of the transmit ring, with interrupts of ring_buffer.c's  *)
(* callers wherever the build lets them in.                                *)
THEOREM RingInvariant == Spec => []TxInv
<1>1. Init => TxInv
  BY TypesInit, RingInit DEF TxInv
<1>2. TxInv /\ [Next]_vars => TxInv'
  BY RingNext
<1> QED BY <1>1, <1>2, PTL DEF Spec

(* The locals and the indices of Ring_Buffer_Write and Ring_Buffer_Read    *)
(* stay in their ranges, whatever interrupt lands where; and the indices   *)
(* stay inside usb_tx_mem unless one lands inside a call.                  *)
THEOREM TypeCorrect == Spec => []TypeOK
<1>1. TxInv => TypeOK
  <2> SUFFICES ASSUME TxInv PROVE TypeOK
    OBVIOUS
  <2>1. "raced" \notin damage => {readIndex, writeIndex} \subseteq 0 .. SIZE - 1
    BY Sizes DEF TxInv, Raced, RingInv, IndexInv, Spans, Wrapped
  <2> QED BY <2>1 DEF TypeOK, TxInv, Types
<1> QED BY <1>1, RingInvariant, PTL

(* Between two calls the ring holds exactly the bytes its writers were     *)
(* told they wrote and usb_dc_send_from_ringbuffer has not sent, in order, *)
(* unless an interrupt landed inside a call at a point the lock protects.  *)
THEOREM NothingLost == Spec => []AcceptedUnlessRaced
<1>1. TxInv => AcceptedUnlessRaced
  <2> SUFFICES ASSUME TxInv, ~ Raced, pc \notin MidUpdate
               PROVE  Defined /\ Contents = owed
    BY DEF AcceptedUnlessRaced, AcceptedIsStored, Raced
  <2>1. RingInv
    BY DEF TxInv
  <2>2. Settled
    BY <2>1, SettledIs DEF RingInv
  <2>3. Defined
    BY <2>1 DEF RingInv, Unharmed, Defined
  <2>4. LengthOf(readMirror, writeMirror, readIndex, writeIndex) = Len(owed)
    BY <2>2, SpanLength DEF Settled
  <2>5. CopyOut(readIndex, Len(owed)) = SubSeq(owed, 1, Len(owed))
    <3>1. /\ owed \in Seq(Byte) /\ readIndex \in 0 .. SIZE - 1 /\ Len(owed) <= SIZE
          /\ Holds(pointer, owed, readIndex) /\ Len(owed) \in Nat
      BY <2>2, Sizes DEF Settled, Spans
    <3>2. Len(owed) \in 0 .. Len(owed)
      BY <3>1
    <3> QED BY <3>1, <3>2, CopyOutHeld
  <2>6. SubSeq(owed, 1, Len(owed)) = owed
    BY <2>2 DEF Settled
  <2> QED BY <2>3, <2>4, <2>5, <2>6 DEF Contents
<1> QED BY <1>1, RingInvariant, PTL

(* The room computed before the lock is always enough: task_data_out never *)
(* counts a frame in blk_overflow_cnt and no reply of the bulk OUT         *)
(* callback is cut, for a host that waits for its answers.                 *)
THEOREM NeverRefused == Spec => []NothingRefused
<1>1. TxInv => NothingRefused
  BY DEF TxInv, Raced, RingInv, Unharmed, NothingRefused
<1> QED BY <1>1, RingInvariant, PTL

(* A build with USE_LOCK_RNG is never raced, so for it all of this holds   *)
(* without exception.                                                      *)
LEMMA Sheltered == ~ Raced /\ USE_LOCK_RNG /\ [Next]_vars => ~ Raced'
<1> SUFFICES ASSUME ~ Raced, USE_LOCK_RNG, [Next]_vars PROVE ~ Raced'
  OBVIOUS
<1>1. CASE Main
  BY <1>1 DEF Main, NoFrame, WriteFrame, WriteLoadIndices, WriteCopy,
              WriteAdvance, WriteFlip, ReadOut, ReadLoadIndices, ReadCopy, ReadAdvance,
              ReadFlip, LoadMirrors, ghosts, Raced
<1>2. CASE BulkOutReply
  BY <1>2 DEF BulkOutReply, InterruptsEnabled, Raced
<1>3. CASE UNCHANGED vars
  BY <1>3 DEF vars, ghosts, Raced
<1> QED BY <1>1, <1>2, <1>3 DEF Next, Undefined

(* The build's choice is made once.                                        *)
LEMMA SameBuild == [Next]_vars => USE_LOCK_RNG' = USE_LOCK_RNG
BY DEF Next, Undefined, Main, BulkOutReply, vars

LEMMA NeverRaced == Spec => [](USE_LOCK_RNG => ~ Raced)
<1> DEFINE Quiet == USE_LOCK_RNG => ~ Raced
<1>1. Init => Quiet
  BY DEF Init, Raced
<1>2. Quiet /\ [Next]_vars => Quiet'
  BY Sheltered, SameBuild
<1> QED BY <1>1, <1>2, PTL DEF Spec

(* With the lock what the writers were told they wrote is what there is to *)
(* read, and the endpoint gets nothing else.                               *)
THEOREM LockKeepsAll == Spec => [](USE_LOCK_RNG => AcceptedIsStored)
<1>1. (USE_LOCK_RNG => ~ Raced) /\ AcceptedUnlessRaced => (USE_LOCK_RNG => AcceptedIsStored)
  BY DEF AcceptedUnlessRaced, Raced
<1> QED BY <1>1, NeverRaced, NothingLost, PTL

-------------------------------------------------------------------------------
(* The ring as a queue of whole blocks.  What the mapping reads out of the *)
(* memory is, at every point of a call, what is owed, split by what a read *)
(* has found.                                                              *)
LEMMA HoldsBehind ==
  ASSUME NEW s \in Seq(Byte), Len(s) <= SIZE, NEW at \in 0 .. SIZE - 1,
         Holds(pointer, s, at), NEW n \in 0 .. Len(s)
  PROVE  /\ SubSeq(s, n + 1, Len(s)) \in Seq(Byte)
         /\ Len(SubSeq(s, n + 1, Len(s))) = Len(s) - n
         /\ Wrapped(at + n) \in 0 .. SIZE - 1
         /\ Holds(pointer, SubSeq(s, n + 1, Len(s)), Wrapped(at + n))
<1> DEFINE t == SubSeq(s, n + 1, Len(s))
<1>1. Len(s) \in Nat /\ n \in Nat
  OBVIOUS
<1>2. t \in Seq(Byte) /\ Len(t) = Len(s) - n /\ \A i \in 1 .. Len(t) : t[i] = s[n + i]
  BY <1>1
<1> HIDE DEF t
<1>3. Wrapped(at + n) \in 0 .. SIZE - 1
  BY Sizes DEF Wrapped
<1>4. ASSUME NEW k \in 1 .. Len(t)
      PROVE  t[k] = pointer[Wrapped(Wrapped(at + n) + k - 1)]
  <2>1. /\ n \in 0 .. SIZE /\ k - 1 \in 0 .. SIZE /\ n + (k - 1) <= SIZE
        /\ n + k \in 1 .. Len(s)
    BY <1>1, <1>2, Sizes
  <2>2. Wrapped(Wrapped(at + n) + (k - 1)) = Wrapped(at + (n + (k - 1)))
    BY <2>1, WrappedTwice
  <2>3. s[n + k] = pointer[Wrapped(at + (n + k) - 1)]
    BY <2>1 DEF Holds
  <2>4. /\ at + (n + k) - 1 = at + (n + (k - 1))
        /\ Wrapped(at + n) + k - 1 = Wrapped(at + n) + (k - 1)
    BY <1>1, <1>3
  <2> QED BY <1>2, <2>2, <2>3, <2>4
<1>5. Holds(pointer, t, Wrapped(at + n))
  BY <1>4 DEF Holds
<1> QED BY <1>2, <1>3, <1>5 DEF t

LEMMA EmptyCopy ==
  ASSUME NEW s \in Seq(Byte), NEW at
  PROVE  /\ CopyOut(at, 0) = << >> /\ SubSeq(s, 1, 0) = << >>
         /\ SubSeq(s, 1, Len(s)) = s /\ SubSeq(s, Len(s) + 1, Len(s)) = << >>
<1>1. CopyOut(at, 0) = << >>
  BY DEF CopyOut
<1>2. SubSeq(s, 1, 0) = << >> /\ SubSeq(s, Len(s) + 1, Len(s)) = << >>
  BY SubSeqEmpty
<1>3. SubSeq(s, 1, Len(s)) = s
  OBVIOUS
<1> QED BY <1>1, <1>2, <1>3

(* In the middle of Ring_Buffer_Read, between its look and its copy. *)
LEMMA MappedInRead ==
  ASSUME Types, RingInv, pc = "r_copy"
  PROVE  /\ Found = size /\ Found \in 0 .. Len(owed) /\ owed \in Seq(Byte)
         /\ InQueue = SubSeq(owed, Found + 1, Len(owed))
         /\ InCall = SubSeq(owed, 1, Found)
<1>1. Settled
  <2>1. pc \notin MidUpdate
    BY DEF MidUpdate, LockedSteps
  <2> QED BY <2>1, SettledIs DEF RingInv
<1>2. /\ owed \in Seq(Byte) /\ Len(owed) \in Nat /\ readIndex \in 0 .. SIZE - 1
      /\ Spans(Len(owed), readMirror, writeMirror, readIndex, writeIndex)
      /\ Holds(pointer, owed, readIndex)
  BY <1>1 DEF Settled, Spans
<1>3. Len(owed) <= READMAX /\ Len(owed) <= SIZE
  <2>1. Len(owed) <= READMAX
    BY <1>2, Budget DEF RingInv
  <2> QED BY <1>2, <2>1, Sizes
<1>4. size \in 0 .. Len(owed)
  BY DEF RingInv, StageInv
<1>5. Found = size /\ Ahead = size /\ Passed = 0
  <2>1. Smaller(READMAX, size) = size
    BY <1>2, <1>3, <1>4, Sizes DEF Smaller
  <2> QED BY <2>1 DEF Found, Ahead, Passed, ReadCount
<1>6. Unread = Len(owed) - size
  <2>1. ReadSide = readMirror /\ WriteSide = writeMirror
    BY DEF ReadSide, WriteSide
  <2>2. LengthOf(readMirror, writeMirror, readIndex, writeIndex) = Len(owed)
    BY <1>2, SpanLength
  <2> QED BY <1>2, <1>4, <1>5, <2>1, <2>2 DEF Unread
<1> DEFINE rest == SubSeq(owed, size + 1, Len(owed))
           at   == Wrapped(readIndex + size)
<1>7. /\ rest \in Seq(Byte) /\ Len(rest) = Len(owed) - size
      /\ at \in 0 .. SIZE - 1 /\ Holds(pointer, rest, at)
  BY <1>2, <1>3, <1>4, HoldsBehind
<1>8. (readIndex + size) % SIZE = at
  <2>1. size \in 0 .. SIZE
    BY <1>2, <1>3, <1>4, Sizes
  <2> QED BY <1>2, <2>1, Remainder
<1> HIDE DEF rest, at
<1>9. CopyOut(at, Len(rest)) = rest
  <2>1. Len(rest) \in 0 .. Len(rest) /\ Len(rest) <= SIZE
    BY <1>2, <1>3, <1>4, <1>7, Sizes
  <2>2. CopyOut(at, Len(rest)) = SubSeq(rest, 1, Len(rest))
    BY <1>7, <2>1, CopyOutHeld
  <2> QED BY <1>7, <2>2, EmptyCopy
<1>10. InQueue = rest
  BY <1>5, <1>6, <1>7, <1>8, <1>9 DEF InQueue
<1>11. InCall = SubSeq(owed, 1, size)
  <2>1. CopyOut(readIndex, size) = SubSeq(owed, 1, size)
    BY <1>2, <1>3, <1>4, CopyOutHeld
  <2> QED BY <1>5, <2>1 DEF InCall
<1> QED BY <1>2, <1>4, <1>5, <1>10, <1>11 DEF rest

(* Everywhere else, an index or a mirror half stored or not. *)
LEMMA MappedElsewhere ==
  ASSUME Types, RingInv, pc # "r_copy"
  PROVE  owed \in Seq(Byte) /\ InQueue = owed /\ InCall = << >>
<1>1. owed \in Seq(Byte) /\ Len(owed) \in Nat
  BY DEF RingInv, MemoryInv
<1>2. Found = 0 /\ Ahead = Taken
  BY DEF Found, Ahead, Taken
<1>3. Taken \in Nat /\ Passed \in Nat
  BY Sizes DEF Taken, Passed, Types
<1>4. Spans(Taken + Len(owed) + Passed, ReadSide, WriteSide, readIndex, writeIndex)
  BY DEF RingInv, IndexInv
<1>5. readIndex \in 0 .. SIZE - 1 /\ Taken + Len(owed) + Passed <= SIZE
  BY <1>1, <1>3, <1>4 DEF Spans
<1>6. Unread = Len(owed)
  <2>1. LengthOf(ReadSide, WriteSide, readIndex, writeIndex) = Taken + Len(owed) + Passed
    BY <1>4, SpanLength
  <2> QED BY <1>1, <1>2, <1>3, <2>1 DEF Unread
<1> DEFINE at == Wrapped(readIndex + Taken)
<1>7. (readIndex + Taken) % SIZE = at /\ at \in 0 .. SIZE - 1
  <2>1. Taken \in 0 .. SIZE
    BY <1>1, <1>3, <1>5, Sizes
  <2>2. at \in 0 .. SIZE - 1
    BY <1>5, <2>1, Sizes DEF Wrapped
  <2> QED BY <1>5, <2>1, <2>2, Remainder
<1>8. Holds(pointer, owed, at)
  <2>1. InHand \in Seq(Byte)
    <3>1. seq.frame \in Nat /\ FRAME \in Nat
      BY Sizes DEF Types
    <3>2. Block("frame", seq.frame, FRAME) \in Seq(Byte)
      BY <3>1, Blocks
    <3> QED BY <3>2 DEF InHand
  <2>2. /\ Len(owed \o InHand) = Len(owed) + Len(InHand) /\ Len(InHand) \in Nat
        /\ \A i \in 1 .. Len(owed) : (owed \o InHand)[i] = owed[i]
    BY <1>1, <2>1, Joined
  <2>3. Holds(pointer, owed \o InHand, at)
    BY DEF RingInv, MemoryInv
  <2> HIDE DEF at
  <2>4. \A k \in 1 .. Len(owed) : k \in 1 .. Len(owed \o InHand)
    BY <1>1, <2>2
  <2> QED BY <2>2, <2>3, <2>4 DEF Holds
<1> HIDE DEF at
<1>9. CopyOut(at, Len(owed)) = owed
  <2>1. Len(owed) \in 0 .. Len(owed) /\ Len(owed) <= SIZE
    BY <1>1, <1>3, <1>5, Sizes
  <2>2. CopyOut(at, Len(owed)) = SubSeq(owed, 1, Len(owed))
    BY <1>1, <1>7, <1>8, <2>1, CopyOutHeld
  <2> QED BY <1>1, <2>2, EmptyCopy
<1>10. InQueue = owed
  BY <1>2, <1>6, <1>7, <1>9 DEF InQueue
<1>11. InCall = << >>
  BY <1>1, <1>2, EmptyCopy DEF InCall
<1> QED BY <1>1, <1>10, <1>11

(* The queue's blocks and the room in it are those of the ring. *)
LEMMA SameBlocks ==
  ASSUME NEW kind, NEW n, NEW len
  PROVE  Mailbox!Block(kind, n, len) = Block(kind, n, len)
BY DEF Mailbox!Block, Block

(* How the two parts of the queue lie in what is owed. *)
Split ==
  /\ owed \in Seq(Byte) /\ Len(owed) \in Nat /\ Found \in 0 .. Len(owed)
  /\ InQueue = SubSeq(owed, Found + 1, Len(owed)) /\ InCall = SubSeq(owed, 1, Found)
  /\ Found # 0 => pc = "r_copy" /\ Found = size
  /\ Found = 0 => InQueue = owed /\ InCall = << >>
  /\ Len(InCall) = Found /\ Len(InCall) + Len(InQueue) = Len(owed)

LEMMA Mapped == Types /\ RingInv => Split
<1> SUFFICES ASSUME Types, RingInv PROVE Split
  OBVIOUS
<1>1. CASE pc = "r_copy"
  <2>1. /\ Found = size /\ Found \in 0 .. Len(owed) /\ owed \in Seq(Byte)
        /\ InQueue = SubSeq(owed, Found + 1, Len(owed))
        /\ InCall = SubSeq(owed, 1, Found)
    BY <1>1, MappedInRead
  <2>2. Len(owed) \in Nat
    BY <2>1
  <2>3. Found = 0 => InQueue = owed /\ InCall = << >>
    BY <2>1, EmptyCopy
  <2>4. Len(SubSeq(owed, Found + 1, Len(owed))) = Len(owed) - Found
        /\ Len(SubSeq(owed, 1, Found)) = Found
    BY <2>1, <2>2
  <2>5. Len(InCall) = Found /\ Len(InQueue) = Len(owed) - Found
    BY <2>1, <2>4
  <2>6. Len(InCall) + Len(InQueue) = Len(owed)
    <3> DEFINE n == Len(owed)
    <3>1. n \in Nat /\ Found \in 0 .. n /\ Len(InCall) = Found /\ Len(InQueue) = n - Found
      BY <2>1, <2>2, <2>5
    <3> HIDE DEF n
    <3>2. Len(InCall) + Len(InQueue) = n
      BY <3>1
    <3> QED BY <3>2 DEF n
  <2> QED BY <1>1, <2>1, <2>2, <2>3, <2>5, <2>6 DEF Split
<1>2. CASE pc # "r_copy"
  <2>1. owed \in Seq(Byte) /\ InQueue = owed /\ InCall = << >>
    BY <1>2, MappedElsewhere
  <2>2. Len(owed) \in Nat /\ Found = 0
    BY <1>2, <2>1 DEF Found
  <2>3. SubSeq(owed, 1, 0) = << >> /\ SubSeq(owed, 1, Len(owed)) = owed
    BY <2>1, EmptyCopy
  <2>4. Len(InCall) = 0 /\ Len(InQueue) = Len(owed)
    BY <2>1
  <2> QED BY <2>1, <2>2, <2>3, <2>4 DEF Split
<1> QED BY <1>1, <1>2

LEMMA MappedAfter == (Types /\ RingInv => Split)'
BY Mapped, PTL

(* A step that accepts nothing and takes nothing is none of the queue's. *)
LEMMA QueueStays ==
  ASSUME Split, Split', owed' = owed, Found' = Found
  PROVE  InQueue' = InQueue /\ InCall' = InCall
BY DEF Split

(* What is appended to a sequence is appended to its tail. *)
LEMMA TailGrows ==
  ASSUME NEW s \in Seq(Byte), NEW t \in Seq(Byte), NEW f \in 0 .. Len(s)
  PROVE  /\ SubSeq(s \o t, f + 1, Len(s \o t)) = SubSeq(s, f + 1, Len(s)) \o t
         /\ SubSeq(s \o t, 1, f) = SubSeq(s, 1, f)
<1> DEFINE u == s \o t
           n == Len(s)
           k == Len(t)
           l == SubSeq(u, f + 1, n + k)
           r == SubSeq(s, f + 1, n)
<1>1. n \in Nat /\ k \in Nat /\ f \in Nat /\ f <= n
  OBVIOUS
<1>2. /\ u \in Seq(Byte) /\ Len(u) = n + k
      /\ \A i \in 1 .. n : u[i] = s[i]
      /\ \A i \in n + 1 .. n + k : u[i] = t[i - n]
  BY Joined
<1>3. r \in Seq(Byte) /\ Len(r) = n - f /\ \A i \in 1 .. n - f : r[i] = s[f + i]
  BY <1>1
<1> HIDE DEF u
<1>4. l \in Seq(Byte) /\ Len(l) = n + k - f /\ \A i \in 1 .. n + k - f : l[i] = u[f + i]
  BY <1>1, <1>2
<1>5. SubSeq(u, 1, f) = SubSeq(s, 1, f)
  <2>1. SubSeq(u, 1, f) = [i \in 1 .. f |-> u[i]] /\ SubSeq(s, 1, f) = [i \in 1 .. f |-> s[i]]
    BY <1>1
  <2>2. \A i \in 1 .. f : i \in 1 .. n
    BY <1>1
  <2> HIDE DEF n
  <2> QED BY <1>2, <2>1, <2>2
<1> HIDE DEF l, r
<1>6. /\ r \o t \in Seq(Byte) /\ Len(r \o t) = (n - f) + k
      /\ \A i \in 1 .. n - f : (r \o t)[i] = r[i]
      /\ \A i \in n - f + 1 .. (n - f) + k : (r \o t)[i] = t[i - (n - f)]
  <2>1. /\ r \o t \in Seq(Byte) /\ Len(r \o t) = Len(r) + Len(t)
        /\ \A i \in 1 .. Len(r) : (r \o t)[i] = r[i]
        /\ \A i \in Len(r) + 1 .. Len(r) + Len(t) : (r \o t)[i] = t[i - Len(r)]
    BY <1>3, Joined
  <2>2. Len(r) = n - f /\ Len(t) = k
    BY <1>3
  <2> HIDE DEF n, k
  <2> QED BY <2>1, <2>2
<1> HIDE DEF n, k
<1>7. ASSUME NEW i \in 1 .. n + k - f
      PROVE  l[i] = (r \o t)[i]
  <2>1. CASE i <= n - f
    <3>1. f + i \in 1 .. n /\ i \in 1 .. n - f
      BY <1>1, <2>1
    <3>2. l[i] = s[f + i]
      BY <1>2, <1>4, <3>1
    <3>3. (r \o t)[i] = s[f + i]
      BY <1>3, <1>6, <3>1
    <3> QED BY <3>2, <3>3
  <2>2. CASE i > n - f
    <3>1. /\ f + i \in n + 1 .. n + k /\ i \in n - f + 1 .. (n - f) + k
          /\ (f + i) - n = i - (n - f)
      BY <1>1, <2>2
    <3>2. l[i] = t[(f + i) - n]
      BY <1>2, <1>4, <3>1
    <3>3. (r \o t)[i] = t[i - (n - f)]
      BY <1>6, <3>1
    <3> QED BY <3>1, <3>2, <3>3
  <2>3. i <= n - f \/ i > n - f
    BY <1>1
  <2> QED BY <2>1, <2>2, <2>3
<1>8. Len(l) = Len(r \o t) /\ Len(l) = n + k - f
  BY <1>1, <1>4, <1>6
<1>9. l = r \o t
  <2>1. \A i \in 1 .. Len(l) : l[i] = (r \o t)[i]
    BY <1>7, <1>8
  <2>2. l \in Seq(Byte) /\ r \o t \in Seq(Byte)
    BY <1>4, <1>6
  <2> QED BY <1>8, <2>1, <2>2, SeqEqual
<1>10. SubSeq(u, f + 1, Len(u)) = r \o t
  BY <1>2, <1>9 DEF l
<1> QED BY <1>5, <1>10 DEF u, r, n

(* What is appended to what is owed is appended to the queue, whatever a   *)
(* read has already found.                                                 *)
LEMMA QueueGrows ==
  ASSUME Split, Split', NEW block \in Seq(Byte), owed' = owed \o block, Found' = Found
  PROVE  InQueue' = InQueue \o block /\ InCall' = InCall
<1>1. /\ owed \in Seq(Byte) /\ Found \in 0 .. Len(owed)
      /\ InQueue = SubSeq(owed, Found + 1, Len(owed)) /\ InCall = SubSeq(owed, 1, Found)
  BY DEF Split
<1>2. /\ InQueue' = SubSeq(owed \o block, Found + 1, Len(owed \o block))
      /\ InCall' = SubSeq(owed \o block, 1, Found)
  BY DEF Split
<1> QED BY <1>1, <1>2, TailGrows
(* Where the main loop only looks, copies in, or catches its index up.     *)
LEMMA QueueQuiet ==
  ASSUME Types, RingInv, Split, Split',
         \/ NoFrame \/ WriteFrame \/ WriteLoadIndices \/ WriteCopy \/ ReadOut
         \/ ReadCopy /\ size = 0
         \/ WriteAdvance /\ size <= length
         \/ ReadAdvance \/ ReadFlip
  PROVE  InQueue' = InQueue /\ InCall' = InCall /\ seq' = seq
<1>1. owed' = owed /\ seq' = seq /\ pc' # "r_copy" /\ (pc = "r_copy" => size = 0)
  <2>1. CASE NoFrame \/ WriteFrame \/ ReadOut
    BY <2>1 DEF NoFrame, WriteFrame, ReadOut, LoadMirrors, ghosts
  <2>2. CASE WriteLoadIndices
    BY <2>2 DEF WriteLoadIndices, ghosts
  <2>3. CASE WriteCopy
    <3>1. pc = "w_copy" /\ size # 0
      BY <2>3, Sizes DEF WriteCopy, RingInv, StageInv
    <3> QED BY <2>3, <3>1 DEF WriteCopy
  <2>4. CASE ReadCopy /\ size = 0
    BY <2>4 DEF ReadCopy, ghosts
  <2>5. CASE WriteAdvance /\ size <= length
    BY <2>5 DEF WriteAdvance, Types
  <2>6. CASE ReadAdvance \/ ReadFlip
    BY <2>6 DEF ReadAdvance, ReadFlip, ghosts
  <2> QED BY <2>1, <2>2, <2>3, <2>4, <2>5, <2>6
<1>2. ReadCount(0) = 0
  BY Sizes DEF ReadCount, Smaller
<1>3. Found = 0 /\ Found' = 0
  BY <1>1, <1>2 DEF Found
<1> QED BY <1>1, <1>3, QueueStays

(* The return of Ring_Buffer_Write is where a frame joins the queue.       *)
LEMMA QueueFrame ==
  ASSUME Types, RingInv, Split, Split', pc \in {"w_advance", "w_flip"}, FrameWritten(length)
  PROVE  Mailbox!PutFrame
<1> DEFINE block == Block("frame", seq.frame, FRAME)
<1>1. /\ length = FRAME /\ owed' = owed \o block /\ pc' = "loop"
      /\ seq' = [seq EXCEPT !.frame = 1 - @]
  BY DEF FrameWritten, RingInv, StageInv
<1>2. Found = 0 /\ Found' = 0
  BY <1>1 DEF Found
<1>3. block \in Seq(Byte)
  <2>1. seq.frame \in Nat /\ FRAME \in Nat
    BY Sizes DEF Types
  <2> QED BY <2>1, Blocks
<1> HIDE DEF block
<1>4. InQueue' = InQueue \o block /\ InCall' = InCall
  BY <1>1, <1>2, <1>3, QueueGrows
<1>5. InCall = << >>
  BY <1>2 DEF Split
<1>6. Mailbox!RoomFor(FRAME)
  <2>1. owed \in Seq(Byte) /\ turn < TASKS
    BY DEF Split, Types, Writing
  <2>2. Len(owed) + FRAME <= READMAX
    BY <2>1, Budget DEF RingInv
  <2>3. Len(InCall) + Len(InQueue) = Len(owed)
    BY DEF Split
  <2> QED BY <2>2, <2>3 DEF Mailbox!RoomFor
<1>7. block = Mailbox!Block("frame", seq.frame, FRAME)
  BY SameBlocks DEF block
<1> QED BY <1>1, <1>4, <1>5, <1>6, <1>7 DEF Mailbox!PutFrame

(* The two loads of Get_Length are where a read takes the queue: it finds  *)
(* all there is.                                                           *)
LEMMA QueueTaken ==
  ASSUME Types, RingInv, Split, Split', ReadLoadIndices
  PROVE  Mailbox!TakeAll \/ (InQueue' = InQueue /\ InCall' = InCall /\ seq' = seq)
<1>1. /\ pc = "r_indices" /\ pc' = "r_copy" /\ owed' = owed /\ seq' = seq
      /\ size' = LengthOf(mirrors[1], mirrors[2], readIndex, writeIndex)
  BY DEF ReadLoadIndices, ghosts
<1>2. size' = Len(owed)
  <2>1. Settled
    <3>1. pc \notin MidUpdate
      BY <1>1 DEF MidUpdate, LockedSteps
    <3> QED BY <3>1, SettledIs DEF RingInv
  <2>2. mirrors[1] = readMirror /\ mirrors[2] = writeMirror
    BY <1>1 DEF RingInv, StageInv
  <2> QED BY <1>1, <2>1, <2>2, SpanLength DEF Settled
<1>3. owed \in Seq(Byte) /\ Len(owed) \in Nat /\ Len(owed) <= READMAX
  <2>1. owed \in Seq(Byte)
    BY DEF Split
  <2> QED BY <1>1, <2>1, Budget DEF RingInv
<1>4. Found = 0 /\ Found' = Len(owed)
  BY <1>1, <1>2, <1>3, Sizes DEF Found, ReadCount, Smaller
<1>5. InQueue = owed /\ InCall = << >>
  BY <1>4 DEF Split
<1>6. InQueue' = << >> /\ InCall' = owed
  BY <1>1, <1>3, <1>4, EmptyCopy DEF Split
<1>7. CASE owed = << >>
  BY <1>1, <1>5, <1>6, <1>7
<1>8. CASE owed # << >>
  BY <1>1, <1>5, <1>6, <1>8 DEF Mailbox!TakeAll
<1> QED BY <1>7, <1>8

(* The copy is where it hands out what it found. *)
LEMMA QueueGiven ==
  ASSUME Types, RingInv, Split, Split', ReadCopy, size # 0
  PROVE  Mailbox!HandOut
<1>1. /\ pc = "r_copy" /\ pc' = "r_advance" /\ length' = ReadCount(size) /\ seq' = seq
      /\ owed' = SubSeq(owed, length' + 1, Len(owed))
  BY DEF ReadCopy
<1>2. length' = Found /\ Found' = 0
  BY <1>1 DEF Found
<1>3. owed \in Seq(Byte) /\ Len(owed) \in Nat /\ Len(owed) <= READMAX
  <2>1. owed \in Seq(Byte)
    BY DEF Split
  <2> QED BY <1>1, <2>1, Budget DEF RingInv
<1>4. Found # 0
  <2>1. size \in 0 .. Len(owed)
    BY <1>1 DEF RingInv, StageInv
  <2> QED BY <1>1, <1>3, <2>1, Sizes DEF Found, ReadCount, Smaller
<1>5. InQueue' = InQueue /\ InCall' = << >>
  BY <1>1, <1>2 DEF Split
<1>6. InCall # << >>
  BY <1>4 DEF Split
<1> QED BY <1>1, <1>5, <1>6 DEF Mailbox!HandOut

(* An interrupt where the lock would let it in puts its reply behind what  *)
(* there is, and leaves alone what a read has found.                       *)
LEMMA QueueReply ==
  ASSUME Types, RingInv, Split, Split', BulkOutReply, pc \notin LockedSteps
  PROVE  Mailbox!PutReply
<1> DEFINE block == Block("reply", seq.reply, REPLY)
<1>1. /\ pc' = pc /\ size' = size /\ HostMayAsk /\ seq' = [seq EXCEPT !.reply = 1 - @]
      /\ pc \notin MidUpdate /\ pc \notin {"r_advance", "r_flip"}
  BY DEF BulkOutReply, locals, MidUpdate, LockedSteps
<1>2. owed \in Seq(Byte) /\ Len(owed) \in Nat /\ Len(owed) + REPLY <= READMAX
  <2>1. owed \in Seq(Byte) /\ Len(owed) \in Nat
    BY DEF Split
  <2> QED BY <1>1, <2>1, Budget DEF RingInv
<1>3. owed' = owed \o block
  <2>1. Settled
    BY <1>1, SettledIs DEF RingInv
  <2>2. SpaceOf(readMirror, writeMirror, readIndex, writeIndex) = SIZE - Len(owed)
    BY <2>1, SpanLength DEF Settled
  <2>3. Smaller(REPLY, SIZE - Len(owed)) = REPLY
    BY <1>2, Sizes DEF Smaller
  <2> QED BY <2>2, <2>3 DEF BulkOutReply
<1>4. Found' = Found
  BY <1>1 DEF Found
<1>5. block \in Seq(Byte)
  <2>1. seq.reply \in Nat /\ REPLY \in Nat
    BY Sizes DEF Types
  <2> QED BY <2>1, Blocks
<1> HIDE DEF block
<1>6. InQueue' = InQueue \o block /\ InCall' = InCall
  BY <1>3, <1>4, <1>5, QueueGrows
<1>7. Mailbox!RoomFor(REPLY)
  BY <1>2 DEF Split, Mailbox!RoomFor
<1>8. block = Mailbox!Block("reply", seq.reply, REPLY)
  BY SameBlocks DEF block
<1> QED BY <1>1, <1>6, <1>7, <1>8 DEF Mailbox!PutReply

LEMMA QueueStep ==
  TxInv /\ TxInv' /\ ~ Raced' /\ [Next]_vars => [Mailbox!Next]_<<InQueue, InCall, seq>>
<1> SUFFICES ASSUME TxInv, TxInv', ~ Raced', [Next]_vars
             PROVE  Mailbox!Next \/ (InQueue' = InQueue /\ InCall' = InCall /\ seq' = seq)
  OBVIOUS
<1>1. Types /\ Types' /\ RingInv' /\ damage \subseteq damage'
  <2>1. damage \subseteq damage'
    BY DEF Next, Undefined, Main, NoFrame, WriteFrame, WriteLoadIndices, WriteCopy,
           WriteAdvance, WriteFlip, ReadOut, ReadLoadIndices, ReadCopy, ReadAdvance,
           ReadFlip, LoadMirrors, BulkOutReply, vars, ghosts
  <2> QED BY <2>1 DEF TxInv
<1>2. RingInv
  BY <1>1 DEF TxInv, Raced
<1>3. Split /\ Split'
  BY <1>1, <1>2, Mapped, MappedAfter
<1>4. CASE \/ NoFrame \/ WriteFrame \/ WriteLoadIndices \/ WriteCopy \/ ReadOut
           \/ ReadCopy /\ size = 0
           \/ WriteAdvance /\ size <= length
           \/ ReadAdvance \/ ReadFlip
  BY <1>1, <1>2, <1>3, <1>4, QueueQuiet
<1>5. CASE WriteAdvance /\ size > length
  <2>1. pc = "w_advance" /\ FrameWritten(length)
    BY <1>1, <1>5 DEF WriteAdvance, Types
  <2> QED BY <1>1, <1>2, <1>3, <2>1, QueueFrame DEF Mailbox!Next
<1>6. CASE WriteFlip
  <2>1. pc = "w_flip" /\ FrameWritten(length)
    BY <1>6 DEF WriteFlip
  <2> QED BY <1>1, <1>2, <1>3, <2>1, QueueFrame DEF Mailbox!Next
<1>7. CASE ReadLoadIndices
  BY <1>1, <1>2, <1>3, <1>7, QueueTaken DEF Mailbox!Next
<1>8. CASE ReadCopy /\ size # 0
  BY <1>1, <1>2, <1>3, <1>8, QueueGiven DEF Mailbox!Next
<1>9. CASE BulkOutReply
  <2>1. pc \notin LockedSteps
    BY <1>9 DEF BulkOutReply, Raced
  <2> QED BY <1>1, <1>2, <1>3, <1>9, <2>1, QueueReply DEF Mailbox!Next
<1>10. CASE UNCHANGED vars
  <2>1. owed' = owed /\ seq' = seq /\ Found' = Found
    BY <1>10 DEF vars, locals, ghosts, Found
  <2> QED BY <1>3, <2>1, QueueStays
<1>11. WriteAdvance => size <= length \/ size > length
  BY DEF WriteAdvance
<1> QED BY <1>4, <1>5, <1>6, <1>7, <1>8, <1>9, <1>10, <1>11 DEF Next, Undefined, Main

LEMMA QueueInit == Init => Mailbox!Init
<1> SUFFICES ASSUME Init PROVE Mailbox!Init
  OBVIOUS
<1>1. Types /\ RingInv
  BY TypesInit, RingInit
<1>2. Split
  BY <1>1, Mapped
<1>3. Found = 0 /\ owed = << >> /\ seq = [frame |-> 0, reply |-> 0]
  BY DEF Init, Found
<1> QED BY <1>2, <1>3 DEF Split, Mailbox!Init

(* task_data_out, the bulk OUT callback and usb_dc_send_from_ringbuffer    *)
(* see a queue of whole blocks in usb_tx_rb, though the calls of the main  *)
(* loop are interrupted anywhere but where the lock would hold the         *)
(* interrupt off.                                                          *)
THEOREM WholeBlocks == Spec => WholeBlocksUnlessRaced
<1>1. Init => Mailbox!Init
  BY QueueInit
<1>2. TxInv /\ TxInv' /\ [Next]_vars
        => [Mailbox!Next \/ "raced" \in damage']_<<InQueue, InCall, seq>>
  BY QueueStep DEF Raced
<1> QED BY <1>1, <1>2, RingInvariant, PTL DEF Spec, WholeBlocksUnlessRaced

(* A build with USE_LOCK_RNG implements the queue without exception, with  *)
(* replies written in the middle of Ring_Buffer_Write and Ring_Buffer_Read.*)
THEOREM LockedIsQueue == Spec /\ USE_LOCK_RNG => Mailbox!Spec
<1>1. Init => Mailbox!Init
  BY QueueInit
<1>2. USE_LOCK_RNG /\ [Next]_vars => USE_LOCK_RNG'
  BY SameBuild
<1>3. TxInv /\ TxInv' /\ ~ Raced' /\ [Next]_vars => [Mailbox!Next]_<<InQueue, InCall, seq>>
  BY QueueStep
<1> QED BY <1>1, <1>2, <1>3, NeverRaced, RingInvariant, PTL DEF Spec, Mailbox!Spec
==============================================================================
