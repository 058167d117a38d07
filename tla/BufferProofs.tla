------------------------------ MODULE BufferProofs ------------------------------
(***************************************************************************)
(* Proofs about Buffer for any sizes and any number of bytes.              *)
(***************************************************************************)
EXTENDS Buffer, TLAPS

USE SizeAssumption

-------------------------------------------------------------------------------
(***************************************************************************)
(* The operations on a buffer that holds the bytes first .. last.          *)
(***************************************************************************)

\* The facts about a well-formed buffer that the lemmas below reason from.
LEMMA WellFormedFacts ==
  ASSUME NEW b, WellFormed(b)
  PROVE  /\ b.size \in Nat /\ b.bytes \in [0 .. b.size - 1 -> Nat]
         /\ b.reader \in Nat /\ b.writer \in Nat
         /\ kCheapPrepend <= b.reader /\ b.reader <= b.writer /\ b.writer <= b.size
         /\ readableBytes(b) = b.writer - b.reader
         /\ writableBytes(b) = b.size - b.writer
BY DEF WellFormed, readableBytes, writableBytes

\* Moving the readable bytes down leaves a well-formed buffer ...
LEMMA MoveDownWellFormed ==
  ASSUME NEW b, WellFormed(b)
  PROVE  /\ WellFormed(MoveDown(b))
         /\ MoveDown(b).size = b.size
         /\ MoveDown(b).writer = kCheapPrepend + readableBytes(b)
<1> DEFINE m == MoveDown(b)
<1>1. /\ m.reader = kCheapPrepend /\ m.writer = kCheapPrepend + readableBytes(b)
      /\ m.size = b.size
      /\ m.bytes = [i \in 0 .. b.size - 1 |->
                      IF i \in kCheapPrepend .. kCheapPrepend + readableBytes(b) - 1
                      THEN b.bytes[b.reader + i - kCheapPrepend] ELSE b.bytes[i]]
  BY DEF MoveDown
<1> HIDE DEF m
<1>2. m.bytes \in [0 .. b.size - 1 -> Nat]
  <2>1. ASSUME NEW i \in 0 .. b.size - 1
        PROVE  (IF i \in kCheapPrepend .. kCheapPrepend + readableBytes(b) - 1
                THEN b.bytes[b.reader + i - kCheapPrepend] ELSE b.bytes[i]) \in Nat
    <3>1. b.bytes[i] \in Nat
      BY WellFormedFacts
    <3>2. CASE i \in kCheapPrepend .. kCheapPrepend + readableBytes(b) - 1
      <4>1. b.reader + i - kCheapPrepend \in 0 .. b.size - 1
        <5>1. /\ b.reader \in Nat /\ b.writer \in Nat /\ b.size \in Nat /\ kCheapPrepend \in Nat
              /\ kCheapPrepend <= b.reader /\ b.writer <= b.size
          BY WellFormedFacts
        <5>2. QED
          BY <3>2, <5>1 DEF readableBytes
      <4>2. b.bytes[b.reader + i - kCheapPrepend] \in Nat
        BY <4>1, WellFormedFacts
      <4>3. QED
        BY <3>2, <4>2
    <3>3. QED
      BY <3>1, <3>2
  <2>2. QED
    BY <1>1, <2>1, Zenon
<1>3. WellFormed(m)
  BY <1>1, <1>2, WellFormedFacts DEF WellFormed
<1>4. QED
  BY <1>1, <1>3 DEF m

\* ... that holds the same bytes.
LEMMA MoveDownHolds ==
  ASSUME NEW b, WellFormed(b), NEW first \in Nat, NEW last \in Int,
         Holds(b, first, last)
  PROVE  Holds(MoveDown(b), first, last)
<1>1. /\ last = first + readableBytes(b) - 1
      /\ \A i \in b.reader .. b.writer - 1 : b.bytes[i] = first + i - b.reader
  BY DEF Holds
<1>2. \A i \in kCheapPrepend .. kCheapPrepend + readableBytes(b) - 1 :
        MoveDown(b).bytes[i] = b.bytes[b.reader + i - kCheapPrepend]
  <2> TAKE i \in kCheapPrepend .. kCheapPrepend + readableBytes(b) - 1
  <2>1. /\ b.reader \in Nat /\ b.writer \in Nat /\ b.size \in Nat /\ kCheapPrepend \in Nat
        /\ kCheapPrepend <= b.reader /\ b.writer <= b.size
    BY WellFormedFacts
  <2>2. i \in 0 .. b.size - 1
    BY <2>1 DEF readableBytes
  <2>3. QED
    BY <2>2 DEF MoveDown
<1>3. \A i \in kCheapPrepend .. kCheapPrepend + readableBytes(b) - 1 :
        MoveDown(b).bytes[i] = first + i - kCheapPrepend
  <2> TAKE i \in kCheapPrepend .. kCheapPrepend + readableBytes(b) - 1
  <2> DEFINE j == b.reader + i - kCheapPrepend
  <2>1. j \in b.reader .. b.writer - 1 /\ first + j - b.reader = first + i - kCheapPrepend
    BY WellFormedFacts
  <2>2. MoveDown(b).bytes[i] = b.bytes[j]
    BY <1>2
  <2> HIDE DEF j
  <2>3. b.bytes[j] = first + j - b.reader
    BY <1>1, <2>1
  <2>4. QED
    BY <2>1, <2>2, <2>3
<1>4. /\ MoveDown(b).reader = kCheapPrepend
      /\ MoveDown(b).writer = kCheapPrepend + readableBytes(b)
  BY DEF MoveDown
<1>5. readableBytes(MoveDown(b)) = readableBytes(b)
  BY <1>4, WellFormedFacts DEF readableBytes
<1>6. ASSUME NEW i \in MoveDown(b).reader .. MoveDown(b).writer - 1
      PROVE  MoveDown(b).bytes[i] = first + i - MoveDown(b).reader
  <2>1. i \in kCheapPrepend .. kCheapPrepend + readableBytes(b) - 1
    <3>1. MoveDown(b).reader .. MoveDown(b).writer - 1
            = kCheapPrepend .. kCheapPrepend + readableBytes(b) - 1
      BY <1>4, WellFormedFacts
    <3>2. QED
      BY <3>1, Zenon
  <2>2. QED
    BY <1>3, <1>4, <2>1, Zenon
<1>7. last = first + readableBytes(MoveDown(b)) - 1
  BY <1>1, <1>5, Zenon
<1>8. QED
  BY <1>6, <1>7, Zenon DEF Holds

\* Growing the vector leaves a well-formed buffer ...
LEMMA ResizeWellFormed ==
  ASSUME NEW b, WellFormed(b), NEW len \in Nat, writableBytes(b) < len
  PROVE  WellFormed(Resize(b, len)) /\ writableBytes(Resize(b, len)) = len
<1> DEFINE m == Resize(b, len)
<1>1. /\ m.reader = b.reader /\ m.writer = b.writer
      /\ m.size = b.writer + len
      /\ m.bytes = [i \in 0 .. b.writer + len - 1 |->
                      IF i < b.size THEN b.bytes[i] ELSE 0]
  BY DEF Resize
<1> HIDE DEF m
<1>2. m.bytes \in [0 .. b.writer + len - 1 -> Nat]
  <2>1. ASSUME NEW i \in 0 .. b.writer + len - 1
        PROVE  (IF i < b.size THEN b.bytes[i] ELSE 0) \in Nat
    BY WellFormedFacts
  <2>2. QED
    BY <1>1, <2>1, Zenon
<1>3. WellFormed(m)
  <2>1. /\ b.writer + len \in Nat
        /\ b.writer \in kCheapPrepend .. b.writer + len
        /\ b.reader \in kCheapPrepend .. b.writer
    BY WellFormedFacts
  <2>2. /\ m.size \in Nat /\ m.bytes \in [0 .. m.size - 1 -> Nat]
        /\ m.writer \in kCheapPrepend .. m.size
        /\ m.reader \in kCheapPrepend .. m.writer
    <3>1. m.size \in Nat /\ m.writer \in kCheapPrepend .. m.size
      BY <1>1, <2>1, Zenon
    <3>2. m.bytes \in [0 .. m.size - 1 -> Nat]
      <4>1. m.size = b.writer + len /\ b.writer \in Nat
        BY <1>1, WellFormedFacts
      <4>2. 0 .. m.size - 1 = 0 .. b.writer + len - 1
        BY <4>1
      <4>3. QED
        BY <1>2, <4>2, Zenon
    <3>3. m.reader \in kCheapPrepend .. m.writer
      BY <1>1, <2>1, Zenon
    <3>4. QED
      BY <3>1, <3>2, <3>3, Zenon
  <2>3. QED
    BY <2>2, Zenon DEF WellFormed
<1>4. writableBytes(m) = len
  BY <1>1, WellFormedFacts DEF writableBytes
<1>5. QED
  BY <1>3, <1>4 DEF m

\* ... that holds the same bytes.
LEMMA ResizeHolds ==
  ASSUME NEW b, WellFormed(b), NEW first \in Nat, NEW last \in Int,
         Holds(b, first, last), NEW len \in Nat, writableBytes(b) < len
  PROVE  Holds(Resize(b, len), first, last)
<1>1. \A i \in b.reader .. b.writer - 1 : Resize(b, len).bytes[i] = b.bytes[i]
  BY WellFormedFacts DEF Resize
<1>2. Resize(b, len).reader = b.reader /\ Resize(b, len).writer = b.writer
  BY DEF Resize
<1>3. QED
  BY <1>1, <1>2 DEF Holds, readableBytes

\* ensureWriteableBytes keeps the readable bytes and makes the space it promises.
LEMMA EnsureCorrect ==
  ASSUME NEW b, WellFormed(b), NEW first \in Nat, NEW last \in Int,
         Holds(b, first, last), NEW len \in Nat
  PROVE  LET e == ensureWriteableBytes(b, len)
         IN  WellFormed(e) /\ Holds(e, first, last) /\ writableBytes(e) >= len
<1>1. CASE writableBytes(b) >= len
  BY <1>1 DEF ensureWriteableBytes
<1>2. CASE writableBytes(b) < len /\ Fits(b, len)
  <2>1. writableBytes(MoveDown(b)) >= len
    <3>1. /\ MoveDown(b).size = b.size
          /\ MoveDown(b).writer = kCheapPrepend + readableBytes(b)
      BY MoveDownWellFormed
    <3>2. QED
      BY <1>2, <3>1
         DEF Fits, WellFormed, readableBytes, writableBytes, prependableBytes
  <2>2. ensureWriteableBytes(b, len) = MoveDown(b)
    BY <1>2 DEF ensureWriteableBytes, WellFormed, writableBytes
  <2>3. QED
    BY <2>1, <2>2, MoveDownWellFormed, MoveDownHolds
<1>3. CASE writableBytes(b) < len /\ ~Fits(b, len)
  <2>1. ensureWriteableBytes(b, len) = Resize(b, len)
    BY <1>3 DEF ensureWriteableBytes, WellFormed, writableBytes
  <2>2. QED
    BY <1>3, <2>1, ResizeWellFormed, ResizeHolds
<1>4. QED
  BY <1>1, <1>2, <1>3 DEF WellFormed, writableBytes

\* Storing bytes where there is space for them leaves a well-formed buffer ...
LEMMA StoreWellFormed ==
  ASSUME NEW b, WellFormed(b), NEW next \in Nat, NEW len \in Nat,
         writableBytes(b) >= len
  PROVE  WellFormed(Store(b, next, len))
<1> DEFINE m == Store(b, next, len)
<1>1. /\ m.reader = b.reader /\ m.writer = b.writer + len
      /\ m.size = b.size
      /\ m.bytes = [i \in 0 .. b.size - 1 |->
                      IF i \in b.writer .. b.writer + len - 1
                      THEN next + i - b.writer ELSE b.bytes[i]]
  BY DEF Store
<1> HIDE DEF m
<1>2. m.bytes \in [0 .. b.size - 1 -> Nat]
  <2>1. ASSUME NEW i \in 0 .. b.size - 1
        PROVE  (IF i \in b.writer .. b.writer + len - 1
                THEN next + i - b.writer ELSE b.bytes[i]) \in Nat
    <3>1. b.bytes[i] \in Nat
      BY WellFormedFacts
    <3>2. CASE i \in b.writer .. b.writer + len - 1
      <4>1. next + i - b.writer \in Nat
        BY <3>2, WellFormedFacts
      <4>2. QED
        BY <3>2, <4>1
    <3>3. QED
      BY <3>1, <3>2
  <2>2. QED
    BY <1>1, <2>1, Zenon
<1>3. WellFormed(m)
  BY <1>1, <1>2, WellFormedFacts DEF WellFormed
<1>4. QED
  BY <1>3 DEF m

\* ... and, if they are the next ones, appends them.
LEMMA StoreHolds ==
  ASSUME NEW b, WellFormed(b), NEW first \in Nat, NEW last \in Nat,
         Holds(b, first, last), NEW len \in Nat, writableBytes(b) >= len
  PROVE  Holds(Store(b, last + 1, len), first, last + len)
<1> DEFINE m == Store(b, last + 1, len)
<1>1. /\ last = first + (b.writer - b.reader) - 1
      /\ b.reader \in Nat /\ b.writer \in Nat /\ b.reader <= b.writer
  BY WellFormedFacts DEF Holds
<1>2. \A i \in b.reader .. b.writer - 1 : b.bytes[i] = first + i - b.reader
  BY DEF Holds
<1> DEFINE stored(i) == IF i \in b.writer .. b.writer + len - 1
                         THEN last + 1 + i - b.writer ELSE b.bytes[i]
<1>3. m.bytes = [i \in 0 .. b.size - 1 |-> stored(i)]
  BY DEF Store
<1>4. b.size \in Nat /\ b.writer <= b.size /\ b.writer + len <= b.size
  BY WellFormedFacts DEF writableBytes
<1>5. \A i \in b.reader .. b.writer - 1 : m.bytes[i] = b.bytes[i]
  <2> TAKE i \in b.reader .. b.writer - 1
  <2>1. i \in 0 .. b.size - 1 /\ i \notin b.writer .. b.writer + len - 1
    BY <1>1, <1>4
  <2>2. QED
    BY <1>3, <2>1
<1>6. \A i \in b.writer .. b.writer + len - 1 : m.bytes[i] = last + 1 + i - b.writer
  <2> TAKE i \in b.writer .. b.writer + len - 1
  <2>1. i \in 0 .. b.size - 1
    BY <1>1, <1>4
  <2>2. QED
    BY <1>3, <2>1
<1>7. m.reader = b.reader /\ m.writer = b.writer + len
  BY DEF Store
<1> HIDE DEF m, stored
<1>8. \A i \in b.reader .. b.writer + len - 1 : m.bytes[i] = first + i - b.reader
  <2> TAKE i \in b.reader .. b.writer + len - 1
  <2>1. CASE i < b.writer
    <3>1. i \in b.reader .. b.writer - 1
      BY <1>1, <2>1
    <3>2. QED
      BY <1>2, <1>5, <3>1
  <2>2. CASE ~(i < b.writer)
    <3>1. i \in b.writer .. b.writer + len - 1
      BY <1>1, <2>2
    <3>2. last + 1 + i - b.writer = first + i - b.reader
      BY <1>1, <3>1
    <3>3. QED
      BY <1>6, <3>1, <3>2
  <2>3. QED
    BY <2>1, <2>2
<1>9. last + len = first + readableBytes(m) - 1
  BY <1>1, <1>7 DEF readableBytes
<1>10. Holds(m, first, last + len)
  <2>1. ASSUME NEW i \in m.reader .. m.writer - 1
        PROVE  m.bytes[i] = first + i - m.reader
    <3>1. i \in b.reader .. b.writer + len - 1
      BY <1>1, <1>7
    <3>2. QED
      BY <1>7, <1>8, <3>1, Zenon
  <2>2. QED
    BY <1>9, <2>1, Zenon DEF Holds
<1>11. QED
  BY <1>10 DEF m

\* append() appends, whatever space there is.
LEMMA AppendedCorrect ==
  ASSUME NEW b, WellFormed(b), NEW first \in Nat, NEW last \in Nat,
         Holds(b, first, last), NEW len \in Nat
  PROVE  /\ WellFormed(appended(b, last + 1, len))
         /\ Holds(appended(b, last + 1, len), first, last + len)
BY EnsureCorrect, StoreWellFormed, StoreHolds DEF appended

\* readFd appends what readv has read, also when it is more than fits.
LEMMA ReceivedCorrect ==
  ASSUME NEW b, WellFormed(b), NEW first \in Nat, NEW last \in Nat,
         Holds(b, first, last), NEW got \in Nat
  PROVE  /\ WellFormed(Received(b, last + 1, got))
         /\ Holds(Received(b, last + 1, got), first, last + got)
<1>1. CASE got <= writableBytes(b)
  BY <1>1, StoreWellFormed, StoreHolds DEF Received
<1>2. CASE ~(got <= writableBytes(b))
  <2> DEFINE w == writableBytes(b)
             full == Store(b, last + 1, w)
  <2>1. w \in Nat /\ got - w \in Nat
    BY <1>2 DEF WellFormed, writableBytes
  <2>2. WellFormed(full) /\ Holds(full, first, last + w)
    BY <2>1, StoreWellFormed, StoreHolds
  <2>3. Received(b, last + 1, got) = appended(full, last + w + 1, got - w)
    <3>1. last + 1 + w = last + w + 1
      BY <2>1
    <3>2. QED
      BY <1>2, <3>1 DEF Received
  <2>4. /\ WellFormed(appended(full, last + w + 1, got - w))
        /\ Holds(appended(full, last + w + 1, got - w), first, last + w + (got - w))
    <3> HIDE DEF w, full
    <3>1. last + w \in Nat
      BY <2>1
    <3>2. QED
      BY <2>1, <2>2, <3>1, AppendedCorrect
  <2>5. last + w + (got - w) = last + got
    BY <2>1
  <2>6. QED
    BY <2>3, <2>4, <2>5
<1>3. QED
  BY <1>1, <1>2

-------------------------------------------------------------------------------
(***************************************************************************)
(* The invariant: TypeOK and Contents are inductive together.              *)
(***************************************************************************)

IInv == TypeOK /\ Contents

\* A new buffer is empty.
LEMMA InitIInv == Init => IInv
<1> SUFFICES ASSUME Init
             PROVE  IInv
  OBVIOUS
<1>1. /\ buffer.reader = kCheapPrepend /\ buffer.writer = kCheapPrepend
      /\ buffer.size = kCheapPrepend + kInitialSize
      /\ buffer.bytes = [i \in 0 .. kCheapPrepend + kInitialSize - 1 |-> 0]
      /\ inbox = 0 /\ eof = FALSE /\ n = -1 /\ produced = 0 /\ consumed = 0
  BY DEF Init
<1>2. WellFormed(buffer)
  BY <1>1 DEF WellFormed
<1>3. Holds(buffer, 1, 0)
  BY <1>1 DEF Holds, readableBytes
<1>4. Contents
  BY <1>1, <1>3 DEF Contents
<1>5. inbox \in Nat /\ n \in Int /\ produced \in Nat /\ consumed \in Nat
  BY <1>1
<1>6. eof \in BOOLEAN
  BY <1>1, Zenon
<1>7. TypeOK
  BY <1>2, <1>5, <1>6, Zenon DEF TypeOK
<1>8. QED
  BY <1>4, <1>7 DEF IInv

\* Each operation keeps the bytes put in and not yet taken out.
LEMMA NextIInv == IInv /\ [Next]_vars => IInv'
<1> SUFFICES ASSUME IInv, [Next]_vars
             PROVE  IInv'
  OBVIOUS
<1>1. /\ WellFormed(buffer) /\ Holds(buffer, consumed + 1, produced)
      /\ inbox \in Nat /\ eof \in BOOLEAN /\ n \in Int
      /\ produced \in Nat /\ consumed \in Nat
  BY DEF IInv, TypeOK, Contents
<1>2. ASSUME NEW len \in 1 .. MaxBytes, append(len)
      PROVE  IInv'
  <2>1. len \in Nat /\ consumed + 1 \in Nat
    BY <1>1, <1>2
  <2>2. WellFormed(buffer') /\ Holds(buffer', consumed + 1, produced + len)
    BY <1>1, <1>2, <2>1, AppendedCorrect DEF append
  <2>3. QED
    BY <1>1, <1>2, <2>1, <2>2 DEF append, IInv, TypeOK, Contents
<1>3. ASSUME NEW len \in 1 .. MaxBytes, retrieve(len)
      PROVE  IInv'
  <2>1. /\ len \in Nat
        /\ UNCHANGED <<inbox, eof, n, produced>>
    BY <1>3 DEF retrieve
  <2>2. CASE len < readableBytes(buffer)
    <3>1. /\ buffer' = Indices(buffer, buffer.reader + len, buffer.writer)
          /\ consumed' = consumed + len
      BY <1>3, <2>2 DEF retrieve
    <3>2. WellFormed(buffer')
      BY <1>1, <2>1, <2>2, <3>1 DEF WellFormed, readableBytes, Indices
    <3>3. Holds(buffer', consumed' + 1, produced)
      <4>1. /\ buffer'.reader = buffer.reader + len
            /\ buffer'.writer = buffer.writer
            /\ buffer'.bytes = buffer.bytes
        BY <3>1 DEF Indices
      <4> /\ produced = consumed + 1 + (buffer.writer - buffer.reader) - 1
          /\ buffer.reader \in Nat /\ buffer.writer \in Nat
          /\ len \in Nat /\ consumed \in Nat /\ consumed' = consumed + len
        BY <1>1, <2>1, <3>1, WellFormedFacts DEF Holds
      <4>2. \A i \in buffer.reader .. buffer.writer - 1 :
              buffer.bytes[i] = consumed + 1 + i - buffer.reader
        BY <1>1 DEF Holds
      <4>3. produced = consumed' + 1 + readableBytes(buffer') - 1
        BY <4>1 DEF readableBytes
      <4>4. ASSUME NEW i \in buffer'.reader .. buffer'.writer - 1
            PROVE  buffer'.bytes[i] = consumed' + 1 + i - buffer'.reader
        <5>1. /\ i \in buffer.reader .. buffer.writer - 1
              /\ consumed' + 1 + i - buffer'.reader = consumed + 1 + i - buffer.reader
          BY <4>1
        <5>2. QED
          BY <4>1, <4>2, <5>1
      <4>5. QED
        BY <4>3, <4>4, Zenon DEF Holds
    <3>4. QED
      BY <1>1, <2>1, <3>1, <3>2, <3>3 DEF IInv, TypeOK, Contents
  <2>3. CASE ~(len < readableBytes(buffer))
    <3>1. buffer' = retrieveAll(buffer) /\ consumed' = produced
      BY <1>3, <2>3 DEF retrieve
    <3>2. WellFormed(buffer')
      BY <1>1, <3>1 DEF retrieveAll, Indices, WellFormed
    <3>3. /\ buffer'.reader = kCheapPrepend /\ buffer'.writer = kCheapPrepend
          /\ kCheapPrepend \in Nat /\ produced \in Nat
      BY <1>1, <3>1 DEF retrieveAll, Indices
    <3>4. Holds(buffer', consumed' + 1, produced)
      BY <3>1, <3>3 DEF Holds, readableBytes
    <3>5. QED
      BY <1>1, <2>1, <3>1, <3>2, <3>4 DEF IInv, TypeOK, Contents
  <2>4. QED
    BY <2>2, <2>3
<1>4. CASE readFd
  <2>1. PICK got \in ReadvReturns :
          /\ n' = got
          /\ IF got <= 0
             THEN UNCHANGED <<buffer, inbox, produced>>
             ELSE /\ buffer' = Received(buffer, produced + 1, got)
                  /\ inbox' = inbox - got
                  /\ produced' = produced + got
          /\ UNCHANGED <<eof, consumed>>
    BY <1>4 DEF readFd
  <2>2. got \in Int /\ (got > 0 => got <= inbox)
    BY <1>1 DEF ReadvReturns
  <2>3. CASE got <= 0
    BY <1>1, <2>1, <2>2, <2>3 DEF IInv, TypeOK, Contents
  <2>4. CASE ~(got <= 0)
    <3>1. got \in Nat /\ consumed + 1 \in Nat
      BY <1>1, <2>2, <2>4
    <3>2. WellFormed(buffer') /\ Holds(buffer', consumed + 1, produced + got)
      BY <1>1, <2>1, <2>4, <3>1, ReceivedCorrect
    <3>3. QED
      BY <1>1, <2>1, <2>2, <2>4, <3>1, <3>2 DEF IInv, TypeOK, Contents
  <2>5. QED
    BY <2>3, <2>4
<1>5. CASE PeerSends
  BY <1>1, <1>5 DEF PeerSends, IInv, TypeOK, Contents
<1>6. CASE PeerCloses
  BY <1>1, <1>6 DEF PeerCloses, IInv, TypeOK, Contents
<1>7. CASE UNCHANGED vars
  BY <1>7 DEF vars, IInv, TypeOK, Contents
<1>8. QED
  BY <1>2, <1>3, <1>4, <1>5, <1>6, <1>7 DEF Next

\* TypeOK and Contents hold in every state.
THEOREM Invariance == Spec => []IInv
BY InitIInv, NextIInv, PTL DEF Spec

\* For any sizes: the indices never leave the vector nor cross each other.
THEOREM IndicesInRange == Spec => []TypeOK
<1>1. IInv => TypeOK
  BY DEF IInv
<1>2. QED
  BY Invariance, <1>1, PTL

\* For any sizes and any sequence of calls: no byte is lost, doubled or moved out
\* of order.
THEOREM ContentsPreserved == Spec => []Contents
<1>1. IInv => Contents
  BY DEF IInv
<1>2. QED
  BY Invariance, <1>1, PTL
===============================================================================
