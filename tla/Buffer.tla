--------------------------------- MODULE Buffer ---------------------------------
(***************************************************************************)
(* The byte buffer of a connection (Netmux/Buffer.h, Buffer.cc): a vector  *)
(* with a read and a write index, refilled by append() and by readFd() from*)
(* a socket, emptied by retrieve().  Bytes are numbered in the order in    *)
(* which they are put in; 0 is a byte nobody has written.                  *)
(***************************************************************************)
EXTENDS Integers

CONSTANTS
  kCheapPrepend, kInitialSize,
  ExtraSize,  \* sizeof(extrabuf) in readFd
  MaxBytes    \* bound: number of bytes put into the buffer in a behaviour

ASSUME SizeAssumption ==
  /\ kCheapPrepend \in Nat /\ kInitialSize \in Nat
  /\ ExtraSize \in Nat \ {0} /\ MaxBytes \in Nat

VARIABLES
  buffer,    \* readerIndex_, writerIndex_, and size and content of buffer_
  inbox,     \* number of bytes the socket has to read
  eof,       \* the peer has closed its side
  n,         \* what the last readFd returned
  produced,  \* history: number of bytes put in so far
  consumed   \* history: number of bytes taken out so far

vars == <<buffer, inbox, eof, n, produced, consumed>>

readableBytes(b) == b.writer - b.reader
writableBytes(b) == b.size - b.writer
prependableBytes(b) == b.reader

Init ==
  /\ buffer = [reader |-> kCheapPrepend, writer |-> kCheapPrepend,
               size |-> kCheapPrepend + kInitialSize,
               bytes |-> [i \in 0 .. kCheapPrepend + kInitialSize - 1 |-> 0]]
  /\ inbox = 0
  /\ eof = FALSE
  /\ n = -1
  /\ produced = 0
  /\ consumed = 0

-------------------------------------------------------------------------------
(***************************************************************************)
(* Space for new bytes.                                                    *)
(***************************************************************************)

\* Mutated form of Fits: kCheapPrepend forgotten.
FitsWithoutPrepend(b, len) == writableBytes(b) + prependableBytes(b) >= len

\* The negated condition of makeSpace: moving the readable bytes down is enough.
Fits(b, len) ==
  writableBytes(b) + prependableBytes(b) >= kCheapPrepend + len

\* buffer_.resize(writerIndex_+len)
Resize(b, len) ==
  [reader |-> b.reader, writer |-> b.writer, size |-> b.writer + len,
   bytes |-> [i \in 0 .. b.writer + len - 1 |->
                IF i < b.size THEN b.bytes[i] ELSE 0]]

\* Mutated form of MoveDown: the indices are set before the bytes are copied.
MoveDownResetFirst(b) ==
  [b EXCEPT !.reader = kCheapPrepend,
            !.writer = kCheapPrepend + (b.writer - kCheapPrepend)]

\* The readable bytes move down to kCheapPrepend.
MoveDown(b) ==
  [reader |-> kCheapPrepend, writer |-> kCheapPrepend + readableBytes(b),
   size |-> b.size,
   bytes |-> [i \in 0 .. b.size - 1 |->
                IF i \in kCheapPrepend .. kCheapPrepend + readableBytes(b) - 1
                THEN b.bytes[b.reader + i - kCheapPrepend] ELSE b.bytes[i]]]

ensureWriteableBytes(b, len) ==
  IF writableBytes(b) >= len THEN b
  ELSE IF Fits(b, len) THEN MoveDown(b) ELSE Resize(b, len)

\* The next len numbers are stored at writerIndex_; first is the first of them.
Store(b, first, len) ==
  [reader |-> b.reader, writer |-> b.writer + len, size |-> b.size,
   bytes |-> [i \in 0 .. b.size - 1 |->
                IF i \in b.writer .. b.writer + len - 1
                THEN first + i - b.writer ELSE b.bytes[i]]]

appended(b, first, len) == Store(ensureWriteableBytes(b, len), first, len)

-------------------------------------------------------------------------------
append(len) ==
  /\ produced + len <= MaxBytes
  /\ buffer' = appended(buffer, produced + 1, len)
  /\ produced' = produced + len
  /\ UNCHANGED <<inbox, eof, n, consumed>>

Indices(b, reader, writer) ==
  [reader |-> reader, writer |-> writer, size |-> b.size, bytes |-> b.bytes]

retrieveAll(b) == Indices(b, kCheapPrepend, kCheapPrepend)

\* Mutated form of retrieve: no comparison with readableBytes().
RetrieveUnchecked(len) ==
  /\ buffer' = Indices(buffer, buffer.reader + len, buffer.writer)
  /\ consumed' = consumed + len
  /\ UNCHANGED <<inbox, eof, n, produced>>

\* retrieve(len), also at the end of retrieveAsString and retrieveAllAsString.
retrieve(len) ==
  /\ IF len < readableBytes(buffer)
     THEN /\ buffer' = Indices(buffer, buffer.reader + len, buffer.writer)
          /\ consumed' = consumed + len
     ELSE /\ buffer' = retrieveAll(buffer)
          /\ consumed' = produced
  /\ UNCHANGED <<inbox, eof, n, produced>>

-------------------------------------------------------------------------------
\* The iovec count is the value of the comparison, and the space given to readv
\* is that of the first iovcnt entries of vec.
iovcnt == IF writableBytes(buffer) < ExtraSize THEN 1 ELSE 0

Room == CASE iovcnt = 0 -> 0
          [] iovcnt = 1 -> writableBytes(buffer)
          [] OTHER      -> writableBytes(buffer) + ExtraSize

\* What readv may return: the read of no bytes succeeds whatever the socket holds, and
\* the first read at the end of a connection that was reset fails.
ReadvReturns ==
  IF Room = 0 THEN {0}
  ELSE IF inbox > 0 THEN {k \in 1 .. inbox : k <= Room}
  ELSE IF eof THEN {0, -1} ELSE {-1}

\* readFd of got bytes, the part after readv.
Received(b, first, got) ==
  IF got <= writableBytes(b) THEN Store(b, first, got)
  ELSE appended(Store(b, first, writableBytes(b)), first + writableBytes(b),
                got - writableBytes(b))

readFd ==
  \E got \in ReadvReturns :
    /\ n' = got
    /\ IF got <= 0
       THEN UNCHANGED <<buffer, inbox, produced>>
       ELSE /\ buffer' = Received(buffer, produced + 1, got)
            /\ inbox' = inbox - got
            /\ produced' = produced + got
    /\ UNCHANGED <<eof, consumed>>

-------------------------------------------------------------------------------
\* The peer sends a byte, or closes its side.
PeerSends ==
  /\ ~eof
  /\ produced + inbox < MaxBytes
  /\ inbox' = inbox + 1
  /\ UNCHANGED <<buffer, eof, n, produced, consumed>>

PeerCloses ==
  /\ ~eof
  /\ eof' = TRUE
  /\ UNCHANGED <<buffer, inbox, n, produced, consumed>>

Next ==
  \/ \E len \in 1 .. MaxBytes : append(len) \/ retrieve(len)
  \/ readFd
  \/ PeerSends
  \/ PeerCloses

Spec == Init /\ [][Next]_vars

-------------------------------------------------------------------------------
\* The indices stay inside the vector and in order, and the space in front is
\* never eaten up.
WellFormed(b) ==
  /\ b.size \in Nat
  /\ b.bytes \in [0 .. b.size - 1 -> Nat]
  /\ b.writer \in kCheapPrepend .. b.size
  /\ b.reader \in kCheapPrepend .. b.writer

\* Type correctness, with the indices as WellFormed has them.
TypeOK ==
  /\ WellFormed(buffer)
  /\ inbox \in Nat
  /\ eof \in BOOLEAN
  /\ n \in Int
  /\ produced \in Nat
  /\ consumed \in Nat

\* The readable bytes of b are first .. last in order.
Holds(b, first, last) ==
  /\ last = first + readableBytes(b) - 1
  /\ \A i \in b.reader .. b.writer - 1 : b.bytes[i] = first + i - b.reader

\* Bytes come out as they went in, none lost, none twice: after growing, moving
\* down and starting over, the readable bytes are those put in and not yet taken
\* out, in order.
Contents == Holds(buffer, consumed + 1, produced)

\* readFd returns 0 only when the peer has closed and everything has been read.
ZeroMeansClosed == n = 0 => eof /\ inbox = 0
===============================================================================
