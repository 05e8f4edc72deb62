----------------------------- MODULE InputBuffer -----------------------------
(***************************************************************************)
(* Client::InputBuffer: the bytes of one connection between recv and the   *)
(* parser, in one array that is compacted, doubled and halved.  The class  *)
(* of the same name in the C++ client library is the same code.            *)
(*                                                                         *)
(* Pointers are offsets from the start of the array.  The contents of the  *)
(* array are modelled, so that a byte copied to a wrong place shows, and a *)
(* cell that holds no unread byte is Junk, so that reading one shows.      *)
(***************************************************************************)
EXTENDS Integers, Sequences

CONSTANTS
  Byte,         \* values of a byte
  Junk,         \* the contents of a cell outside [read_ptr, write_ptr)
  InitialSize,  \* Client_InputBuffer.h: 512
  Limit,        \* the most bytes a parser leaves unread when it waits for more
  Streams       \* the byte sequences a peer may send

\* Every size is a power of two; new_size never passes the last of these.
Sizes == {4, 8, 16, 32, 64, 128, 256, 512, 1024, 2048, 4096, 8192, 16384, 32768,
          65536, 131072, 262144}

\* The largest uint8_t and uint16_t.
UINT8_MAX  == 255
UINT16_MAX == 65535

ASSUME BytesHave8Bits == Byte \subseteq 0..UINT8_MAX
ASSUME SizeIsPower == InitialSize \in Sizes
\* A payload length has 16 bits (Client::Parser::payload_length).
ASSUME LimitHas16Bits == Limit \in Nat /\ Limit <= UINT16_MAX
ASSUME StreamsOfBytes == Streams \subseteq Seq(Byte)

VARIABLES
  buffer,       \* [size, memory, read, write]: the object's fields, read_ptr and
                \* write_ptr as offsets
  peer,         \* what the kernel knows of the peer: open, closed, reset, or
                \* dead once it has told of the reset
  connected,    \* no DisconnectedException was thrown
  stream,       \* history: all the bytes the peer would send, if it lived
  received,     \* history: how many of them recv has returned
  taken         \* history: how many of them get has returned

bufferVars == <<buffer, peer, connected, stream, received, taken>>

-----------------------------------------------------------------------------
avaliable(b) == b.write - b.read

empty_space(b) == b.size - b.write

NewMemory(n) == [i \in 1..n |-> Junk]

NewBuffer == [size |-> InitialSize, memory |-> NewMemory(InitialSize), read |-> 0, write |-> 0]

\* The unread bytes go to the start of an array of n cells: std::copy, std::move.
Moved(b, n) ==
  [size   |-> n,
   memory |-> [i \in 1..n |-> IF i <= avaliable(b) THEN b.memory[b.read + i] ELSE Junk],
   read   |-> 0,
   write  |-> avaliable(b)]

resize(b, n) == Moved(b, n)

\* Mutant: read_ptr is reset before write_ptr is computed from it.
collect_too_much(b) == [Moved(b, b.size) EXCEPT !.write = b.write]

collect_garbage(b) == Moved(b, b.size)

Compacted(b) == IF b.read > b.size \div 3 THEN collect_garbage(b) ELSE b

\* Mutant: what was consumed is never collected, and the array grows instead.
never_compact(b) ==
  IF empty_space(b) < b.size \div 4 THEN resize(b, b.size * 2) ELSE b

\* Mutant: the array never grows.
never_grow(b) == Compacted(b)

ensure_some_free_space(b) ==
  IF empty_space(Compacted(b)) < b.size \div 4
  THEN resize(Compacted(b), b.size * 2) ELSE Compacted(b)

shrink_if_mostly_unused(b) ==
  IF empty_space(b) > (b.size * 3) \div 4 THEN resize(b, b.size \div 2) ELSE b

\* recv has stored n bytes, those of s after the first m, at write_ptr.
filled(b, s, m, n) ==
  [size   |-> b.size,
   memory |-> [i \in 1..b.size |->
                IF i - b.write \in 1..n THEN s[m + i - b.write] ELSE b.memory[i]],
   read   |-> b.read,
   write  |-> b.write + n]

\* What get returns, and what it leaves.
peek(b, n) == [i \in 1..n |-> b.memory[b.read + i]]

consumed(b, n) ==
  [size   |-> b.size,
   memory |-> [i \in 1..b.size |-> IF i <= b.read + n THEN Junk ELSE b.memory[i]],
   read   |-> b.read + n,
   write  |-> b.write]

-----------------------------------------------------------------------------
BufferInit ==
  /\ buffer    = NewBuffer
  /\ peer      = "open"
  /\ connected = TRUE
  /\ stream    \in Streams
  /\ received  = 0
  /\ taken     = 0

\* The peer closes its end, or its connection breaks, wherever it is in its
\* stream.
PeerLeaves ==
  /\ peer = "open"
  /\ peer' \in {"closed", "reset"}
  /\ UNCHANGED <<buffer, connected, stream, received, taken>>

\* receive is called when select says so and the parser waits for more bytes
\* than there are.
Receiving == connected /\ avaliable(buffer) <= Limit

\* recv returns n bytes, of those the peer has sent by now.  A connection that
\* was reset may still hand out what had arrived.
Receive(n) ==
  LET b == ensure_some_free_space(buffer)
  IN  /\ Receiving
      /\ peer # "dead"
      /\ n <= empty_space(b)
      /\ received + n <= Len(stream)
      /\ buffer'   = shrink_if_mostly_unused(filled(b, stream, received, n))
      /\ received' = received + n
      /\ UNCHANGED <<peer, connected, stream, taken>>

\* recv returns -1.  The error is reported once; recv then returns 0.
ReceiveError ==
  /\ Receiving
  /\ peer = "reset"
  /\ buffer' = shrink_if_mostly_unused(ensure_some_free_space(buffer))
  /\ peer' = "dead"
  /\ UNCHANGED <<connected, stream, received, taken>>

\* recv returns 0: the peer closed its end, or there was no room for a byte.
ReceiveNothing ==
  LET b == ensure_some_free_space(buffer)
  IN  /\ Receiving
      /\ peer \in {"closed", "dead"} \/ empty_space(b) = 0
      /\ buffer' = b
      /\ connected' = FALSE
      /\ UNCHANGED <<peer, stream, received, taken>>

\* get(n), by a parser that has seen avaliable() >= n.
Get(n) ==
  /\ connected
  /\ n <= avaliable(buffer)
  /\ buffer' = consumed(buffer, n)
  /\ taken' = taken + n
  /\ UNCHANGED <<peer, connected, stream, received>>

BufferNext ==
  \/ PeerLeaves
  \/ \E n \in 1..Len(stream) : Receive(n) \/ Get(n)
  \/ ReceiveError
  \/ ReceiveNothing

BufferSpec == BufferInit /\ [][BufferNext]_bufferVars

-----------------------------------------------------------------------------
(***************************************************************************)
(* Properties.                                                             *)
(***************************************************************************)

\* The fields have their types, and the pointers stay in the array: no copy and
\* no recv writes past its end.
BufferTypeOK ==
  /\ buffer.size \in Nat
  /\ buffer.memory \in [1..buffer.size -> Byte \cup {Junk}]
  /\ buffer.read \in 0..buffer.write
  /\ buffer.write \in 0..buffer.size
  /\ peer \in {"open", "closed", "reset", "dead"}
  /\ connected \in BOOLEAN
  /\ stream \in Streams
  /\ received \in 0..Len(stream)
  /\ taken \in 0..received

\* The array is a queue: what get will return next is what recv returned and get
\* has not, whatever was moved, doubled or halved in between.
UnreadIsNext ==
  /\ avaliable(buffer) = received - taken
  /\ \A i \in 1..avaliable(buffer) : buffer.memory[buffer.read + i] = stream[taken + i]

\* A DisconnectedException means the peer left.  recv also returns 0 when it is
\* given no room, so the array must never be full, or too small, when it is called.
OnlyLeaversDisconnected == ~connected => peer # "open"

\* The array does not grow past the initial size for ever: it holds less than
\* five times what a waiting parser may leave in it.
MemoryBounded == buffer.size <= InitialSize \/ 5 * buffer.size <= 24 * Limit

=============================================================================
