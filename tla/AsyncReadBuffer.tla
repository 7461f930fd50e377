-------------------------- MODULE AsyncReadBuffer --------------------------
(***************************************************************************)
(* AsyncReadBuffer of rosserial_server (async_read_buffer.h): the byte     *)
(* buffer between a boost::asio stream and the Session that parses it.     *)
(*                                                                         *)
(* A client asks for a number of bytes with read().  The buffer answers    *)
(* out of what it already holds, or starts an async_read that brings in    *)
(* at least what is missing, and then POSTS the client's callback together *)
(* with a SimpleCdr that points into the buffer: the bytes are not copied. *)
(*                                                                         *)
(* The buffer never looks at the bytes, so a byte is its position in the   *)
(* stream of bytes the hardware has delivered (1, 2, 3, ...); 0 stands for *)
(* a cell that holds no delivered byte.                                    *)
(*                                                                         *)
(* The client may call read() at any time, as the code lets it: while a    *)
(* transfer is under way (read() refuses), and while callbacks are posted  *)
(* that have not run yet (read() goes ahead, since a posted callback is    *)
(* not on record any more).  How the Session uses this freedom is the      *)
(* subject of module Session.                                              *)
(***************************************************************************)
EXTENDS Integers, Sequences

CONSTANTS
  Capacity,   \* mem_.size(); Session passes buffer_max = 8191
  Requests,   \* the sizes a client asks for: 1, 5 and length + 1
  MaxBytes,   \* bound: how many bytes the hardware delivers altogether
  MaxPosted   \* bound: how many callbacks are posted and have not run

ASSUME CapacityAssumption == Capacity \in Nat \ {0}
ASSUME RequestsAssumption == Requests \subseteq Nat \ {0}
ASSUME MaxBytesAssumption == MaxBytes \in Nat
ASSUME MaxPostedAssumption == MaxPosted \in Nat

VARIABLES
  mem,            \* mem_: cell |-> byte
  write_index,    \* write_index_
  read_index,     \* read_index_
  requested,      \* read_requested_bytes_, 0 when no request is on record
  count,          \* the static counter of refused requests in read()
  op,             \* the async_read under way: first cell, bytes still missing
  posted,         \* the posted callbacks, oldest first, see Views
  abandoned,      \* history: read() forgot a transfer that is under way
  received,       \* how many bytes callback() has added to the buffer
  next            \* position of the first byte not yet given to the client

bufferVars == <<mem, write_index, read_index>>
vars == <<bufferVars, requested, count, op, posted, abandoned, received, next>>

Cells == 0 .. Capacity - 1

\* transfer_bytes of a started async_read is positive.
NoOp == [at |-> 0, need |-> 0]

\* A posted callback's SimpleCdr: the first cell and the number of cells it
\* points to.  As history, the first of the bytes that were handed over, and
\* whether read() has gone to the hardware since.
Views == [start : 0 .. Capacity, len : 0 .. Capacity, first : Nat, overtaken : BOOLEAN]

bytesAvailable == write_index - read_index
bytesHeadroom == Capacity - write_index

Init ==
  /\ mem = [c \in Cells |-> 0]
  /\ write_index = 0 /\ read_index = 0
  /\ requested = 0 /\ count = 0
  /\ op = NoOp /\ posted = <<>> /\ abandoned = FALSE
  /\ received = 0 /\ next = 1

-----------------------------------------------------------------------------
\* The callback is posted with a view of the next n bytes, at cell c.
post(c, n) ==
  /\ Len(posted) < MaxPosted
  /\ posted' = Append(posted, [start |-> c, len |-> n, first |-> next, overtaken |-> FALSE])
  /\ next' = next + n
  /\ requested' = 0

\* Mutant: the SimpleCdr is built after read_index_ has been advanced.
callSuccessCallback_lateView(w, n) ==
  /\ post(read_index + n, n)
  /\ IF w - (read_index + n) = 0
       THEN write_index' = 0 /\ read_index' = 0
       ELSE write_index' = w /\ read_index' = read_index + n

\* Mutant: the indexes are reset after every answer, empty buffer or not.
callSuccessCallback_alwaysReset(w, n) ==
  /\ post(read_index, n)
  /\ write_index' = 0 /\ read_index' = 0

(* The end of a read that can be answered: the client's callback is posted *)
(* with a view of the n bytes from read_index_ on, the request is taken    *)
(* off the record, and an empty buffer starts again at its first cell.  w  *)
(* is write_index_ when the function is called.                            *)
callSuccessCallback(w, n) ==
  /\ post(read_index, n)
  /\ IF w - (read_index + n) = 0
       THEN write_index' = 0 /\ read_index' = 0
       ELSE write_index' = w /\ read_index' = read_index + n

\* Mutant: the counter starts afresh on every call, refused or not.
ReadRefused_countReset ==
  /\ requested # 0
  /\ count' = 1
  /\ UNCHANGED <<bufferVars, requested, op, posted, abandoned, received, next>>

(* read() while an earlier request is still on record: it is refused with  *)
(* operation_not_permitted.  The fourth refusal in a row gives up on that  *)
(* request and empties the buffer; the call that does so is refused too.   *)
(* When a transfer was under way for the request, it goes on, and what     *)
(* callback() makes of its end is not followed (Abandoned).                *)
ReadRefused ==
  /\ requested # 0
  /\ count' = count + 1
  /\ IF count' > 3
       THEN /\ requested' = 0
            /\ write_index' = 0 /\ read_index' = 0
            /\ next' = next + bytesAvailable
            /\ abandoned' = (op # NoOp)
       ELSE UNCHANGED <<requested, write_index, read_index, next, abandoned>>
  /\ UNCHANGED <<mem, op, posted, received>>

(* read() of more than the buffer can ever hold: refused with              *)
(* no_buffer_space, after the request has been put on record.              *)
ReadTooLarge(n) ==
  /\ requested = 0
  /\ n > Capacity
  /\ count' = 0
  /\ requested' = n
  /\ UNCHANGED <<bufferVars, op, posted, abandoned, received, next>>

\* Mutant: the indexes are moved to the front, the bytes are not.
ShiftToFront_noMove ==
  /\ write_index' = bytesAvailable
  /\ read_index' = 0
  /\ UNCHANGED mem

(* What read() does to make room: when the free cells after write_index_   *)
(* are too few, the buffered bytes are moved to the front.                 *)
ShiftToFront ==
  /\ mem' = [c \in Cells |-> IF c < bytesAvailable THEN mem[read_index + c]
                                                   ELSE mem[c]]
  /\ write_index' = bytesAvailable
  /\ read_index' = 0

(* read() that has to go to the hardware for transfer_bytes more.  Cells   *)
(* of callbacks that have not run yet may be shifted over, or filled again *)
(* when the indexes were reset: these callbacks are overtaken.             *)
ReadFromHardware(n) ==
  LET transfer_bytes == n - bytesAvailable IN
  /\ requested = 0
  /\ n <= Capacity /\ transfer_bytes > 0
  /\ count' = 0
  /\ requested' = n
  /\ IF bytesHeadroom < transfer_bytes THEN ShiftToFront ELSE UNCHANGED bufferVars
  /\ op' = [at |-> write_index', need |-> transfer_bytes]
  /\ posted' = [i \in DOMAIN posted |-> [posted[i] EXCEPT !.overtaken = TRUE]]
  /\ UNCHANGED <<abandoned, received, next>>

(* read() that is answered from what the buffer already holds.             *)
ReadFromBuffer(n) ==
  /\ requested = 0
  /\ n <= bytesAvailable
  /\ count' = 0
  /\ callSuccessCallback(write_index, n)
  /\ UNCHANGED <<mem, op, abandoned, received>>

read(n) ==
  \/ ReadRefused
  \/ ReadTooLarge(n)
  \/ ReadFromHardware(n)
  \/ ReadFromBuffer(n)

(* async_read ends well: k bytes, at least as many as were missing and at  *)
(* most as many as there was room for, have been stored from op.at on, and *)
(* callback() runs.                                                        *)
callback(k) ==
  /\ op # NoOp
  /\ op.need <= k /\ k <= Capacity - op.at
  /\ received + k <= MaxBytes
  /\ mem' = [c \in Cells |-> IF c \in op.at .. op.at + k - 1
                               THEN received + 1 + (c - op.at) ELSE mem[c]]
  /\ received' = received + k
  /\ callSuccessCallback(write_index + k, requested)
  /\ op' = NoOp
  /\ UNCHANGED <<count, abandoned>>

(* async_read fails (end of file, device gone, or aborted because the      *)
(* socket was closed) after k bytes, fewer than were missing, have been    *)
(* stored.  callback() forgets the request and those bytes.                *)
CallbackError(k) ==
  /\ op # NoOp
  /\ k < op.need
  /\ mem' = [c \in Cells |-> IF c \in op.at .. op.at + k - 1 THEN 0 ELSE mem[c]]
  /\ requested' = 0
  /\ op' = NoOp
  /\ UNCHANGED <<write_index, read_index, count, posted, abandoned, received, next>>

(* The io_service runs the oldest posted callback: the client looks at the *)
(* bytes.                                                                  *)
RunPosted ==
  /\ posted # <<>>
  /\ posted' = Tail(posted)
  /\ UNCHANGED <<bufferVars, requested, count, op, abandoned, received, next>>

(* A transfer is under way that nobody asked for any more: see ReadRefused. *)
Abandoned ==
  /\ abandoned
  /\ UNCHANGED vars

Reads == ~abandoned /\ \E n \in Requests : read(n)

Next ==
  \/ Reads
  \/ ~abandoned /\ \E k \in 1 .. Capacity : callback(k)
  \/ ~abandoned /\ \E k \in 0 .. Capacity - 1 : CallbackError(k)
  \/ ~abandoned /\ RunPosted
  \/ Abandoned

Spec == Init /\ [][Next]_vars

\* SerialSession reconnects every two seconds and asks again, so a client
\* for which nothing is under way asks sooner or later.
FairSpec == Spec /\ WF_vars(op = NoOp /\ Reads)

-----------------------------------------------------------------------------
(* Properties. *)

(* Indexes stay within mem_, and refused calls are never more than four in a *)
(* row.                                                                      *)
TypeOK ==
  /\ mem \in [Cells -> Nat]
  /\ write_index \in 0 .. Capacity
  /\ read_index \in 0 .. Capacity
  /\ requested \in Nat
  /\ count \in 0 .. 4
  /\ op \in [at : 0 .. Capacity, need : 0 .. Capacity]
  /\ posted \in Seq(Views)
  /\ abandoned \in BOOLEAN
  /\ received \in Nat
  /\ next \in Nat

(* The cells from read_index_ up to write_index_ hold, in order and         *)
(* without a gap, exactly the bytes that arrived and were not handed over:  *)
(* neither shifting them to the front in read(), nor the reset of the       *)
(* indexes in callSuccessCallback(), nor a failed transfer in callback()    *)
(* loses, repeats or reorders one.                                          *)
UnreadBytesKept ==
  /\ read_index <= write_index
  /\ next + bytesAvailable = received + 1
  /\ \A c \in read_index .. write_index - 1 : mem[c] = next + (c - read_index)

(* A transfer that read() starts is given free cells of mem_ only, at least *)
(* as many as the request lacks, starting where callback() will advance     *)
(* write_index_ from: the shift always makes enough headroom.  This lasts   *)
(* until read() forgets the request.                                        *)
TransferFits ==
  op # NoOp /\ ~abandoned =>
    /\ op.at = write_index
    /\ op.at + op.need <= Capacity
    /\ bytesAvailable + op.need = requested

(* The SimpleCdr that callSuccessCallback() posts points into mem_ and is   *)
(* read only later, after the indexes may have been reset, other callbacks  *)
(* posted and requests refused: its cells still hold the bytes that were    *)
(* promised, unless read() had to go to the hardware before the callback    *)
(* has run.                                                                 *)
InMemory(v) == v.len > 0 /\ v.start + v.len <= Capacity
Intact(v) == \A j \in 0 .. v.len - 1 : mem[v.start + j] = v.first + j
PostedBytesIntact ==
  \A i \in DOMAIN posted :
    /\ InMemory(posted[i])
    /\ ~posted[i].overtaken => Intact(posted[i])

(* While a transfer is under way, it is the only thing that writes to the   *)
(* buffer, and every callback posted before it counts as overtaken.         *)
TransferOvertakes == op # NoOp => \A i \in DOMAIN posted : posted[i].overtaken

(* A request stays on record with nothing under way only after it was       *)
(* refused as larger than the buffer: every other way out of read() and     *)
(* callback() takes it off the record.                                      *)
OnlyOversizeWedges ==
  /\ op = NoOp /\ requested # 0 => requested > Capacity
  /\ op # NoOp /\ ~abandoned => requested # 0

(* The inductive invariant behind the properties above. *)
BufferInv ==
  /\ TypeOK
  /\ UnreadBytesKept
  /\ TransferFits
  /\ PostedBytesIntact
  /\ TransferOvertakes
  /\ OnlyOversizeWedges
  /\ requested # 0 => count <= 3

(* The buffer is a ByteStream whose reader has the runs of bytes that the   *)
(* posted SimpleCdrs see at this moment: bytes are handed over in order,    *)
(* each once, and stay what they are through resets, refusals and further   *)
(* hand-overs; only a read() that goes to the hardware before the callback  *)
(* has run takes the promise back.                                          *)
Seen(v) == IF v.overtaken THEN <<>> ELSE [j \in 1 .. v.len |-> mem[v.start + j - 1]]
postedRuns == [i \in 1 .. Len(posted) |-> Seen(posted[i])]
Stream == INSTANCE ByteStream WITH runs <- postedRuns
ImplementsByteStream == Stream!Spec

(* The counter of refused calls in read() ends the wedge that an oversized  *)
(* request leaves behind: a client that keeps asking is served again.       *)
WedgeEnds == requested > Capacity ~> requested = 0
=============================================================================
