# tcio in TLA+

tcio is a small Rust library of I/O primitives. Its core is `bytes`: reference counted byte
buffers (`Bytes`, `BytesMut`) that many handles view at once, that threads share without a lock,
and that are converted into one another without copying. Everything in it rests on raw pointers,
a tagged word and a handful of atomic operations. Around it are the cursors `Buf` and `BufMut` with
their adapters, the poll functions that write and read them, UTF-8 strings over `Bytes`, a few
combined futures and a number parser. This directory models these parts, checks them with TLC and
proves with TLAPS the concurrent core, its memory ordering, the geometry of the views and that they
behave like independent vectors, the cursors and the I/O loops over them, the combined futures, the
arithmetic and the UTF-8 invariant.

Paths below are relative to the repository (`src/bytes/bytes.rs` and so on).

## Inventory

| Component | State | Operations | Hard behaviour | What makes it correct |
|---|---|---|---|---|
| `bytes/shared.rs` Shared | `ref_count` (atomic), `ptr`, `cap`; and the tagged word `data` of every handle: null (static), odd (unpromoted, an offset), even (pointer to a Shared) | `promote_with_vec`, `increment`, `release`, `release_into_vec`, `is_unique` | concurrent increments and decrements; who is the last; when memory may be freed | the count is the number of handles; freed once, by the last, never while in use |
| `bytes/bytes.rs` Bytes | `ptr`, `len`, `data: AtomicPtr<Shared>` | `from_static`, `from_vec`, `slice*`, `split*`, `truncate*`, `clear`, `advance`, `is_unique`, `into_vec`, `into_mut`, `Clone`, `Drop` | clones of one `&Bytes` race to promote it; no capacity is stored, so the end of an unpromoted view is taken for the end of the allocation | views stay in bounds; allocations are freed with the size they were made with |
| `bytes/bytes_mut.rs` BytesMut | `ptr`, `len`, `cap`, `data: *mut Shared` | `reserve`, `try_reclaim*`, `extend_from_slice`, `split*`, `unsplit`, `truncate*`, `advance`, `freeze`, `put`, `Clone`, `Drop` | capacity is taken back from other handles' leavings; bytes are moved to the front | no byte is writable through two handles; bytes survive every move; `reserve` really reserves |
| `bytes/buf.rs`, `buf_mut.rs`, `uninit_slice.rs` | a cursor | `chunk`, `advance`, `copy_to_*`, `get_*`, `put_*` | sources of several chunks; too few bytes | every byte is delivered once, in order |
| `bytes/chain.rs`, `take.rs` | two cursors; a cursor and a limit | the same, composed | boundaries between the parts | a chain is the concatenation, a take is the prefix |
| `bytes/bytestr.rs` ByteStr | a Bytes that is UTF-8 | `from_utf8`, `truncate`, `slice_ref` | cuts inside a character | always valid UTF-8 |
| `io/read.rs`, `io/write.rs`, `tokio/mod.rs` | none (poll functions) | `poll_write`, `poll_write_buf`, `poll_write_all_buf`, ... | short writes, `Pending`, zero writes, errors | every byte is written once, in order; the call ends |
| `futures/map.rs`, `then.rs` | the stage of the future | `poll` | poll after completion | the closure runs once |
| `num/num.rs` | none | `atou`, `wrapping_atou`, `atoi` | overflow at the ends of the range | equals the number denoted, or `None` |
| `either/*` | which side | delegation, `Future::poll` | none | the answer is that of the side it has |
| `fmt.rs`, `macros.rs` | none | formatting, code generation | none | nothing of their own |

How they interact: a `Bytes` or `BytesMut` owns either its allocation (unpromoted) or one
reference to a `Shared` block that owns it. `BytesMut::freeze`, `Bytes::into_mut`, `into_vec` and
`BufMut::put` move the ownership from one type to the other. Threads interact only through
`Shared::ref_count` and through the word of a `Bytes` that is borrowed by several of them. The
cursors, the I/O traits and `ByteStr` are callers of these two types.

## Modules

| Module | What it is |
|---|---|
| `BufferOwnership` | abstract specification: a buffer and the set of handles that keep it alive; the last one to leave disposes of it |
| `SharedBuffer` | one buffer, its handles, its `Shared` blocks, and any number of threads; one action per atomic operation of `bytes.rs`, `bytes_mut.rs` and `shared.rs`. Implements `BufferOwnership` |
| `SharedBuffer_proofs` | the inductive invariant of `SharedBuffer` and what follows from it, proved |
| `MCSharedBuffer` | `SharedBuffer` for TLC |
| `ByteVectors` | abstract specification: handles are independent vectors of bytes |
| `BytesViews` | several buffers in a flat memory, with pointers, lengths, capacities, offsets and bytes; one action per method. Implements `ByteVectors` |
| `BytesViews_proofs` | the inductive invariant of `BytesViews`, and that every method keeps it, proved |
| `ByteVectors_proofs` | that `BytesViews` implements `ByteVectors`, method by method, proved on top of `BytesViews_proofs` |
| `Cursors` | `Buf` and `BufMut` as values: slices, vectors, `Chain` and `Take`, nested in any way; every method is a function, recursive over the tree |
| `Cursors_proofs` | what each of these methods computes, proved by induction over the tree |
| `ByteStream` | abstract specification: a reader takes a sequence of bytes from the front |
| `BufReader` | a program that reads a `Buf` with the methods of the trait; one action per method, or per iteration of `copy_to_slice`. Implements `ByteStream` |
| `Transfer` | a program that moves bytes from a `Buf` into a `BufMut` with `put*` and `poll_read` |
| `Streams_proofs` | what `BufReader` and `Transfer` keep, proved on top of `Cursors_proofs` |
| `WriteAll` | a task that writes a `Buf` to a socket, a `Vec` or a slice with the poll functions of `AsyncWrite`, and the peer of the socket |
| `WriteAll_proofs` | that bytes are sent once, answers are true and no wake-up is lost, proved on top of `Cursors_proofs` |
| `HappensBefore` | `SharedBuffer` with the memory orderings the code asks for: what each thread has seen of the accesses of the others |
| `HappensBefore_proofs` | what the orderings guarantee, proved on top of `SharedBuffer_proofs` |
| `RefCountLimit` | the count of a `Shared` driven to `isize::MAX` by several threads, and the abort |
| `GrowthLimit` | the numbers of one `BytesMut` that grows, at a scaled-down width of `usize`, in debug and release builds |
| `AsciiNumber` | `atou`, `wrapping_atou` and `atoi`, character by character, at scaled-down widths |
| `ByteStrs` | `ByteStr` over the independent vectors of `ByteVectors` |
| `Combinators` | `Map`, `Then`, `Either` and `EitherMap`, nested, polled by a task |
| `Parts_proofs` | the invariants of the last five, which share no state, proved |
| `MCBytesViews`, `MCHappensBefore`, `MCWriteAll` | the same for TLC, with the cursors to start from |
| `MCCursors` | `BufReader` and `Transfer`, one per behaviour |
| `MCParts` | the components that share no state with each other (`RefCountLimit`, `GrowthLimit`, `AsciiNumber`, `ByteStrs`, `Combinators`), one per behaviour |

The two models cut the same code along different lines. `SharedBuffer` interleaves the atomic
operations of calls that overlap and forgets where a view begins and ends. `BytesViews` runs one
method after the other and keeps all of the geometry. What joins them: `SharedBuffer` shows that
a call which consumes or mutably borrows a handle finds the word unchanged until it returns and
that `is_unique` is exact, so that a method of `BytesViews` may be taken as one step; `into_vec`
and `into_mut` of a shared buffer are the exception, see *Findings*.

### SharedBuffer

`word[h]` is the `data` field of handle `h`: `Unpromoted`, a block, or `None` where no handle
lives. Static handles have no counter and nothing to free and are left out. `access[h]` is the set
of threads that own or borrow the handle, so `&self` needs `t \in access[h]` and `self` or
`&mut self` needs `access[h] = {t}`: this is what Rust's borrow rules and `Send`/`Sync` allow, and
nothing more is assumed of the user. `pc`, `cur`, `box` and `seen` are the local state of the call
a thread is in. A call with at most one atomic operation on shared state is one action; `clone`,
`drop`, `into_vec`, `into_mut` and `reserve` are several:

| Code | Actions |
|---|---|
| `clone_inner` + `promote_ref` | `CloneUnpromoted` (load, allocate), then `Promote` (CAS succeeds) or `PromotionLost` (CAS fails) -> `Release` of the private block -> `Increment`; or `ClonePromoted` (load) -> `Increment` |
| `clone_inner_mut`, `shallow_clone` | `SplitUnpromoted`, `SplitPromoted` |
| `drop_inner`, `release` | `DropUnpromoted`; `DropPromoted` -> `Release` -> `Free` |
| `into_vec`, `into_mut`, `release_into_vec` | `IntoVecUnpromoted`, `IntoMutUnpromoted`; `IntoVecPromoted`/`IntoMutPromoted` -> `ReleaseIntoVec` -> `TakeVec`/`TakeMut`, or `Copied` |
| `freeze` | `FreezeInPlace`, `FreezePromoting`, `FreezeEmpty` |
| `reserve_inner` | `ReallocUnpromoted`; `ReservePromoted` -> `Reclaimed`, or `CopiedOut` -> `Release` |

A buffer that a call leaves behind for a new allocation (a reallocation, a copy) is, for this
model, a buffer with one handle less; the new allocation is another instance of it.

The atomic operations are sequentially consistent here. All of them act on two words, and the
orderings the code asks for decide what else becomes visible with them: that is `HappensBefore`.

### HappensBefore

Extends `SharedBuffer` and takes its steps, with four history variables: `view[t]`, what thread `t`
has seen, and what a Release operation or the user's own synchronisation has left for others to see,
with the word of a handle (`wordView`), with the count of a block (`refView`) and with a borrowed
handle that was given back (`backView`). A view is a set of facts: a thread `u` stands for the latest
plain access of `u` to the buffer or a block, a block for its initialisation. A new access of `t`
takes `t` out of everybody else's view (`Sees`, `Outdate`), so `u \in view[t]` says that everything
`u` has done so far happens before what `t` does next. Relaxed operations pass nothing on; Release
ones add the thread's view to the location (`ReleaseCount`), Acquire ones take it
(`AcquireLast`, `AcquireUnique`, `AcquireWord`); lending or sending a handle passes the view of the
giver. Old values that a Relaxed load may return behave like an earlier load (see the module).

### GrowthLimit, RefCountLimit, AsciiNumber

Three modules about integers with a width, with the width as a constant. `GrowthLimit` has the
fields of one `BytesMut`, the tagged word included (`data`: the payload shifted by one, plus the tag)
and where its pointer really is (`start`); the other handles of the allocation are only "there" or
"gone". A sum that overflows panics in a debug build and wraps in a release build (`AssertionHolds`,
`UszWrap`); a panic of the assertion changes nothing and has no action, but an answer of false and a
panic for want of memory come after the tail has been taken (`InnerFails`). `try_reclaim_full` is an
action of its own (`ReclaimFull`): it does not look at the spare capacity first, so it answers false
where `try_reclaim` would not. `RefCountLimit` splits `increment` into its `fetch_add` and the comparison that
follows, because other threads add in between. In `AsciiNumber` a step reads one character; the
number that the text denotes is kept beside the accumulator in unbounded integers.

### ByteStrs, Combinators

`ByteStrs` is written over the variable of `ByteVectors`, which `BytesViews` implements: a `ByteStr`
is a vector that the module remembers to be a string. Bytes are of four classes (ASCII, the first
byte of two, of three, a continuation byte), which is what decides validity and character
boundaries. Whatever happens to other handles is `OtherBytes`.

`Combinators`: a future is a tree whose leaves are futures of the user, with up to `FutureDepth`
combinators above each (a `Then` in its first phase counts twice, because it polls itself again in its
second). `Poll` is the recursion of the `poll` methods and says which leaves were polled, which closures
were called and what was answered. A leaf that is not ready keeps the waker; the executor may also poll
without reason. A program is `Unfinished` (`ProgramsAssumption`): it has its closures, and each leaf in
one place, as `map` and `then` take both by value.

### BytesViews

Addresses are numbers, allocations are intervals of a flat memory, `Gap` bytes apart. A handle is
a record of the fields the Rust type has. The methods never look at the bytes, so it is enough to
follow one of them: at most one byte the user writes is marked, and if every marked byte is where
it should be, whichever was marked, all bytes are. A byte that no handle shows is forgotten at the
end of the method (`Store`): no method ever brings it back into view, so this only merges states
that behave alike.

The user's calls come with every argument that does not panic. A call that panics or returns
`None` changes nothing and has no action. `chunk_mut` and `advance_mut` are one action (`FillChunk`):
between them the chunk is borrowed from the handle, so that nothing else can happen to it. `put` takes a
`Bytes` or a `BytesMut`: the latter is split, frozen and dropped on the way (buf.rs:389-391), and what
is left of that in the end is what would have happened without (`Put`). `Clone` counts an empty handle
too, `Slice` makes an uncounted one of an empty range, as in the code.

### Cursors, BufReader, Transfer, WriteAll

A cursor is a tree, of which a Rust type such as `Chain<Take<&[u8]>, &[u8]>` is the shape: the
leaves are slices (their bytes) or vectors (their memory and how much of it is written), the inner
nodes `Chain` and `Take`. A Rust type is finite, so a tree has up to `Depth` adapters above a leaf, and
`Buf` and `BufMut` are the sets of all such trees over the bytes `Byte`. The methods are functions on
these sets, recursive exactly as the generic impls call one another. `Content` says what a cursor stands
for; nothing in the code corresponds to it, and the methods do not use it. A vector that cannot grow
beyond `IsizeMax` makes `chunk_mut` panic (`Opens`). `saturating_add` in `remaining` and
`remaining_mut` of a chain is a plain sum: a count that saturates is beyond what anybody reads or
writes. `Bytes` and `BytesMut` as cursors have one chunk, like slices; their methods are in `BytesViews`.

`BufReader` runs `advance`, `copy_to_slice`, `copy_to_bytes`, `try_get_u8` and `try_get_u16` (for
all integers) in any order. `passed` is how many bytes `advance` was told to pass over; no method reads it.
With it `ByteStream` says of every byte of the message that it was taken, passed over or is left, so an
advance that goes too far or not far enough is no step of it. `want` is the rest of `dst` in a running `copy_to_slice`. Calls with
more bytes than remain panic, as documented, and have no action, except `try_get_*`, whose doc says
otherwise.

`Transfer`: a running `put` or `put_slice` moves `feed`, which is what `(&mut src).take(n)` is; the
source moves with it; a running call is therefore one more `Take`, and the inputs have one level less.
Memory that has not been written is `Uninit`, so that a byte that arrives is
told from one that was skipped. Sockets are read by the kernel into the chunk.

`WriteAll`: the task lends its cursor to every poll, so that a call that returned `Pending` is
repeated with what is left. The socket is external: it accepts any number of the bytes offered that
it has room for, answers `Pending` and keeps the waker when it is full, accepts nothing for ever
once the peer has ended, and answers with an error once it was reset. `Vec` and slice are the impls
of write.rs. The provided `poll_write_vectored`, which those two have, writes the first slice only.
`poll_flush` has nothing to flush in any of the three; `poll_shutdown` ends what the socket accepts.
The impls for `&mut T`, `Box<T>` and `Pin<T>` pass every method on, the provided ones included, so a
writer behind them is the writer.

### Faults

Operators named `X_Y` under a comment `FAULT` are plausible slips of the code for `X`; they are
used by no specification and say which mistake a property would notice.

## Runs

`tlc -config <cfg> <module>`; numbers are distinct states.

| Run | Configuration | Checks | Size |
|---|---|---|---|
| counting | `MCSharedBuffer_counting.cfg`: 3 threads, 3 handles, 2 blocks | all safety properties, `IndInv`, `PromotedOnce`, implements `BufferOwnership`, every call returns, no buffer is forgotten | 267k |
| copy, leak | 2 threads, 3 handles, 3 blocks | statements the code does not keep | |
| ordering | `MCHappensBefore_ordering.cfg`: 2 threads, 3 handles, 2 blocks | accesses happen before disposal and before reclaiming, the loser of a promotion sees the block, `OrderInv` | 740k |
| relaxed | 2 threads | a statement the code does not keep | |
| views | `MCBytesViews_safety.cfg`: 2 handles, allocations up to 3 bytes | bounds, exclusiveness, `reserve` and `try_reclaim`, implements `ByteVectors` | 79k |
| three | `MCBytesViews_three.cfg`: 3 handles, one block, 2 bytes, static data, empty vectors | ownership, counts, implements `ByteVectors` | 108k |
| adjacent | no gap between allocations | a statement the code does not keep | |
| cursors | `MCCursors_cursors.cfg`: reading from 360 cursors of up to three levels, or moving from 15 sources to 40 destinations | contracts of `chunk` and `chunks_vectored`, implements `ByteStream`, bytes arrive once and in order, loops end | 22k |
| writing | `MCWriteAll_writing.cfg`: 12 sources, the three writers | bytes are sent once and in order, answers are true, no lost wake-up, calls return | 5k |
| wide | `MCWriteAll_wide.cfg`: a take of more slices than it looks at, in front of another cursor | a statement the code does not keep | |
| parts | `MCParts_parts.cfg`: see below | numbers, the limit of the count, growth at the width of `usize`, combined futures, UTF-8 | 43k |

Bounds, and why they are enough. *Threads*: the races are between a promotion that wins, one that
loses, and a thread that reads the word in between or afterwards: three. *Handles*: the handle
that is cloned and the two clones, each of which can be dropped or converted while the others are
made: three. *Blocks*: one per concurrent promotion; a lost promotion never gives its block back
(see *Findings*), so two allow a win and a loss, or a promotion after earlier use. The proofs have no
bound. In `ordering` two threads suffice for the properties, which are about an access of one thread
and a step of another; the views make the state space large. *Capacity*: with three bytes a view can have room
on both sides, and moving two bytes down by one overlaps, which is the case that `offset >= len`
excludes. *Allocations*: three, so that both handles can have one and a reallocation a third.
Reallocations that exceed `MaxCap` are not taken (`CanReserve`). A third handle matters for the
count, and is checked with a smaller capacity.

*Cursors*: leaves of up to two bytes, so that a cut can fall before, inside, at the end of and
between the parts, three levels deep, so that every adapter occurs below, above and beside every
other, empty parts included; two levels in `writing`, four in `wide`, whose take holds more slices.
*Slices of a vectored call*: the limits of the code, 32 in
`Take::chunks_vectored` and 64 in `poll_write_buf_vectored`, are `TakeSlices = 2` and
`IoSlices = 2`, so that a cursor of three slices goes beyond them (in `wide` `IoSlices = 4`, more than
`TakeSlices`, as in the code); `Slots = 4` is more than any cursor has. *Growth of a vector* (64 in the code): 1 or 2, so that a chunk is filled and the vector
grows again. *IsizeMax* is 4 in `cursors`, so that a vector reaches it, `put` finds too little room and
`chunk_mut` panics, and 10 in `writing`, more than is ever written. *Socket*: room for three bytes, fewer
than the longest message, so that it fills up in the middle of a chunk and at its end.

*Parts*. `AsciiNumber`: the widths of `u8` and `i8`, whose ends have three digits, and texts of up to
four characters: both ends of both ranges and the first numbers beyond them occur, the digit limits are
reached and passed, and `wrapping_atou` wraps more than once. `RefCountLimit`: `isize::MAX` is 3 and
three threads may all be inside `increment`, which is the most the argument allows. `GrowthLimit`:
`isize::MAX` is 4, so that an allocation has up to three bytes and every request from 0 to 9 is made,
the ones that wrap included. `ByteStrs`: two handles and three bytes, enough for a character of each
width and for a cut inside one. `Combinators`: seven combinations of up to three leaves, in which
each combinator is inside and around `Then`; `FutureDepth = 4` is as deep as they are.

Symmetry (threads, handles and blocks in `MCSharedBuffer` and `MCHappensBefore`; handles in
`MCBytesViews`) is used in runs without liveness only. `CHECK_DEADLOCK FALSE` because a program may drop all its handles, or
have moved all its bytes, and stop.

Fairness. `SharedBuffer`: weak fairness of `Step(t)`, the steps of a thread that is inside a call.
The operating system schedules a running thread eventually, and no step waits for another thread.
Nothing is assumed about calls being made or handles being dropped. `BufReader` and `Transfer`: weak
fairness of the iterations, for the same reason; an iteration that changes nothing does not count as
progress, which is how a loop that spins would show. `WriteAll`: weak fairness of `Poll`, because an
executor polls a task that is not waiting, and of `Drain`, because the peer of a connection that
stays open reads what was sent; without it a full socket may stay full, and the call rightly waits.
`Combinators`: weak fairness of `PollTask`, because an executor polls a task that was woken, and of
`GetsReady`, because a future that never gets ready says nothing about the combinators around it;
nothing is assumed about spurious polls. `HappensBefore` has the fairness of `SharedBuffer` and no
liveness property of its own.

## Properties

`SharedBuffer`: `HeldBufferIsLive` (no use after free by a handle), `CountIsExact`, `OneCounter`
(concurrent promotions leave one counter), `DisposedByOne` (no double free), `ReclaimIsExclusive`
(after `is_unique` said yes, nobody else can reach the buffer), `PromotedOnce` (the word of a
shared handle changes once), `CallsReturn`, `NeverForgotten`, `ImplementsOwnership`.

`BytesViews`: `ViewsInBounds`, `WritableIsExclusive`, `OwnedOnce` (every allocation is denoted,
with start and size, by exactly one owner), `BlocksCount`, `ReserveReserves`, `ReclaimIsHonest`,
`ImplementsVectors` (the bytes are those of independent vectors).

`BufReader`: `ChunkKeepsContract`, `VectoredKeepsContract`, `ImplementsStream` (a chain is the
concatenation, a take the prefix, for every mixture of methods; `advance` passes over exactly as many
bytes as it is told to, across the border of a chain as well), `CopyEnds`. `Transfer`:
`MovedOnceInOrder` (in the middle of a call, too), `TransferEnds` (no call spins on an empty chunk).
`WriteAll`: `SentOnceInOrder` (across short writes, `Pending` and errors), `ParkedHasWaker`,
`AnswersAreTrue` (`Ok` means all of it, `WriteZero` means the writer takes no more, an error means
that the socket was reset or shut down), `CallsReturn`.

`HappensBefore`: `UsesBeforeDisposal` (who frees or takes over the buffer has seen every access of
everybody), `UsesBeforeReclaim` (so has who writes to reclaimed room), `LoserSeesBlock`, and
`OrderInv`, why they hold: every access is known to somebody who still has to decrement, or has been
left with the count.

`RefCountLimit`: `LimitInv` (the count passes `isize::MAX` by at most one for each thread that is
about to abort, so it never wraps to a value at which a live block is freed). `GrowthLimit`:
`ReserveIsHonest` (for every request in a debug build, where a sum that wraps panics; in a release build
for requests up to `isize::MAX`, which is all that `extend_from_slice` can make), `AllocationIsExact` (the `Vec` is rebuilt with the pointer and capacity
it had). `AsciiNumber`: `NumberIsExact` (the number denoted, or refused for a reason).
`ByteStrs`: `StrsAreUtf8`. `Combinators`: `AnsweredAsBuilt` (after every poll, the
closures called and those still in the future are the ones of the program, in their turn; the argument
of each and the answer are right. A poll that takes the closure out of a `Map` before the inner future
is ready loses it, and is the fault that shows), `PolledWithinContract` (no future polled after it was ready, no
"poll after complete"), `PartCompletes` (no wake-up is lost).

## Findings

* `copy`: `into_vec` (bytes.rs:686) and `into_mut` (bytes.rs:751) copy the bytes after their
  reference has been released. If another thread drops the last handle in between, they read freed
  memory. shared.rs:173 promises the opposite order.
* `leak`: a promotion that is lost to another thread leaks its `Shared`: it is created with count 2
  (bytes.rs:774), so the `release` at bytes.rs:803 leaves it at 1.
* `adjacent`: `try_unsplit` merges handles whose bytes are adjacent without checking that they
  share a block. With an allocator that leaves no gap between allocations, two allocations become
  one view. All other runs assume a gap.
* `relaxed`: `clone` loads the word Relaxed (bytes.rs:581; `is_unique` at bytes.rs:568 likewise) and
  dereferences the block it finds. If another thread has just promoted the same `Bytes`, nothing
  orders its writes to the new block before. The comment that justifies the Relaxed increment
  (shared.rs:146) assumes that the reference which was passed on already led to the block.
* `wide`: `Take::chunks_vectored` looks at 32 slices of its inner cursor (take.rs:49-54),
  `poll_write_buf_vectored` offers 64 (write.rs:187). A take of more than 32 slices in front of another
  cursor, in a `Chain`, shows its first 32 and then those of the other: a gap, contrary to
  buf.rs:124. The bytes behind the gap are sent, and `advance` then passes over bytes that
  were not. A cursor in which this cannot happen is `Gapless`, the hypothesis of three theorems.

### Observations

Met while modelling, in the modules as the code has them, and without a run of their own, as none
of the promises the other properties state is touched.

* `try_get_u16` and the other `try_get_*` of more than one byte panic when too few bytes remain
  (buf.rs:26 calls `copy_to_slice`, which asserts); buf.rs:22 says they return `None`. Nothing has
  been consumed when they do (`TryGetInt`).
* `poll_write` of `&mut [u8]` panics when it is given more than fits (write.rs:268), although it has
  computed how much fits; the slice is left empty (`Panics`). A caller of `poll_write_all_buf` never
  gets its `WriteZero` from a full slice.
* `reserve` with more than `isize::MAX` bytes: in a release build `additional + self.cap`
  (bytes_mut.rs:254) and `len + additional` (bytes_mut.rs:288, :353) can wrap, and `reserve` returns
  with too little room. No call of the crate asks for that much: `extend_from_slice` is given a slice.
* `atou` and `atoi` refuse a text of more than 20 characters even if it is a small number with zeros
  in front; the doc of `atou` says so, that of `atoi` (num.rs:45-48) does not.

* `try_reclaim` and `reserve` compare the gained tail alone with the request (bytes_mut.rs:321), not
  the tail and the spare capacity together: they refuse, or reallocate, although there is room.
  bytes_mut.rs:70 says of such a handle that "in this case, reclaiming will always succeed".
* `BytesMut::truncate_off` empties the buffer when the offset is its length (bytes_mut.rs:443); the
  doc at bytes_mut.rs:431 says an offset that is not less than the length has no effect.

## Proofs

### SharedBuffer_proofs

For any sets of threads, handles (finite) and blocks, the invariant `IndInv` of `SharedBuffer`, and
from it `TypeOK`, `HeldBufferIsLive`, `CountIsExact`, `OneCounter`, `DisposedByOne` and
`ReclaimIsExclusive`, the action property `PromotedOnce`, and that `SharedBuffer` implements
`BufferOwnership` (`Refinement`). Assumptions: those named in `SharedBuffer` (handles are finitely
many, the special values are no members of the sets).

`CountIsExact` is not inductive by itself. `IndInv` adds what each call relies on between two of
its atomic operations:

* a block that is not installed yet, or has lost its promotion, is in no handle and counts 2
  (`PrivateInv`): hence the loser does not free the winner's buffer;
* a thread about to increment still holds the handle it borrowed, whose word is the block it read
  (`IncrementInv`): hence the block has not been freed;
* a handle that was consumed is out of reach but still counts (`ConsumedInv`);
* a thread that disposes of the buffer is alone, and no handle is left (`FinishingInv`);
* while a thread reclaims, no other handle exists (`ReserveInv`).

The proof has one lemma per action, or per group of actions with the same effect; the counting
lemmas at the top (`OneMore`, `OneLess`, `SoleHolder`) carry the arithmetic. TLC checks `IndInv`
as an invariant of the run `counting`.

`PromotedOnce` follows because a step that changes the word of a handle is the promotion, or belongs
to the only thread that can reach it (`WordChange`). For the refinement the holders of the abstract
buffer are the handles with a word and the handle of a thread that is disposing of the buffer
(`Owners`): `Promote`, `Increment` and the splits are `Share`; a decrement that leaves others is
`Leave`; one that reaches zero changes nothing yet, and `Free` or `TakeVec` after it is `LastLeave`;
all else is a stuttering step.

### HappensBefore_proofs

Every step of `HappensBefore` is a step of `SharedBuffer` (`StepsOfSharedBuffer`), so `IndInv` holds
here too (`HBInvariance`), and with it `OrderInv` is inductive (`OrderInvariance`). Its core is that
nothing is lost: every access of a thread to an unpromoted buffer is in the view of somebody who can
reach the handle, or was left with the handle when it was given back; every access to a promoted
one, and the initialisation of its block, is in the count or known to a holder of the block; and a
thread that is about to dispose of the buffer has, or finds in the count, all of it. An access is
forgotten by the others only when its thread makes a new one, and a thread that accesses the buffer
can reach a handle, so it remembers for them; a thread that lets a handle go decrements, which
leaves its view with the count (`release` and `release_into_vec` have Release ordering). From it
`UsesBeforeDisposal`, `UsesBeforeReclaim` and `LoserSeesBlock`. Assumption, besides those of
`SharedBuffer`: threads and blocks are told apart (`FactAssumption`), as both stand for facts in a
view.

### BytesViews_proofs

For any finite set of places, any blocks, number and size of allocations, requests and static data,
`ViewsInv` (`ViewsInvariance`), and from it `ViewsInBounds`, `WritableIsExclusive`, `OwnedOnce`,
`BlocksCount`, `ReserveReserves` and `ReclaimIsHonest`. `ViewsInv` says that

* each handle's fields agree with its type, and it lies within the block it counts on; without a
  block, the pointer and capacity it would be freed with are those of one allocation (`PlaceOK`,
  `Backed`);
* each allocation has exactly one owner, a handle or a block (`OneOwner`, `NoLeak`), and the count of
  a block is the number of its handles (`Counted`);
* of two handles of one block, one of them a `BytesMut`, the extents are apart (`Divided`).

None of the properties is inductive by itself: that a view is in bounds after `reserve` took the tail
or moved to the front needs the count to be exact, and the count cannot be used without the bounds
of whoever left.

The invariant is written about any handles and any heap, `Sound(HS, H)`, not about the variables.
Most methods are several simpler changes one after the other, as in the code: `truncate` of an
unpromoted `Bytes` shares and drops, `reserve` drops after it has allocated, `unsplit` and `put` drop
one handle and reshape the other. There is a lemma for each simple change (a handle is promoted,
joins a block, leaves it, is freed, moves, is reshaped), and a method is a chain of them through
sound intermediate states, though only the last is a state of the specification. In two cases the
model orders them differently from the lemma, and lemmas about the heap say that the order does not
matter (`IncrementRelease`, `DropElsewhere`).

The theorems assume `Gap # 0`: that the allocator leaves room between two allocations. It is needed
for `try_unsplit` alone (`TouchingShare`: handles that touch count on one block), and cannot be
avoided, as the run `adjacent` shows. The other assumptions are `BoundsAssumption`, that the bounds
are numbers, and `PlacesAssumption`, that there are finitely many places and that an empty one is
told from a full one.

### ByteVectors_proofs

For the same values of the constants, `BytesViews` implements `ByteVectors` (`ViewsImplementVectors`),
and every byte that a handle shows has been written (`ShownBytesAreWritten`). The invariant that
`ViewsInv` does not give is `FilledInv`: the bytes of every handle are bytes that somebody wrote, and
the static data are there. It is needed because the abstract vectors have no unwritten bytes: a step
that uncovered one would not be a step of `ByteVectors`.

The argument has two halves.

* *Nobody else.* A method writes only where the handle that it leaves may write (`Confined`): it is
  unpromoted, a `Vec` or a `BytesMut`. By `ViewsInv` of the state after, no other handle reaches these
  bytes (`WriterAlone`), so the others show what they showed (`OthersKeep`); forgetting the bytes that
  nobody shows changes nothing that is shown (`StoreKeeps`). `StepFrame` puts this together once.
* *Its own handles.* For each method, what the handles it was given show afterwards, as an action of
  `ByteVectors`: nothing changes (`SameStep`: conversions, `freeze`, `reserve` and `try_reclaim`), a
  part is cut off (`CutStep`), a part or a copy goes to a new handle (`SliceStep`, `CopyStep`), the
  vector is divided (`SplitStep`), grows (`ExtendStep`), or takes up another (`AppendStep`).

The methods that move bytes are where the invariant is used twice. `reserve_inner` copies without
overlap because it looked at the offset, or because a new allocation is apart from every other
(`CarriesCopy`, `NewIsApart`); `unsplit` and `put` copy from a handle that is apart from the room made
in the other, and making the room has not moved the bytes of the source (`AppendCopyShown`).

The hypothesis `Gap # 0` comes from `ViewsInvariance`. One more assumption, `VectorsAssumption`: a
place without a handle is told from one with an empty vector.

### Cursors_proofs

What the methods of `Buf` and `BufMut` compute, for cursors of every shape and depth, any bytes and any
limits. The prover has no induction over data, so the induction is made of parts it does have. A tree
belongs to a level, and there are `Depth` levels: of a set of cursors one shows that with all trees of a
level it contains all of the next, and `UpToInduction`, which rests on the least element of a set of
numbers (`LeastIn`), gives all of them. That a method satisfies its own recursive equation is a lemma
too (`RemainingDef`, `ChunkDef`, ...), because a recursive function is a choice: one builds such a
function level by level.

The laws, each proved from these for all cursors:

* `ContentLaw`, `ChunkLaw`: `remaining` counts the content, `chunk` leads it, and is empty only when it is;
* `AdvanceLaw`: what is left is the content without its first `n` bytes, in a cursor of the same
  shape (`Moved`, `Alike`);
* `CopyLaw`, `DrainedLaw`: `copy_to_bytes` and the loop of `BytesMut::put` over a source hand over the
  front of the content and leave the rest. A loop is a function whose rank decreases (`Loop`), which `chunk` being empty only at
  the end guarantees;
* `VectoredLaw`: the slices of `chunks_vectored` are not empty, are no more than the slots, and lead the
  content, for a `Gapless` cursor; with a cursor that is not, `wide` shows the opposite;
* `FillsLaw`, for `BufMut`: `chunk_mut`, a write into the chunk and `advance_mut` append exactly these
  bytes to what was written, if the parts of a chain have been filled in order (`InOrder`), and keep it so.

### Streams_proofs

* `BufReader`: the invariant `ReadInv` (a running `copy_to_slice` never wants more than remains). Each
  method hands over the front of the content, or passes over it and says how far (`Reads`). From it `ChunkContract`;
  `ReaderImplementsStream`, the refinement of `ByteStream`; and `VectoredContract`, under the hypothesis
  that the sources are `Gapless`: no step makes a cursor that is not.
* `Transfer`: `TransferInv`, and from it `TransferMovesOnce` (`MovedOnceInOrder`). `MovedOnceInOrder` is
  not inductive by itself. A `Vec` looks at its room once, at the beginning of `put`, and then copies
  whole chunks, so the invariant says that the room is still enough for what remains (`RoomKept`); and a
  byte is appended to what was written only if no part of the destination was written ahead of an
  earlier one (`InOrder`).

### WriteAll_proofs

`WriteInv`: what the writer has taken and what the cursor holds make up the message, and the cursor has
no gap. Every poll offers bytes that lead the content, every writer takes a front of them
(`AcceptsFront`), and the cursor advances by as many. From it `NothingLostNorSentTwice`
(`SentOnceInOrder`) and `AnswersTrue` (`AnswersAreTrue`): a call that returns `Ok` has an empty cursor,
one that fails has not. Both are for sources that are `Gapless` for the slices a vectored write offers,
and `wide` shows that they need to be. `WaitingTaskIsWoken` (`ParkedHasWaker`) is for every source.

### Parts_proofs

* `RefCountLimit`: `LimitInv` and `FreedWithoutReferences` for every limit and every finite
  set of threads that is no larger than it (`LimitAssumption`: no machine has 2^63 threads). The
  invariant counts the threads that have added beyond the limit and have not looked yet (`Doomed`):
  each is responsible for one reference beyond `isize::MAX`, and adding once more makes a thread
  doomed, so that the count stays below `usize::MAX`.
* `GrowthLimit`: `GrowInv`, `ReserveIsHonest` and `AllocationIsExact` for every width. The
  invariant ties the tagged word to the place of the pointer; with it no sum of the fields wraps, and
  each case of `reserve_inner` is a lemma about the record it returns. Assumed: an allocation has
  fewer than `isize::MAX` bytes.
* `AsciiNumber`: `NumberInv` and `NumberIsExact` for all widths and limits on the length. While
  digits are read the accumulator is the number denoted so far, or that number modulo the width; a
  number that has left its range does not come back with more digits, so refusing it early is right.
* `ByteStrs`: `StrsAreUtf8` for any handles and lengths. The lemmas say that the part of a
  valid string between two boundaries is valid.
* `Combinators`: `ClosuresCalledOnce` (`AnsweredAsBuilt`) and `NeverPolledAgain`
  (`PolledWithinContract`) for every nesting, any leaves and any closures. The core is `PollLaw`, by the
  same induction as for cursors: the poll of an unfinished future either answers what the future stands
  for and has called all its closures, or is pending and leaves an unfinished future that stands for the
  rest, none of whose leaves has answered yet. `FutureInv` carries it from poll to poll: the closures
  called so far and those that what is left stands for make up the ones of the program. That a leaf is in
  one place (`Unfinished`) is needed for `Then`, which leaves its first future behind for its second.

### Only model-checked

The liveness properties (`CallsReturn`, `NeverForgotten`, `CopyEnds`, `TransferEnds`, `PartCompletes`):
fairness and ENABLED are out of the prover's reach. Every safety invariant, action property and
refinement that a passing run checks is also the statement of a theorem, and every source of these runs
satisfies the hypothesis `Gapless` of the theorems that have it, takes of more slices than they look at
included, as long as nothing is behind them.

## Not modelled

Formatting and macros keep no state, and `Either` and `EitherMap` other than as futures only pass
calls on. A `&BytesMut` shared by threads only reads. Allocation failure aborts the process. Calls
whose panic is documented change nothing that survives. Of the cursors: the order of bytes within an
integer, the indexing of `UninitSlice`, which only makes a smaller one, and impls that only forward
(`&mut T`, `Box`, `Pin`). Comparisons only read. Methods that take a pointer instead of an index
(`split_to_ptr`, `advance_to_ptr`) compute the index and call the ones that are modelled.

## Plan

Every part of the plan is done: what is modelled is checked, and proved up to liveness. What could come
next are the decreasing ranks behind the liveness properties (the bytes that remain in `copy_to_slice`,
`put` and `poll_write_all_buf`, the combinators still above a leaf), which can be stated as action
properties and proved.

Runs are kept few: a new question joins an existing run where the instance allows it.
