------------------------------- MODULE Buffer -------------------------------
(***************************************************************************)
(* The zero-copy buffer substrate of mqtt-proto (src/mqtt-proto/src/       *)
(* buffer.rs): one backing region lent by a BufferPool, the exclusive      *)
(* writable views (Owned) and the cloneable read-only views (Shared) cut   *)
(* out of it, and the return of the region to the pool by the drop of the  *)
(* last Backing handle; and the ByteStr (src/mqtt-proto/src/byte_str.rs),  *)
(* a Shared whose first two bytes are the big-endian length of the rest,   *)
(* as decode cuts it out of a Shared and encode copies it into an Owned.   *)
(*                                                                         *)
(* Owned and Shared hold an Arc<UnsafeCell<[u8]>>, which is neither Send   *)
(* nor Sync, so every view of a region lives on one thread: the model's    *)
(* nondeterminism is the order in which a program calls the API on its     *)
(* views, each call atomic.  A view is a slot of the constant set Views.   *)
(* The Arc strong count is a variable of its own, moved as the code moves  *)
(* it: Owned::new takes the pool's unique Arc, a clone of a Backing        *)
(* raises it, and Backing::drop reads it (Arc::get_mut) and lowers it.     *)
(* Which views are live is a separate matter; PooledIffUnreferenced        *)
(* relates the two.  The ghost variable snap                               *)
(* records, per view, the bytes it has read or written: a view must read   *)
(* them back unchanged for as long as it lives.                            *)
(*                                                                         *)
(* The assert! at the top of drain, fill and split_to is the caller's      *)
(* precondition (a violation panics); it is a guard here.                  *)
(***************************************************************************)
EXTENDS Naturals, FiniteSets, Functions

CONSTANTS
  Views,    \* slots for the Owned and Shared values a program holds
  Len,      \* length of the backing region
  Bytes,    \* the byte values that matter (a small set)
  MaxPut    \* longest slice written by one try_put_slice

ASSUME Len \in Nat \ {0}
ASSUME MaxPut \in Nat \ {0}

VARIABLES
  pooled,   \* how many times the pool currently holds the region (0 or 1)
  strong,   \* the strong count of the Arc the Backings share (0 in the pool)
  mem,      \* the bytes of the backing region
  view,     \* view[v]: the Owned / Shared held in slot v, or a free slot
  snap,     \* ghost: snap[v][o] is the byte view v read or wrote at offset o
  result    \* outcome of the last call

vars == <<pooled, strong, mem, view, snap, result>>

Offsets == 0 .. (Len - 1)
Kinds == {"none", "owned", "shared", "str"}
\* "None" is the Ok(None) of ByteStr::decode: not enough bytes yet.
Results == {"Ok", "None", "InsufficientBuffer", "IncompletePacket"}

NoView == [kind |-> "none", start |-> 0, end |-> 0, filled |-> 0]

Live == {v \in Views : view[v].kind # "none"}
Free == Views \ Live

\* The bytes a view can read: the filled region of an Owned, the range of
\* a Shared or of a ByteStr.
Readable(v) ==
  IF view[v].kind = "owned" THEN view[v].start .. (view[v].filled - 1)
                             ELSE view[v].start .. (view[v].end - 1)

\* The bytes an Owned hands out through unfilled_mut(), [filled, range.end).
Writable(v) ==
  IF view[v].kind = "owned" THEN view[v].filled .. (view[v].end - 1) ELSE {}

\* Every byte a view gives access to.
Reachable(v) == Readable(v) \cup Writable(v)

\* The ghost record of view v once its filled region is [r.start, r.filled):
\* what v recorded before, and the bytes in m of what it newly filled.
Extended(v, r, m) ==
  [o \in r.start .. (r.filled - 1) |-> IF o \in DOMAIN snap[v] THEN snap[v][o] ELSE m[o]]

TypeOK ==
  /\ pooled \in 0 .. 2
  /\ strong \in Nat
  /\ mem \in [Offsets -> Bytes]
  /\ \A v \in Views :
       /\ view[v].kind \in Kinds
       /\ {view[v].start, view[v].end, view[v].filled} \subseteq 0 .. Len
       /\ view[v].kind = "owned" => view[v].start <= view[v].filled
                                    /\ view[v].filled <= view[v].end
       /\ DOMAIN snap[v] \subseteq Offsets
       /\ \A o \in DOMAIN snap[v] : snap[v][o] \in Bytes
  /\ result \in Results

\* ByteStr::len: the big-endian u16 in the first two bytes of the view.
StrLen(v) == 256 * mem[view[v].start] + mem[view[v].start + 1]

\* ByteStr::as_bytes: the offsets of the view past its length prefix.
AsBytes(v) == (view[v].start + 2) .. (view[v].end - 1)

\* ByteStr::is_empty: the whole view is the two bytes 0, 0.
IsEmpty(v) ==
  /\ view[v].end - view[v].start = 2
  /\ mem[view[v].start] = 0 /\ mem[view[v].start + 1] = 0

-----------------------------------------------------------------------------
(* Operations.                                                            *)

\* Owned::new(pool, backing): the pool hands out its region, which must be
\* uniquely owned (the assert on Arc::get_mut); the new Owned covers the
\* whole region with nothing filled.
New(v) ==
  /\ pooled = 1
  /\ v \in Free
  /\ pooled' = 0
  /\ strong' = 1
  /\ view' = [view EXCEPT ![v] = [kind |-> "owned", start |-> 0, end |-> Len,
                                  filled |-> 0]]
  /\ snap' = [snap EXCEPT ![v] = <<>>]
  /\ result' = "Ok"
  /\ UNCHANGED mem

\* Faulty variant of OwnedDrain: the assert is missing, so a drain past
\* the filled cursor goes unnoticed.
OwnedDrainUnchecked(v, n) ==
  /\ view[v].kind = "owned"
  /\ view[v].start + n <= view[v].end
  /\ LET r == [view[v] EXCEPT !.start = @ + n] IN
       /\ view' = [view EXCEPT ![v] = r]
       /\ snap' = [snap EXCEPT ![v] = Restrict(snap[v], r.start .. (r.filled - 1))]
  /\ result' = "Ok"
  /\ UNCHANGED <<pooled, strong, mem>>

\* Owned::drain(n): drops n bytes from the front of the filled region.
OwnedDrain(v, n) ==
  /\ view[v].kind = "owned"
  /\ view[v].start + n <= view[v].filled
  /\ LET r == [view[v] EXCEPT !.start = @ + n] IN
       /\ view' = [view EXCEPT ![v] = r]
       /\ snap' = [snap EXCEPT ![v] = Restrict(snap[v], r.start .. (r.filled - 1))]
  /\ result' = "Ok"
  /\ UNCHANGED <<pooled, strong, mem>>

\* Owned::fill(n) after the caller wrote nothing through unfilled_mut: the
\* bytes already in the region (a previous user's data) become filled.
OwnedFill(v, n) ==
  /\ view[v].kind = "owned"
  /\ view[v].filled + n <= view[v].end
  /\ LET r == [view[v] EXCEPT !.filled = @ + n] IN
       /\ view' = [view EXCEPT ![v] = r]
       /\ snap' = [snap EXCEPT ![v] = Extended(v, r, mem)]
  /\ result' = "Ok"
  /\ UNCHANGED <<pooled, strong, mem>>

\* Faulty variant of TryPutSlice: copies to the front of the range rather
\* than to unfilled_mut(), over bytes the view already filled.
TryPutSliceAtStart(v, src) ==
  /\ view[v].kind = "owned"
  /\ LET f == view[v].filled
         k == DOMAIN src
         s == view[v].start
     IN
     /\ view[v].end - f >= Cardinality(k)
     /\ mem' = [o \in Offsets |-> IF o - s \in k THEN src[o - s] ELSE mem[o]]
     /\ view' = [view EXCEPT ![v].filled = f + Cardinality(k)]
     /\ snap' = [snap EXCEPT ![v] = Extended(v, view'[v], mem')]
     /\ result' = "Ok"
     /\ UNCHANGED <<pooled, strong>>

\* <Owned as ByteBuf>::try_put_slice(src): copies src into the start of
\* unfilled_mut() and fills it, or fails with InsufficientBuffer and leaves
\* the view as it was.
TryPutSlice(v, src) ==
  /\ view[v].kind = "owned"
  /\ LET f == view[v].filled
         k == DOMAIN src
     IN
     \/ /\ view[v].end - f < Cardinality(k)
        /\ result' = "InsufficientBuffer"
        /\ UNCHANGED <<pooled, strong, mem, view, snap>>
     \/ /\ view[v].end - f >= Cardinality(k)
        /\ mem' = [o \in Offsets |-> IF o - f \in k THEN src[o - f] ELSE mem[o]]
        /\ view' = [view EXCEPT ![v].filled = f + Cardinality(k)]
        /\ snap' = [snap EXCEPT ![v] = Extended(v, view'[v], mem')]
        /\ result' = "Ok"
        /\ UNCHANGED <<pooled, strong>>

OwnedSplitTo(v, w, i) ==
  /\ view[v].kind = "owned"
  /\ w \in Free
  /\ view[v].start + i <= view[v].end
  /\ LET s == view[v].start
         f == view[v].filled
         split == [kind |-> "owned", start |-> s, end |-> s + i,
                   filled |-> IF f < s + i THEN f ELSE s + i]
         kept  == [view[v] EXCEPT !.start = s + i,
                                  !.filled = IF f > s + i THEN f ELSE s + i]
     IN
     /\ view' = [view EXCEPT ![w] = split, ![v] = kept]
     /\ snap' = [snap EXCEPT ![w] = Restrict(snap[v], split.start .. (split.filled - 1)),
                             ![v] = Restrict(snap[v], kept.start .. (kept.filled - 1))]
  /\ result' = "Ok"
  /\ strong' = strong + 1
  /\ UNCHANGED <<pooled, mem>>

\* Owned::freeze(): the Owned becomes a Shared over its filled region; the
\* Backing moves, so the strong count is unchanged.
Freeze(v) ==
  /\ view[v].kind = "owned"
  /\ LET r == [kind |-> "shared", start |-> view[v].start,
               end |-> view[v].filled, filled |-> 0]
     IN
     /\ view' = [view EXCEPT ![v] = r]
     /\ snap' = [snap EXCEPT ![v] = Restrict(snap[v], r.start .. (r.end - 1))]
  /\ result' = "Ok"
  /\ UNCHANGED <<pooled, strong, mem>>

\* #[derive(Clone)] for Shared, and for ByteStr: a second view of the same
\* kind over the same range.
SharedClone(v, w) ==
  /\ view[v].kind \in {"shared", "str"}
  /\ w \in Free
  /\ view' = [view EXCEPT ![w] = view[v]]
  /\ snap' = [snap EXCEPT ![w] = snap[v]]
  /\ result' = "Ok"
  /\ strong' = strong + 1
  /\ UNCHANGED <<pooled, mem>>

\* Shared::drain(i).
SharedDrain(v, i) ==
  /\ view[v].kind = "shared"
  /\ view[v].start + i <= view[v].end
  /\ view' = [view EXCEPT ![v].start = @ + i]
  /\ snap' = [snap EXCEPT ![v] = Restrict(@, (view[v].start + i) .. (view[v].end - 1))]
  /\ result' = "Ok"
  /\ UNCHANGED <<pooled, strong, mem>>

\* Shared::split_to(i): w gets [start, start + i), self keeps the rest.
SharedSplitTo(v, w, i) ==
  /\ view[v].kind = "shared"
  /\ w \in Free
  /\ view[v].start + i <= view[v].end
  /\ LET s == view[v].start IN
     /\ view' = [view EXCEPT ![w] = [view[v] EXCEPT !.end = s + i],
                             ![v] = [view[v] EXCEPT !.start = s + i]]
     /\ snap' = [snap EXCEPT ![w] = Restrict(snap[v], s .. (s + i - 1)),
                             ![v] = Restrict(snap[v], (s + i) .. (view[v].end - 1))]
  /\ result' = "Ok"
  /\ strong' = strong + 1
  /\ UNCHANGED <<pooled, mem>>

\* Shared::try_get_u8 / try_get_u16_be / try_get_u32_be: read k bytes from
\* the front and drain them, or fail with IncompletePacket, unchanged.
TryGet(v, k) ==
  /\ view[v].kind = "shared"
  /\ \/ /\ view[v].end - view[v].start < k
        /\ result' = "IncompletePacket"
        /\ UNCHANGED <<pooled, strong, mem, view, snap>>
     \/ /\ view[v].end - view[v].start >= k
        /\ SharedDrain(v, k)

\* The bytes a peer would have sent as a ByteStr cut at v: what decode takes
\* for its content.
StrContent(v) == [j \in 1 .. Cardinality(AsBytes(v)) |-> mem[view[v].start + 1 + j]]

\* The ghost record of a ByteStr cut out of v over [s, e): what v recorded
\* there, and the two length bytes decode read.
StrSnap(v, s, e) ==
  [o \in (DOMAIN snap[v] \cap s .. (e - 1)) \cup {s, s + 1} |->
     IF o \in DOMAIN snap[v] THEN snap[v][o] ELSE mem[o]]

\* Faulty variant of ByteStrDecode: the length prefix is read little-endian.
ByteStrDecodeLittleEndian(v, w) ==
  /\ view[v].kind = "shared"
  /\ LET s   == view[v].start
         n   == view[v].end - s
         len == mem[s] + 256 * mem[s + 1]
     IN
     \/ /\ n < 2
        /\ result' = "None"
        /\ UNCHANGED <<pooled, strong, mem, view, snap>>
     \/ /\ n >= 2 /\ n < 2 + len
        /\ result' = "None"
        /\ UNCHANGED <<pooled, strong, mem, view, snap>>
     \/ /\ n >= 2 /\ n >= 2 + len
        /\ w \in Free
        /\ view' = [view EXCEPT ![w] = [kind |-> "str", start |-> s, end |-> s + 2 + len,
                                        filled |-> 0],
                                ![v].start = s + 2 + len]
        /\ snap' = [snap EXCEPT ![w] = StrSnap(v, s, s + 2 + len),
                                ![v] = Restrict(snap[v], (s + 2 + len) .. (view[v].end - 1))]
        /\ result' = "Ok"
        /\ strong' = strong + 1
        /\ UNCHANGED <<pooled, mem>>

\* ByteStr::decode(src): Ok(None), src untouched, unless src holds the two
\* length bytes and the len bytes they announce; then src.split_to(2 + len)
\* becomes the ByteStr w.  The content is not looked at.
ByteStrDecode(v, w) ==
  /\ view[v].kind = "shared"
  /\ LET s   == view[v].start
         n   == view[v].end - s
         len == 256 * mem[s] + mem[s + 1]
     IN
     \/ /\ n < 2
        /\ result' = "None"
        /\ UNCHANGED <<pooled, strong, mem, view, snap>>
     \/ /\ n >= 2 /\ n < 2 + len
        /\ result' = "None"
        /\ UNCHANGED <<pooled, strong, mem, view, snap>>
     \/ /\ n >= 2 /\ n >= 2 + len
        /\ w \in Free
        /\ view' = [view EXCEPT ![w] = [kind |-> "str", start |-> s, end |-> s + 2 + len,
                                        filled |-> 0],
                                ![v].start = s + 2 + len]
        /\ snap' = [snap EXCEPT ![w] = StrSnap(v, s, s + 2 + len),
                                ![v] = Restrict(snap[v], (s + 2 + len) .. (view[v].end - 1))]
        /\ result' = "Ok"
        /\ strong' = strong + 1
        /\ UNCHANGED <<pooled, mem>>

\* ByteStr::encode(self, dst): dst.try_put_bytes(self.0), i.e. try_put_slice
\* of the whole view, length prefix included, into the Owned d; self is
\* consumed, so the Backing of the ByteStr w is dropped, as in Drop,
\* whether the copy fits or not.
ByteStrEncode(w, d) ==
  /\ view[w].kind = "str"
  /\ view[d].kind = "owned"
  /\ LET f   == view[d].filled
         src == [j \in 0 .. (view[w].end - view[w].start - 1) |-> mem[view[w].start + j]]
         k   == DOMAIN src
     IN
     \/ /\ view[d].end - f < Cardinality(k)
        /\ view' = [view EXCEPT ![w] = NoView]
        /\ snap' = [snap EXCEPT ![w] = <<>>]
        /\ result' = "InsufficientBuffer"
        /\ pooled' = IF strong = 1 THEN pooled + 1 ELSE pooled
        /\ strong' = strong - 1
        /\ UNCHANGED mem
     \/ /\ view[d].end - f >= Cardinality(k)
        /\ mem' = [o \in Offsets |-> IF o - f \in k THEN src[o - f] ELSE mem[o]]
        /\ view' = [view EXCEPT ![d].filled = f + Cardinality(k), ![w] = NoView]
        /\ snap' = [snap EXCEPT ![d] = Extended(d, view'[d], mem'), ![w] = <<>>]
        /\ result' = "Ok"
        /\ pooled' = IF strong = 1 THEN pooled + 1 ELSE pooled
        /\ strong' = strong - 1


\* ByteStr::into_buffer: the ByteStr gives back its Shared, prefix included.
IntoBuffer(w) ==
  /\ view[w].kind = "str"
  /\ view' = [view EXCEPT ![w].kind = "shared"]
  /\ result' = "Ok"
  /\ UNCHANGED <<pooled, strong, mem, snap>>

\* Faulty variant of Drop: hands the region back when the strong count is
\* 2, as if the pool kept a reference of its own.
DropAtTwo(v) ==
  /\ v \in Live
  /\ pooled' = IF strong = 2 THEN pooled + 1 ELSE pooled
  /\ strong' = strong - 1
  /\ view' = [view EXCEPT ![v] = NoView]
  /\ snap' = [snap EXCEPT ![v] = <<>>]
  /\ result' = "Ok"
  /\ UNCHANGED mem

\* Drop of an Owned or Shared, i.e. Backing::drop: take the Arc; if
\* Arc::get_mut succeeds (strong count 1) hand it to pool.put_back,
\* otherwise drop it, which lowers the strong count.
Drop(v) ==
  /\ v \in Live
  /\ pooled' = IF strong = 1 THEN pooled + 1 ELSE pooled
  /\ strong' = strong - 1
  /\ view' = [view EXCEPT ![v] = NoView]
  /\ snap' = [snap EXCEPT ![v] = <<>>]
  /\ result' = "Ok"
  /\ UNCHANGED mem

-----------------------------------------------------------------------------

Init ==
  /\ pooled = 1
  /\ strong = 0
  /\ mem \in [Offsets -> Bytes]
  /\ view = [v \in Views |-> NoView]
  /\ snap = [v \in Views |-> <<>>]
  /\ result = "Ok"

Next ==
  \/ \E v \in Views : New(v)
  \/ \E v \in Views, n \in 1 .. Len : OwnedDrain(v, n)
  \/ \E v \in Views, n \in 1 .. Len : OwnedFill(v, n)
  \/ \E v \in Views, k \in 1 .. MaxPut, src \in [1 .. MaxPut -> Bytes] :
       TryPutSlice(v, [j \in 0 .. (k - 1) |-> src[j + 1]])
  \/ \E v, w \in Views, i \in 0 .. Len : OwnedSplitTo(v, w, i)
  \/ \E v \in Views : Freeze(v)
  \/ \E v, w \in Views : SharedClone(v, w)
  \/ \E v \in Views, i \in 1 .. Len : SharedDrain(v, i)
  \/ \E v, w \in Views, i \in 0 .. Len : SharedSplitTo(v, w, i)
  \/ \E v \in Views, k \in {1, 2, 4} : TryGet(v, k)
  \/ \E v, w \in Views : ByteStrDecode(v, w)
  \/ \E w, d \in Views : ByteStrEncode(w, d)
  \/ \E w \in Views : IntoBuffer(w)
  \/ \E v \in Views : Drop(v)

Spec == Init /\ [][Next]_vars

-----------------------------------------------------------------------------
(* Properties.                                                            *)

ReadsAreStable ==
  \A v \in Live : \A o \in DOMAIN snap[v] :
    o \in Readable(v) /\ mem[o] = snap[v][o]

\* The pool holds the region exactly once when no view refers to it and not
\* at all while one does: Backing::drop decides on the Arc strong count
\* alone, so every operation that creates a view (split_to, clone, decode)
\* must clone the Backing and every one that ends a view must drop it, for
\* put_back to happen exactly once, on the drop of the last live view, and
\* never while a view can still read or write the region.
PooledIffUnreferenced ==
  pooled = IF Live = {} THEN 1 ELSE 0


\* A ByteStr's len() is the number of bytes as_bytes() hands out, and
\* is_empty() holds exactly when that number is 0, for as long as the
\* ByteStr lives: decode must cut exactly the 2 + len bytes the big-endian
\* prefix announces, and no later write through an Owned of the same region
\* may reach the prefix or the content.
StrLenAgrees ==
  \A v \in Live : view[v].kind = "str" =>
    /\ StrLen(v) = Cardinality(AsBytes(v))
    /\ IsEmpty(v) <=> StrLen(v) = 0

\* UTF-8 well-formedness (RFC 3629; the Unicode table of well-formed byte
\* sequences): the width a first byte announces, the range allowed for the
\* second byte after it, and the continuation range 80-BF for the others.
Utf8Width(b) ==
  CASE b <= 127        -> 1
    [] b \in 194 .. 223 -> 2
    [] b \in 224 .. 239 -> 3
    [] b \in 240 .. 244 -> 4
    [] OTHER           -> 0

Utf8Second(b) ==
  CASE b = 224 -> 160 .. 191
    [] b = 237 -> 128 .. 159
    [] b = 240 -> 144 .. 191
    [] b = 244 -> 128 .. 143
    [] OTHER   -> 128 .. 191

\* Sequences, by name: the constant Len is the region's length.
Seqs == INSTANCE Sequences

RECURSIVE Utf8(_)
Utf8(s) ==
  \/ s = <<>>
  \/ LET n == Utf8Width(s[1]) IN
     /\ n > 0 /\ n <= Seqs!Len(s)
     /\ n > 1 => s[2] \in Utf8Second(s[1])
     /\ \A i \in 3 .. n : s[i] \in 128 .. 191
     /\ Utf8(Seqs!SubSeq(s, n + 1, Seqs!Len(s)))

\* Every ByteStr holds UTF-8 after its prefix (spec.md, "Byte string": the
\* remaining bytes are required to be valid UTF-8).  ByteStr::as_ref hands
\* the content out with from_utf8_unchecked, so only decode can keep this,
\* by failing with StringNotUtf8.
StrIsUtf8 ==
  \A v \in Live : view[v].kind = "str" => Utf8(StrContent(v))

=============================================================================
