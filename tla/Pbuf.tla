---------------------------------- MODULE Pbuf ----------------------------------
(***************************************************************************)
(* src/pbuf.c, include/ckit/pbuf.h: the layout of one packet buffer, an    *)
(* area of end bytes whose bytes data .. tail - 1 are the packet.          *)
(*                                                                         *)
(* data, tail, end and the header offsets are C unsigned, of which there   *)
(* are UMod values, len and the arguments are size_t, of which there are   *)
(* SMod.  A failing assert() ends the program: it is a guard.              *)
(***************************************************************************)
EXTENDS Integers

CONSTANTS
  UMod, SMod,      \* 2^32 and 2^64
  PBUF_MAX_SIZE,
  Lens,            \* the length arguments clients pass
  Headers          \* the header offsets: link, network, transport, payload

ASSUME PbufAssumption ==
  /\ UMod \in Nat /\ SMod \in Nat /\ PBUF_MAX_SIZE \in Nat
  /\ PBUF_MAX_SIZE < UMod /\ UMod <= SMod /\ SMod % UMod = 0
  /\ Lens \subseteq 0..(SMod - 1)

VARIABLES
  data, tail, end, len, alloc_len, offset,
  strayed  \* since the allocation the client has pulled more than len, trimmed
           \* to more than len or reserved in a buffer with data (auxiliary)

vars == <<data, tail, end, len, alloc_len, offset, strayed>>

Unsigned == 0..(UMod - 1)

TypeOK ==
  /\ data \in Unsigned /\ tail \in Unsigned /\ end \in Unsigned
  /\ len \in 0..(SMod - 1) /\ alloc_len \in 0..(SMod - 1)
  /\ offset \in [Headers -> Unsigned]
  /\ strayed \in BOOLEAN

\* The first pbuf_alloc: pbuf_init zeroes everything but end.
Init ==
  \E size \in Lens :
    /\ size <= PBUF_MAX_SIZE
    /\ data = 0 /\ tail = 0 /\ len = 0
    /\ end = size /\ alloc_len = size
    /\ offset = [h \in Headers |-> 0]
    /\ strayed = FALSE

\* The slip of leaving the header offsets of the packet that was there before.
pbuf_alloc_Kept(size) ==
  /\ size <= PBUF_MAX_SIZE /\ data' = 0 /\ tail' = 0 /\ len' = 0
  /\ end' = size /\ alloc_len' = size /\ strayed' = FALSE /\ UNCHANGED offset

\* pbuf_alloc of the entry after it was returned to the pool.
pbuf_alloc(size) ==
  /\ size <= PBUF_MAX_SIZE
  /\ data' = 0 /\ tail' = 0 /\ len' = 0
  /\ end' = size /\ alloc_len' = size
  /\ strayed' = FALSE
  /\ offset' = [h \in Headers |-> 0]

--------------------------------------------------------------------------------

pbuf_headroom == data
pbuf_tailroom == (end - tail) % UMod

pbuf_reserve(n) ==
  /\ n <= (end - data) % UMod
  /\ data' = (data + n) % UMod
  /\ tail' = (tail + n) % UMod
  /\ strayed' = (strayed \/ len > 0)
  /\ UNCHANGED <<end, len, alloc_len, offset>>

PushFits(n) == n <= pbuf_headroom

\* The slip of signed offsets and a check against the whole area.
pbuf_push_Signed(n) ==
  /\ n <= end /\ data' = data - n /\ len' = len + n
  /\ UNCHANGED <<tail, end, alloc_len, offset, strayed>>

pbuf_push(n) ==
  /\ PushFits(n)
  /\ data' = (data - n) % UMod
  /\ len' = (len + n) % SMod
  /\ UNCHANGED <<tail, end, alloc_len, offset, strayed>>

pbuf_pull(n) ==
  /\ n <= (end - data) % UMod
  /\ data' = (data + n) % UMod
  /\ len' = (len - n) % SMod
  /\ strayed' = (strayed \/ n > len)
  /\ UNCHANGED <<tail, end, alloc_len, offset>>

\* The slip of comparing with the whole area instead of what is left of it.
PutFits_Whole(n) == n <= (end - data) % UMod

PutFits(n) == n <= pbuf_tailroom

pbuf_put(n) ==
  /\ PutFits(n)
  /\ tail' = (tail + n) % UMod
  /\ len' = (len + n) % SMod
  /\ UNCHANGED <<data, end, alloc_len, offset, strayed>>

\* The slip of an end of the packet that is counted from the head.
pbuf_trim_Absolute(n) ==
  /\ len' = n /\ tail' = n % UMod /\ strayed' = (strayed \/ n > len)
  /\ UNCHANGED <<data, end, alloc_len, offset>>

\* There is no assertion in pbuf_trim.
pbuf_trim(n) ==
  /\ len' = n
  /\ tail' = (data + n) % UMod
  /\ strayed' = (strayed \/ n > len)
  /\ UNCHANGED <<data, end, alloc_len, offset>>

\* pbuf_reset_link_header and its siblings.
pbuf_reset_header(h) ==
  /\ offset' = [offset EXCEPT ![h] = data]
  /\ UNCHANGED <<data, tail, end, len, alloc_len, strayed>>

\* pbuf_copy: pbuf_alloc(len) asserts that len fits, then the struct pbuf of
\* the original, end and alloc_len included, and tail bytes of its area replace
\* the new one's.  The buffer of the model is the copy from here on.
pbuf_copy ==
  /\ len <= PBUF_MAX_SIZE
  /\ UNCHANGED vars

Next ==
  \/ \E n \in Lens : pbuf_alloc(n) \/ pbuf_reserve(n) \/ pbuf_push(n)
                     \/ pbuf_pull(n) \/ pbuf_put(n) \/ pbuf_trim(n)
  \/ \E h \in Headers : pbuf_reset_header(h)
  \/ pbuf_copy

Spec == Init /\ [][Next]_vars

--------------------------------------------------------------------------------
(* Properties.                                                             *)

\* The packet lies inside the buffer and len is its length, and with them what
\* pbuf_copy copies: no sequence of reserve, push, pull, put and trim makes the
\* unsigned arithmetic wrap, of a client that pulls no more and trims to no more
\* than there is and reserves in empty buffers.  The assertions let any other
\* client pass as well, and for those it does not hold.
WellFormed == ~strayed => data <= tail /\ tail <= end /\ len = tail - data

\* Whatever a client does that the assertions let pass, where the packet begins
\* is inside the buffer, the buffer has the size it was allocated with, and len,
\* of the wider type, agrees with tail - data in the bits of the narrower one,
\* though either may have wrapped.
LenTracks ==
  /\ data <= end /\ end <= PBUF_MAX_SIZE /\ end = alloc_len
  /\ (len - (tail - data)) % UMod = 0

\* The header pointers stay inside the buffer, whatever is pulled, trimmed or
\* pushed after they were set, by any client.
HeadersInside == \A h \in Headers : offset[h] <= end
================================================================================
