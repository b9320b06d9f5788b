------------------------------- MODULE PbufProofs -------------------------------
(***************************************************************************)
(* Proofs about Pbuf, for any widths of the integers, any maximal size and *)
(* any length arguments that the assertions let pass.                      *)
(***************************************************************************)
EXTENDS Pbuf, TLAPS

\* A multiple of UMod: what wrapping adds or takes away.
Multiple(x) == \E k \in Int : x = k * UMod

Inside == data <= end /\ end <= PBUF_MAX_SIZE /\ end = alloc_len

\* What an operation changes len by it changes tail - data by, up to wrapping.
Agrees == Multiple(len - (tail - data))

LayoutInv == TypeOK /\ Inside /\ Agrees /\ WellFormed /\ HeadersInside

LEMMA NoWrap ==
  ASSUME NEW m \in Nat, NEW x \in 0..(m - 1)
  PROVE  x % m = x
OBVIOUS

LEMMA Quotient ==
  ASSUME NEW m \in Nat, m > 0, NEW x \in Int
  PROVE  x \div m \in Int /\ x % m = x - (x \div m) * m /\ x % m \in 0..(m - 1)
<1>1. x \div m \in Int
  OBVIOUS
<1>2. x % m = x - (x \div m) * m
  OBVIOUS
<1>3. x % m \in 0..(m - 1)
  OBVIOUS
<1>4. QED
  BY <1>1, <1>2, <1>3

LEMMA Remainder ==
  ASSUME NEW m \in Nat, m > 0, NEW q \in Int, NEW r \in 0..(m - 1)
  PROVE  (q * m + r) % m = r
OBVIOUS

LEMMA MultipleMod ==
  ASSUME NEW x \in Int
  PROVE  Multiple(x) <=> x % UMod = 0
<1>0. UMod \in Nat /\ UMod > 0
  BY PbufAssumption
<1>1. ASSUME Multiple(x) PROVE x % UMod = 0
  <2>1. PICK k \in Int : x = k * UMod
    BY <1>1 DEF Multiple
  <2>2. (k * UMod + 0) % UMod = 0
    BY <1>0, Remainder
  <2>3. k * UMod + 0 = x
    BY <1>0, <2>1
  <2>4. QED
    BY <2>2, <2>3
<1>2. ASSUME x % UMod = 0 PROVE Multiple(x)
  <2>1. x \div UMod \in Int /\ x % UMod = x - (x \div UMod) * UMod
    BY <1>0, Quotient
  <2>2. x = (x \div UMod) * UMod
    BY <1>0, <1>2, <2>1
  <2>3. QED
    BY <2>1, <2>2 DEF Multiple
<1>3. QED
  BY <1>1, <1>2

LEMMA MultipleSum ==
  ASSUME NEW x \in Int, NEW y \in Int, Multiple(x), Multiple(y)
  PROVE  Multiple(x + y) /\ Multiple(x - y)
<1>0. UMod \in Nat
  BY PbufAssumption
<1>1. PICK j \in Int : x = j * UMod
  BY DEF Multiple
<1>2. PICK k \in Int : y = k * UMod
  BY DEF Multiple
<1>3. x + y = (j + k) * UMod /\ x - y = (j - k) * UMod
  BY <1>0, <1>1, <1>2
<1>4. QED
  BY <1>3 DEF Multiple

\* Wrapping in either width changes a value by a multiple of UMod.
LEMMA Wraps ==
  ASSUME NEW x \in Int
  PROVE  /\ x % UMod \in 0..(UMod - 1) /\ Multiple((x % UMod) - x)
         /\ x % SMod \in 0..(SMod - 1) /\ Multiple((x % SMod) - x)
<1>0. UMod \in Nat /\ UMod > 0 /\ SMod \in Nat /\ SMod > 0 /\ SMod % UMod = 0
  BY PbufAssumption
<1>1. x % UMod \in 0..(UMod - 1) /\ Multiple((x % UMod) - x)
  <2>1. /\ x \div UMod \in Int /\ x % UMod = x - (x \div UMod) * UMod
        /\ x % UMod \in 0..(UMod - 1)
    BY <1>0, Quotient
  <2>2. (x % UMod) - x = (0 - (x \div UMod)) * UMod /\ 0 - (x \div UMod) \in Int
    BY <1>0, <2>1
  <2>3. QED
    BY <2>1, <2>2 DEF Multiple
<1>2. x % SMod \in 0..(SMod - 1) /\ Multiple((x % SMod) - x)
  <2>1. /\ x \div SMod \in Int /\ x % SMod = x - (x \div SMod) * SMod
        /\ x % SMod \in 0..(SMod - 1)
    BY <1>0, Quotient
  <2>2. Multiple(SMod)
    BY <1>0, MultipleMod
  <2>3. PICK k \in Int : SMod = k * UMod
    BY <2>2 DEF Multiple
  <2> DEFINE q == x \div SMod
  <2>4. q \in Int /\ (x % SMod) - x = 0 - q * SMod
    BY <1>0, <2>1
  <2> HIDE DEF q
  <2>5. 0 - q * SMod = ((0 - q) * k) * UMod /\ (0 - q) * k \in Int
    BY <1>0, <2>3, <2>4
  <2>6. QED
    BY <2>1, <2>4, <2>5 DEF Multiple
<1>3. QED
  BY <1>1, <1>2

LEMMA ZeroMultiple == Multiple(0)
<1>1. 0 = 0 * UMod
  BY PbufAssumption
<1>2. QED
  BY <1>1 DEF Multiple

\* data never passes end, so the room after it is the difference of integers.
LEMMA Room ==
  ASSUME TypeOK, Inside
  PROVE  (end - data) % UMod = end - data
<1>1. end - data \in 0..(UMod - 1)
  BY PbufAssumption DEF TypeOK, Inside, Unsigned
<1>2. QED
  BY <1>1, NoWrap, PbufAssumption

LEMMA LayoutInit == Init => LayoutInv
<1> SUFFICES ASSUME Init PROVE LayoutInv
  OBVIOUS
<1>0. PICK size \in Lens :
        /\ size <= PBUF_MAX_SIZE
        /\ data = 0 /\ tail = 0 /\ len = 0
        /\ end = size /\ alloc_len = size
        /\ offset = [h \in Headers |-> 0]
        /\ strayed = FALSE
  BY DEF Init
<1>s. size \in 0..PBUF_MAX_SIZE /\ size \in 0..(UMod - 1) /\ size \in 0..(SMod - 1) /\ UMod \in Nat
  BY <1>0, PbufAssumption
<1>1. TypeOK /\ Inside /\ WellFormed /\ HeadersInside
  <2>1. strayed \in BOOLEAN
    BY <1>0, Zenon
  <2>2. TypeOK
    BY <1>0, <1>s, <2>1, PbufAssumption DEF TypeOK, Unsigned
  <2>3. Inside /\ HeadersInside
    BY <1>0, <1>s DEF Inside, HeadersInside
  <2>4. WellFormed
    BY <1>0, <1>s DEF WellFormed
  <2>5. QED
    BY <2>2, <2>3, <2>4
<1>2. len - (tail - data) = 0
  BY DEF Init
<1>3. Agrees
  BY <1>2, ZeroMultiple DEF Agrees
<1>4. QED
  BY <1>1, <1>3 DEF LayoutInv

LEMMA LayoutNext == LayoutInv /\ [Next]_vars => LayoutInv'
<1> SUFFICES ASSUME LayoutInv, [Next]_vars PROVE LayoutInv'
  OBVIOUS
<1>t. /\ data \in 0..(UMod - 1) /\ tail \in 0..(UMod - 1) /\ end \in 0..(UMod - 1)
      /\ len \in 0..(SMod - 1) /\ data <= end /\ end <= PBUF_MAX_SIZE /\ end = alloc_len
      /\ UMod \in Nat /\ SMod \in Nat /\ PBUF_MAX_SIZE \in Nat /\ PBUF_MAX_SIZE < UMod /\ UMod <= SMod
      /\ alloc_len \in 0..(SMod - 1) /\ strayed \in BOOLEAN
  BY PbufAssumption DEF LayoutInv, TypeOK, Inside, Unsigned
<1>w. ~strayed => data <= tail /\ tail <= end /\ len = tail - data
  BY DEF LayoutInv, WellFormed
<1>r. (end - data) % UMod = end - data
  BY Room DEF LayoutInv
<1>n. ASSUME NEW n \in Lens PROVE n \in 0..(SMod - 1)
  BY <1>n, PbufAssumption
<1>m. Multiple(len - (tail - data)) /\ Multiple(0)
  BY ZeroMultiple DEF LayoutInv, Agrees
<1>h. offset \in [Headers -> Unsigned] /\ HeadersInside
  BY DEF LayoutInv, TypeOK
\* The offsets and end are left alone by all but pbuf_alloc and reset_header.
<1>k. ASSUME UNCHANGED <<end, alloc_len, offset>>,
             data' \in 0..(UMod - 1), tail' \in 0..(UMod - 1), len' \in 0..(SMod - 1),
             strayed' \in BOOLEAN, data' <= end, Agrees',
             ~strayed' => data' <= tail' /\ tail' <= end /\ len' = tail' - data'
      PROVE  LayoutInv'
  BY <1>k, <1>t, <1>h DEF LayoutInv, TypeOK, Inside, WellFormed, HeadersInside, Unsigned
<1>1. ASSUME NEW n \in Lens, pbuf_alloc(n) PROVE LayoutInv'
  <2>0. n \in 0..PBUF_MAX_SIZE /\ n \in 0..(UMod - 1) /\ n \in 0..(SMod - 1)
    BY <1>1, <1>n, <1>t DEF pbuf_alloc
  <2>s. strayed' \in BOOLEAN
    BY <1>1, Zenon DEF pbuf_alloc
  <2>t. TypeOK'
    BY <1>1, <1>t, <2>0, <2>s DEF pbuf_alloc, TypeOK, Unsigned
  <2>i. Inside' /\ WellFormed' /\ HeadersInside'
    BY <1>1, <2>0 DEF pbuf_alloc, Inside, WellFormed, HeadersInside
  <2>1. TypeOK' /\ Inside' /\ WellFormed' /\ HeadersInside'
    BY <2>t, <2>i
  <2>2. len' - (tail' - data') = 0
    BY <1>1 DEF pbuf_alloc
  <2>3. Agrees'
    BY <2>2, ZeroMultiple DEF Agrees
  <2>4. QED
    BY <2>1, <2>3 DEF LayoutInv
<1>2. ASSUME NEW n \in Lens, pbuf_reserve(n) PROVE LayoutInv'
  <2>0. n \in 0..(SMod - 1)
    BY <1>n
  <2>1. n <= end - data /\ len' = len /\ strayed' = (strayed \/ len > 0)
    BY <1>2, <1>r DEF pbuf_reserve
  <2>2. data + n \in 0..(UMod - 1) /\ data' = data + n
    BY <1>2, <1>t, <2>0, <2>1, NoWrap DEF pbuf_reserve
  <2>3. tail' = (tail + n) % UMod /\ tail + n \in Int
    BY <1>2, <1>t, <2>0 DEF pbuf_reserve
  <2>4. tail' \in 0..(UMod - 1) /\ Multiple(tail' - (tail + n))
    BY <2>3, Wraps
  <2>5. Agrees'
    <3> DEFINE d == len - (tail - data)
               w == tail' - (tail + n)
    <3>1. d \in Int /\ w \in Int /\ len' - (tail' - data') = d - w
      BY <1>t, <2>0, <2>1, <2>2, <2>3, <2>4
    <3>2. Multiple(d) /\ Multiple(w)
      BY <1>m, <2>4
    <3> HIDE DEF d, w
    <3>3. Multiple(d - w)
      BY <3>1, <3>2, MultipleSum
    <3>4. QED
      BY <3>1, <3>3 DEF Agrees
  <2>6. ASSUME ~strayed' PROVE data' <= tail' /\ tail' <= end /\ len' = tail' - data'
    <3>0. ~strayed /\ ~(len > 0)
      BY <2>1, <2>6, Zenon
    <3>1. ~strayed /\ len = 0
      BY <1>t, <3>0
    <3>2. tail + n \in 0..(UMod - 1)
      BY <1>t, <1>w, <2>0, <2>2, <3>1
    <3>3. tail' = tail + n
      BY <1>t, <2>3, <3>2, NoWrap
    <3>4. QED
      BY <1>t, <1>w, <2>0, <2>1, <2>2, <3>1, <3>3
  <2>7. UNCHANGED <<end, alloc_len, offset>> /\ data' <= end /\ strayed' \in BOOLEAN
    BY <1>2, <1>t, <2>0, <2>1, <2>2 DEF pbuf_reserve
  <2>8. QED
    BY <1>k, <1>t, <2>1, <2>2, <2>4, <2>5, <2>6, <2>7
<1>3. ASSUME NEW n \in Lens, pbuf_push(n) PROVE LayoutInv'
  <2>0. n \in 0..(SMod - 1)
    BY <1>n
  <2>1. n <= data /\ tail' = tail /\ strayed' = strayed
    BY <1>3 DEF pbuf_push, PushFits, pbuf_headroom
  <2>2. data - n \in 0..(UMod - 1) /\ data' = data - n
    BY <1>3, <1>t, <2>0, <2>1, NoWrap DEF pbuf_push
  <2>3. len' = (len + n) % SMod /\ len + n \in Int
    BY <1>3, <1>t, <2>0 DEF pbuf_push
  <2>4. len' \in 0..(SMod - 1) /\ Multiple(len' - (len + n))
    BY <2>3, Wraps
  <2>5. Agrees'
    <3> DEFINE d == len - (tail - data)
               w == len' - (len + n)
    <3>1. d \in Int /\ w \in Int /\ len' - (tail' - data') = d + w
      BY <1>t, <2>0, <2>1, <2>2, <2>3, <2>4
    <3>2. Multiple(d) /\ Multiple(w)
      BY <1>m, <2>4
    <3> HIDE DEF d, w
    <3>3. Multiple(d + w)
      BY <3>1, <3>2, MultipleSum
    <3>4. QED
      BY <3>1, <3>3 DEF Agrees
  <2>6. ASSUME ~strayed' PROVE data' <= tail' /\ tail' <= end /\ len' = tail' - data'
    <3>1. len + n \in 0..(SMod - 1)
      BY <1>t, <1>w, <2>0, <2>1, <2>6
    <3>2. len' = len + n
      BY <1>t, <2>3, <3>1, NoWrap
    <3>3. QED
      BY <1>t, <1>w, <2>0, <2>1, <2>2, <2>6, <3>2
  <2>7. UNCHANGED <<end, alloc_len, offset>> /\ data' <= end /\ strayed' \in BOOLEAN
    BY <1>3, <1>t, <2>0, <2>1, <2>2 DEF pbuf_push
  <2>8. QED
    BY <1>k, <1>t, <2>1, <2>2, <2>4, <2>5, <2>6, <2>7
<1>4. ASSUME NEW n \in Lens, pbuf_pull(n) PROVE LayoutInv'
  <2>0. n \in 0..(SMod - 1)
    BY <1>n
  <2>1. n <= end - data /\ tail' = tail /\ strayed' = (strayed \/ n > len)
    BY <1>4, <1>r DEF pbuf_pull
  <2>2. data + n \in 0..(UMod - 1) /\ data' = data + n
    BY <1>4, <1>t, <2>0, <2>1, NoWrap DEF pbuf_pull
  <2>3. len' = (len - n) % SMod /\ len - n \in Int
    BY <1>4, <1>t, <2>0 DEF pbuf_pull
  <2>4. len' \in 0..(SMod - 1) /\ Multiple(len' - (len - n))
    BY <2>3, Wraps
  <2>5. Agrees'
    <3> DEFINE d == len - (tail - data)
               w == len' - (len - n)
    <3>1. d \in Int /\ w \in Int /\ len' - (tail' - data') = d + w
      BY <1>t, <2>0, <2>1, <2>2, <2>3, <2>4
    <3>2. Multiple(d) /\ Multiple(w)
      BY <1>m, <2>4
    <3> HIDE DEF d, w
    <3>3. Multiple(d + w)
      BY <3>1, <3>2, MultipleSum
    <3>4. QED
      BY <3>1, <3>3 DEF Agrees
  <2>6. ASSUME ~strayed' PROVE data' <= tail' /\ tail' <= end /\ len' = tail' - data'
    <3>p. ~strayed /\ ~(n > len)
      BY <2>1, <2>6, Zenon
    <3>0. ~strayed /\ n <= len
      BY <1>t, <2>0, <3>p
    <3>1. len - n \in 0..(SMod - 1)
      BY <1>t, <2>0, <3>0
    <3>2. len' = len - n
      BY <1>t, <2>3, <3>1, NoWrap
    <3>3. QED
      BY <1>t, <1>w, <2>0, <2>1, <2>2, <3>0, <3>2
  <2>7. UNCHANGED <<end, alloc_len, offset>> /\ data' <= end /\ strayed' \in BOOLEAN
    BY <1>4, <1>t, <2>0, <2>1, <2>2 DEF pbuf_pull
  <2>8. QED
    BY <1>k, <1>t, <2>1, <2>2, <2>4, <2>5, <2>6, <2>7
<1>5. ASSUME NEW n \in Lens, pbuf_put(n) PROVE LayoutInv'
  <2>0. n \in 0..(SMod - 1)
    BY <1>n
  <2>1. n <= (end - tail) % UMod /\ data' = data /\ strayed' = strayed
    BY <1>5 DEF pbuf_put, PutFits, pbuf_tailroom
  <2>2. tail' = (tail + n) % UMod /\ tail + n \in Int
    BY <1>5, <1>t, <2>0 DEF pbuf_put
  <2>3. len' = (len + n) % SMod /\ len + n \in Int
    BY <1>5, <1>t, <2>0 DEF pbuf_put
  <2>4. /\ len' \in 0..(SMod - 1) /\ Multiple(len' - (len + n))
        /\ tail' \in 0..(UMod - 1) /\ Multiple(tail' - (tail + n))
    BY <2>2, <2>3, Wraps
  <2>5. Agrees'
    <3> DEFINE d == len - (tail - data)
               v == len' - (len + n)
               w == tail' - (tail + n)
    <3>1. d \in Int /\ v \in Int /\ w \in Int /\ len' - (tail' - data') = (d + v) - w
      BY <1>t, <2>0, <2>1, <2>2, <2>3, <2>4
    <3>2. Multiple(d) /\ Multiple(v) /\ Multiple(w)
      BY <1>m, <2>4
    <3> HIDE DEF d, v, w
    <3>3. Multiple(d + v) /\ d + v \in Int
      BY <3>1, <3>2, MultipleSum
    <3>4. Multiple((d + v) - w)
      BY <3>1, <3>2, <3>3, MultipleSum
    <3>5. QED
      BY <3>1, <3>4 DEF Agrees
  <2>6. ASSUME ~strayed' PROVE data' <= tail' /\ tail' <= end /\ len' = tail' - data'
    <3>0. end - tail \in 0..(UMod - 1)
      BY <1>t, <1>w, <2>1, <2>6
    <3>1. n <= end - tail
      BY <1>t, <2>1, <3>0, NoWrap
    <3>2. tail + n \in 0..(UMod - 1) /\ len + n \in 0..(SMod - 1)
      BY <1>t, <1>w, <2>0, <2>1, <2>6, <3>1
    <3>3. tail' = tail + n /\ len' = len + n
      BY <1>t, <2>2, <2>3, <3>2, NoWrap
    <3>4. QED
      BY <1>t, <1>w, <2>0, <2>1, <2>6, <3>1, <3>3
  <2>7. UNCHANGED <<end, alloc_len, offset>> /\ data' <= end /\ strayed' \in BOOLEAN
    BY <1>5, <1>t, <2>1 DEF pbuf_put
  <2>8. QED
    BY <1>k, <1>t, <2>1, <2>4, <2>5, <2>6, <2>7
<1>6. ASSUME NEW n \in Lens, pbuf_trim(n) PROVE LayoutInv'
  <2>0. n \in 0..(SMod - 1)
    BY <1>n
  <2>1. len' = n /\ data' = data /\ strayed' = (strayed \/ n > len)
    BY <1>6 DEF pbuf_trim
  <2>2. tail' = (data + n) % UMod /\ data + n \in Int
    BY <1>6, <1>t, <2>0 DEF pbuf_trim
  <2>3. tail' \in 0..(UMod - 1) /\ Multiple(tail' - (data + n))
    BY <2>2, Wraps
  <2>4. Agrees'
    <3>1. len' - (tail' - data') = 0 - (tail' - (data + n)) /\ tail' - (data + n) \in Int
      BY <1>t, <2>0, <2>1, <2>2, <2>3
    <3>2. Multiple(0 - (tail' - (data + n)))
      BY <1>m, <2>3, <3>1, MultipleSum
    <3>3. QED
      BY <3>1, <3>2 DEF Agrees
  <2>5. ASSUME ~strayed' PROVE data' <= tail' /\ tail' <= end /\ len' = tail' - data'
    <3>0. ~strayed /\ ~(n > len)
      BY <2>1, <2>5, Zenon
    <3>1. ~strayed /\ n <= len
      BY <1>t, <2>0, <3>0
    <3>2. data + n \in 0..(UMod - 1)
      BY <1>t, <1>w, <2>0, <3>1
    <3>3. tail' = data + n
      BY <1>t, <2>2, <3>2, NoWrap
    <3>4. QED
      BY <1>t, <1>w, <2>0, <2>1, <3>1, <3>3
  <2>6. UNCHANGED <<end, alloc_len, offset>> /\ strayed' \in BOOLEAN
    BY <1>6, <1>t, <2>1 DEF pbuf_trim
  <2>7. QED
    BY <1>k, <1>t, <2>0, <2>1, <2>3, <2>4, <2>5, <2>6
<1>7. ASSUME NEW h \in Headers, pbuf_reset_header(h) PROVE LayoutInv'
  BY <1>7, <1>t
     DEF LayoutInv, TypeOK, Inside, Agrees, WellFormed, HeadersInside, Unsigned, pbuf_reset_header
<1>8. CASE pbuf_copy \/ UNCHANGED vars
  BY <1>8 DEF LayoutInv, TypeOK, Inside, Agrees, WellFormed, HeadersInside, pbuf_copy, vars
<1>9. QED
  BY <1>1, <1>2, <1>3, <1>4, <1>5, <1>6, <1>7, <1>8 DEF Next

\* The layout of a buffer stays well formed, data <= tail <= end with len the
\* length of the packet, as long as its client has not pulled more than len,
\* trimmed to more than len or reserved in a buffer with data.
THEOREM PbufWellFormed == Spec => []WellFormed
<1>1. LayoutInv => WellFormed
  BY DEF LayoutInv
<1>2. QED
  BY <1>1, LayoutInit, LayoutNext, PTL DEF Spec

\* Whatever lengths the assertions of pbuf.c let pass: the packet begins inside
\* the buffer, and len and tail - data agree up to multiples of UMod.
THEOREM PbufLenTracks == Spec => []LenTracks
<1>1. LayoutInv => LenTracks
  <2> SUFFICES ASSUME LayoutInv PROVE LenTracks
    OBVIOUS
  <2>1. len - (tail - data) \in Int
    BY PbufAssumption DEF LayoutInv, TypeOK, Unsigned
  <2>2. (len - (tail - data)) % UMod = 0
    BY <2>1, MultipleMod DEF LayoutInv, Agrees
  <2>3. QED
    BY <2>2 DEF LayoutInv, Inside, LenTracks
<1>2. QED
  BY <1>1, LayoutInit, LayoutNext, PTL DEF Spec

\* Header pointers stay inside the buffer, whatever the client does.
THEOREM PbufHeadersInside == Spec => []HeadersInside
<1>1. LayoutInv => HeadersInside
  BY DEF LayoutInv
<1>2. QED
  BY <1>1, LayoutInit, LayoutNext, PTL DEF Spec
================================================================================
