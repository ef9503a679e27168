----------------------------- MODULE PipeProofs -----------------------------
(***************************************************************************)
(* Every pipe table, of any capacity and over any bytes, implements Fifo.  *)
(***************************************************************************)
EXTENDS Pipe, SequenceTheorems, TLAPS

LEMMA ModWrap == ASSUME NEW m \in Nat \ {0}, NEW x \in Nat, x < 2 * m
                 PROVE  x % m = IF x < m THEN x ELSE x - m
  OBVIOUS

LEMMA SameLength == ASSUME NEW m \in Nat, NEW n \in Nat, 1 .. m = 1 .. n
                    PROVE  m = n
  <1>1. CASE m < n
    <2>1. n \in 1 .. n /\ n \notin 1 .. m
      BY <1>1
    <2> QED BY <2>1
  <1>2. CASE n < m
    <2>1. m \in 1 .. m /\ m \notin 1 .. n
      BY <1>2
    <2> QED BY <2>1
  <1> QED BY <1>1, <1>2

(* Data is a finite sequence of bytes, of a length that fits one call. *)
LEMMA DataType == ASSUME NEW d \in Data
                  PROVE  d \in Seq(Bytes) /\ Len(d) \in 0 .. MaxLen
  <1>1. PICK n \in 0 .. MaxLen : d \in [1 .. n -> Bytes]
    BY DEF Data
  <1>2. n \in Nat
    BY PipeAssumption
  <1>3. d \in Seq(Bytes)
    BY <1>1, <1>2, SeqDef
  <1>4. Len(d) = n
    <2>1. Len(d) \in Nat /\ DOMAIN d = 1 .. Len(d)
      BY <1>3, LenProperties
    <2>2. DOMAIN d = 1 .. n
      BY <1>1
    <2> QED BY <1>2, <2>1, <2>2, SameLength
  <1> QED BY <1>3, <1>4, <1>1

(* A ring cursor w and the number u of bytes in front of it. *)
Filled(w, r) == IF w >= r THEN w - r ELSE PIPE_BUF_SIZE - (r - w)

LEMMA FilledType == ASSUME NEW w \in Cells, NEW r \in Cells
                    PROVE  Filled(w, r) \in 0 .. PIPE_BUF_SIZE - 1
  BY PipeAssumption DEF Filled, Cells

LEMMA AdvancedType == ASSUME NEW c \in Cells, NEW n \in 0 .. PIPE_BUF_SIZE - 1
                      PROVE  /\ Advanced(c, n) \in Cells
                             /\ Advanced(c, n) = IF c + n < PIPE_BUF_SIZE THEN c + n
                                                 ELSE c + n - PIPE_BUF_SIZE
  <1>1. c + n \in Nat /\ c + n < 2 * PIPE_BUF_SIZE
    BY PipeAssumption DEF Cells
  <1>2. (c + n) % PIPE_BUF_SIZE = IF c + n < PIPE_BUF_SIZE THEN c + n
                                  ELSE c + n - PIPE_BUF_SIZE
    <2> DEFINE x == c + n
    <2>1. x \in Nat /\ x < 2 * PIPE_BUF_SIZE
      BY <1>1
    <2> HIDE DEF x
    <2>2. x % PIPE_BUF_SIZE = IF x < PIPE_BUF_SIZE THEN x ELSE x - PIPE_BUF_SIZE
      BY <2>1, ModWrap, PipeAssumption
    <2>3. c \in Nat /\ n \in Nat /\ PIPE_BUF_SIZE \in Nat
      BY PipeAssumption DEF Cells
    <2> QED BY <2>2, <2>3 DEF x
  <1> QED BY <1>2, PipeAssumption DEF Advanced, Cells

(* A write of n bytes that fit adds n, a read of n bytes takes n away. *)
LEMMA FilledWrite ==
  ASSUME NEW w \in Cells, NEW r \in Cells, NEW n \in Nat,
         n <= PIPE_BUF_SIZE - 1 - Filled(w, r)
  PROVE  Filled(Advanced(w, n), r) = Filled(w, r) + n
  <1>1. n \in 0 .. PIPE_BUF_SIZE - 1
    BY FilledType, PipeAssumption
  <1>2. Advanced(w, n) = IF w + n < PIPE_BUF_SIZE THEN w + n ELSE w + n - PIPE_BUF_SIZE
    BY <1>1, AdvancedType
  <1>3. w \in Nat /\ r \in Nat /\ w < PIPE_BUF_SIZE /\ r < PIPE_BUF_SIZE
    BY PipeAssumption DEF Cells
  <1> QED BY <1>1, <1>2, <1>3, PipeAssumption DEF Filled

LEMMA FilledRead ==
  ASSUME NEW w \in Cells, NEW r \in Cells, NEW n \in Nat, n <= Filled(w, r)
  PROVE  Filled(w, Advanced(r, n)) = Filled(w, r) - n
  <1>1. n \in 0 .. PIPE_BUF_SIZE - 1
    BY FilledType, PipeAssumption
  <1>2. Advanced(r, n) = IF r + n < PIPE_BUF_SIZE THEN r + n ELSE r + n - PIPE_BUF_SIZE
    BY <1>1, AdvancedType
  <1>3. w \in Nat /\ r \in Nat /\ w < PIPE_BUF_SIZE /\ r < PIPE_BUF_SIZE
    BY PipeAssumption DEF Cells
  <1> QED BY <1>1, <1>2, <1>3, PipeAssumption DEF Filled

(* What lies in the ring, byte by byte. *)
LEMMA LoadedSeq ==
  ASSUME NEW ring \in [Cells -> Bytes], NEW r \in Cells, NEW n \in 0 .. PIPE_BUF_SIZE - 1
  PROVE  /\ Loaded(ring, r, n) \in Seq(Bytes)
         /\ Loaded(ring, r, n) \in [1 .. n -> Bytes]
         /\ Len(Loaded(ring, r, n)) = n
         /\ \A j \in 1 .. n : Loaded(ring, r, n)[j] = ring[Advanced(r, j - 1)]
  <1> DEFINE q == Loaded(ring, r, n)
  <1>1. \A j \in 1 .. n : j - 1 \in 0 .. PIPE_BUF_SIZE - 1 /\ (r + j - 1) = r + (j - 1)
    BY PipeAssumption DEF Cells
  <1>2. \A j \in 1 .. n : q[j] = ring[Advanced(r, j - 1)] /\ q[j] \in Bytes
    BY <1>1, AdvancedType DEF Loaded, Advanced
  <1>3. q \in [1 .. n -> Bytes]
    BY <1>2 DEF Loaded
  <1>4. q \in Seq(Bytes)
    BY <1>3, SeqDef
  <1>5. Len(q) = n
    <2>1. Len(q) \in Nat /\ DOMAIN q = 1 .. Len(q)
      BY <1>4, LenProperties
    <2>2. DOMAIN q = 1 .. n
      BY <1>3
    <2>3. n \in Nat
      BY PipeAssumption
    <2> QED BY <2>1, <2>2, <2>3, SameLength
  <1> QED BY <1>2, <1>3, <1>4, <1>5

(* What a write leaves in each cell of the ring. *)
LEMMA StoredCells ==
  ASSUME NEW ring \in [Cells -> Bytes], NEW w \in Cells, NEW d \in Seq(Bytes),
         NEW n \in 0 .. PIPE_BUF_SIZE - 1, n <= Len(d)
  PROVE  /\ Stored(ring, w, d, n) \in [Cells -> Bytes]
         /\ \A k \in Cells :
              LET j == IF k >= w THEN k - w ELSE k - w + PIPE_BUF_SIZE
              IN Stored(ring, w, d, n)[k] = IF j < n THEN d[j + 1] ELSE ring[k]
  <1> DEFINE At(k) == IF k >= w THEN k - w ELSE k - w + PIPE_BUF_SIZE
  <1>1. ASSUME NEW k \in Cells
        PROVE  (k - w + PIPE_BUF_SIZE) % PIPE_BUF_SIZE = At(k) /\ At(k) \in Nat
    <2>1. k - w + PIPE_BUF_SIZE \in Nat /\ k - w + PIPE_BUF_SIZE < 2 * PIPE_BUF_SIZE
      BY PipeAssumption DEF Cells
    <2> DEFINE x == k - w + PIPE_BUF_SIZE
    <2>2. x % PIPE_BUF_SIZE = IF x < PIPE_BUF_SIZE THEN x ELSE x - PIPE_BUF_SIZE
      <3> HIDE DEF x
      <3> QED BY <2>1, ModWrap, PipeAssumption DEF x
    <2>3. (IF x < PIPE_BUF_SIZE THEN x ELSE x - PIPE_BUF_SIZE) = At(k) /\ At(k) \in Nat
      BY PipeAssumption DEF Cells
    <2> QED BY <2>2, <2>3
  <1>2. \A k \in Cells : Stored(ring, w, d, n)[k] = IF At(k) < n THEN d[At(k) + 1] ELSE ring[k]
    BY <1>1 DEF Stored
  <1>3. ASSUME NEW k \in Cells, At(k) < n
        PROVE  d[At(k) + 1] \in Bytes
    <2>1. At(k) + 1 \in 1 .. Len(d)
      BY <1>1, <1>3, LenProperties, PipeAssumption
    <2> QED BY <2>1, ElementOfSeq
  <1>4. Stored(ring, w, d, n) \in [Cells -> Bytes]
    <2>1. DOMAIN Stored(ring, w, d, n) = Cells
      BY DEF Stored
    <2>2. Stored(ring, w, d, n) = [k \in Cells |-> Stored(ring, w, d, n)[k]]
      BY DEF Stored
    <2> HIDE DEF At
    <2> QED BY <1>2, <1>3, <2>2
  <1> QED BY <1>2, <1>4
-----------------------------------------------------------------------------
(* The three facts about rings that make a pipe a stream. *)

(* A write appends the bytes it stores to those that are in the ring. *)
LEMMA WriteAppends ==
  ASSUME NEW ring \in [Cells -> Bytes], NEW w \in Cells, NEW r \in Cells,
         NEW d \in Seq(Bytes), NEW n \in Nat, n <= Len(d),
         n <= PIPE_BUF_SIZE - 1 - Filled(w, r)
  PROVE  Loaded(Stored(ring, w, d, n), r, Filled(w, r) + n)
           = Loaded(ring, r, Filled(w, r)) \o SubSeq(d, 1, n)
  <1> DEFINE u == Filled(w, r)
             ring2 == Stored(ring, w, d, n)
             old == Loaded(ring, r, u)
             new == Loaded(ring2, r, u + n)
             sub == SubSeq(d, 1, n)
  <1>1. /\ u \in 0 .. PIPE_BUF_SIZE - 1 /\ u + n \in 0 .. PIPE_BUF_SIZE - 1
        /\ n \in 0 .. PIPE_BUF_SIZE - 1 /\ PIPE_BUF_SIZE \in Nat
    BY FilledType, PipeAssumption
  <1>2. /\ w \in Nat /\ r \in Nat /\ w < PIPE_BUF_SIZE /\ r < PIPE_BUF_SIZE
        /\ w = IF r + u < PIPE_BUF_SIZE THEN r + u ELSE r + u - PIPE_BUF_SIZE
    BY PipeAssumption DEF Cells, Filled
  <1> DEFINE At(k) == IF k >= w THEN k - w ELSE k - w + PIPE_BUF_SIZE
  <1>3. /\ ring2 \in [Cells -> Bytes]
        /\ \A k \in Cells : ring2[k] = IF At(k) < n THEN d[At(k) + 1] ELSE ring[k]
    <2> HIDE DEF u
    <2> QED BY <1>1, StoredCells
  <1>4. old \in Seq(Bytes) /\ Len(old) = u /\ \A j \in 1 .. u : old[j] = ring[Advanced(r, j - 1)]
    BY <1>1, LoadedSeq
  <1>5. /\ new \in Seq(Bytes) /\ Len(new) = u + n
        /\ \A j \in 1 .. u + n : new[j] = ring2[Advanced(r, j - 1)]
    <2> HIDE DEF ring2
    <2> QED BY <1>1, <1>3, LoadedSeq
  <1>6. sub \in Seq(Bytes) /\ Len(sub) = n /\ \A j \in 1 .. n : sub[j] = d[j]
    <2>1. Len(d) \in Nat /\ \A j \in 1 .. n : d[j] \in Bytes
      BY LenProperties, ElementOfSeq
    <2>2. /\ sub \in Seq(Bytes)
          /\ Len(sub) = IF 1 <= n THEN n - 1 + 1 ELSE 0
          /\ \A j \in 1 .. n - 1 + 1 : sub[j] = d[1 + j - 1]
      BY <2>1, SubSeqProperties
    <2> HIDE DEF sub
    <2>3. n - 1 + 1 = n /\ \A j \in 1 .. n : 1 + j - 1 = j
      OBVIOUS
    <2> QED BY <2>2, <2>3
  <1> DEFINE both == old \o sub
  <1>7. /\ both \in Seq(Bytes) /\ Len(both) = u + n
        /\ \A j \in 1 .. u + n : both[j] = IF j <= u THEN old[j] ELSE sub[j - u]
    <2> HIDE DEF old, sub, u
    <2> QED BY <1>4, <1>6, ConcatProperties
  <1>8. ASSUME NEW j \in 1 .. u + n
        PROVE  new[j] = both[j]
    <2> DEFINE k == Advanced(r, j - 1)
               at == At(k)
    <2>1. j \in Nat /\ j - 1 \in 0 .. PIPE_BUF_SIZE - 1
      BY <1>1
    <2>2. k \in Cells /\ k = IF r + (j - 1) < PIPE_BUF_SIZE THEN r + (j - 1)
                             ELSE r + (j - 1) - PIPE_BUF_SIZE
      BY <2>1, AdvancedType
    <2>3. ring2[k] = IF at < n THEN d[at + 1] ELSE ring[k]
      <3> HIDE DEF k, ring2, u
      <3> QED BY <1>3, <2>2
    <2> HIDE DEF u, k, ring2, old, new, sub, both
    <2>4. CASE j <= u
      <3>1. ~(at < n)
        BY <1>1, <1>2, <2>1, <2>2, <2>4
      <3> QED BY <1>1, <1>4, <1>5, <1>7, <2>1, <2>3, <2>4, <3>1 DEF k
    <2>5. CASE ~(j <= u)
      <3>1. at = j - u - 1 /\ at < n /\ at + 1 = j - u /\ j - u \in 1 .. n
        BY <1>1, <1>2, <2>1, <2>2, <2>5
      <3>2. ring2[k] = d[j - u]
        BY <2>3, <3>1
      <3> QED BY <1>5, <1>6, <1>7, <2>5, <3>1, <3>2 DEF k
    <2> QED BY <2>4, <2>5
  <1> HIDE DEF u, old, new, both
  <1>9. new = both
    BY <1>5, <1>7, <1>8, SeqEqual
  <1> QED BY <1>9 DEF u, old, new, both

(* A read takes the bytes at the front ... *)
LEMMA ReadFront ==
  ASSUME NEW ring \in [Cells -> Bytes], NEW r \in Cells,
         NEW u \in 0 .. PIPE_BUF_SIZE - 1, NEW n \in 0 .. u
  PROVE  Loaded(ring, r, n) = SubSeq(Loaded(ring, r, u), 1, n)
  <1> DEFINE q == Loaded(ring, r, u)
             front == Loaded(ring, r, n)
             sub == SubSeq(q, 1, n)
  <1>1. u \in Nat /\ n \in Nat /\ n <= u /\ n \in 0 .. PIPE_BUF_SIZE - 1
    BY PipeAssumption
  <1>2. q \in Seq(Bytes) /\ Len(q) = u /\ \A j \in 1 .. u : q[j] = ring[Advanced(r, j - 1)]
    BY LoadedSeq
  <1>3. /\ front \in Seq(Bytes) /\ Len(front) = n
        /\ \A j \in 1 .. n : front[j] = ring[Advanced(r, j - 1)]
    BY <1>1, LoadedSeq
  <1> HIDE DEF q, front
  <1>4. \A j \in 1 .. n : q[j] \in Bytes
    BY <1>1, <1>2, ElementOfSeq
  <1>5. /\ sub \in Seq(Bytes)
        /\ Len(sub) = IF 1 <= n THEN n - 1 + 1 ELSE 0
        /\ \A j \in 1 .. n - 1 + 1 : sub[j] = q[1 + j - 1]
    BY <1>1, <1>4, SubSeqProperties
  <1> HIDE DEF sub
  <1>6. Len(sub) = n
    BY <1>1, <1>5
  <1>7. ASSUME NEW j \in 1 .. n
        PROVE  sub[j] = front[j]
    <2>1. j \in 1 .. n - 1 + 1 /\ 1 + j - 1 = j /\ j \in 1 .. u
      BY <1>1
    <2> QED BY <1>2, <1>3, <1>5, <2>1
  <1>8. front = sub
    BY <1>3, <1>5, <1>6, <1>7, SeqEqual
  <1> QED BY <1>8 DEF q, front, sub

(* ... and leaves those behind them. *)
LEMMA ReadRest ==
  ASSUME NEW ring \in [Cells -> Bytes], NEW r \in Cells,
         NEW u \in 0 .. PIPE_BUF_SIZE - 1, NEW n \in 0 .. u
  PROVE  Loaded(ring, Advanced(r, n), u - n) = SubSeq(Loaded(ring, r, u), n + 1, u)
  <1> DEFINE q == Loaded(ring, r, u)
             r2 == Advanced(r, n)
             rest == Loaded(ring, r2, u - n)
             sub == SubSeq(q, n + 1, u)
  <1>1. /\ u \in Nat /\ n \in Nat /\ n <= u /\ n \in 0 .. PIPE_BUF_SIZE - 1
        /\ u - n \in 0 .. PIPE_BUF_SIZE - 1
    BY PipeAssumption
  <1>2. q \in Seq(Bytes) /\ Len(q) = u /\ \A j \in 1 .. u : q[j] = ring[Advanced(r, j - 1)]
    BY LoadedSeq
  <1>3. r2 \in Cells /\ r2 = IF r + n < PIPE_BUF_SIZE THEN r + n ELSE r + n - PIPE_BUF_SIZE
    BY <1>1, AdvancedType
  <1> HIDE DEF r2
  <1>4. /\ rest \in Seq(Bytes) /\ Len(rest) = u - n
        /\ \A j \in 1 .. u - n : rest[j] = ring[Advanced(r2, j - 1)]
    BY <1>1, <1>3, LoadedSeq
  <1> HIDE DEF q, rest
  <1>5. \A j \in n + 1 .. u : q[j] \in Bytes
    <2>1. \A j \in n + 1 .. u : j \in 1 .. Len(q)
      BY <1>1, <1>2
    <2> QED BY <1>2, <2>1, ElementOfSeq
  <1>6. /\ sub \in Seq(Bytes)
        /\ Len(sub) = IF n + 1 <= u THEN u - (n + 1) + 1 ELSE 0
        /\ \A j \in 1 .. u - (n + 1) + 1 : sub[j] = q[(n + 1) + j - 1]
    BY <1>1, <1>5, SubSeqProperties
  <1> HIDE DEF sub
  <1>7. Len(sub) = u - n
    BY <1>1, <1>6
  <1>8. ASSUME NEW j \in 1 .. u - n
        PROVE  sub[j] = rest[j]
    <2>1. /\ j \in 1 .. u - (n + 1) + 1 /\ (n + 1) + j - 1 = n + j
          /\ n + j \in 1 .. u /\ (n + j) - 1 \in 0 .. PIPE_BUF_SIZE - 1
          /\ j - 1 \in 0 .. PIPE_BUF_SIZE - 1
      <3>1. j \in Nat /\ 1 <= j /\ j <= u - n /\ u <= PIPE_BUF_SIZE - 1 /\ PIPE_BUF_SIZE \in Nat
        BY <1>1, PipeAssumption
      <3> QED BY <1>1, <3>1
    <2>2. Advanced(r2, j - 1) = Advanced(r, (n + j) - 1)
      <3>1. Advanced(r2, j - 1) = IF r2 + (j - 1) < PIPE_BUF_SIZE THEN r2 + (j - 1)
                                  ELSE r2 + (j - 1) - PIPE_BUF_SIZE
        BY <1>3, <2>1, AdvancedType
      <3>2. Advanced(r, (n + j) - 1) = IF r + ((n + j) - 1) < PIPE_BUF_SIZE
                                       THEN r + ((n + j) - 1)
                                       ELSE r + ((n + j) - 1) - PIPE_BUF_SIZE
        BY <2>1, AdvancedType
      <3>3. r \in Nat /\ r < PIPE_BUF_SIZE /\ PIPE_BUF_SIZE \in Nat /\ j \in Nat
        BY <1>1, PipeAssumption DEF Cells
      <3> QED BY <1>1, <1>3, <2>1, <3>1, <3>2, <3>3
    <2>3. sub[j] = q[n + j]
      BY <1>6, <2>1
    <2> QED BY <1>2, <1>4, <2>1, <2>2, <2>3
  <1>9. rest = sub
    BY <1>4, <1>6, <1>7, <1>8, SeqEqual
  <1> QED BY <1>9 DEF q, r2, rest, sub
-----------------------------------------------------------------------------
(* Type correctness. *)

LEMMA UsedIsFilled == ASSUME NEW i \in PipeIds
                      PROVE  Used(i) = Filled(w_cursor[i], r_cursor[i])
  BY DEF Used, Filled

(* How many bytes a write and a read move. *)
LEMMA WriteCount ==
  ASSUME TypeOK, NEW i \in PipeIds, NEW data \in Data
  PROVE  LET n == Least(Len(data), FreeSpace(i))
         IN /\ n \in Nat /\ n \in 0 .. PIPE_BUF_SIZE - 1
            /\ n <= Len(data) /\ n <= PIPE_BUF_SIZE - 1 - Used(i)
  <1>1. Used(i) \in 0 .. PIPE_BUF_SIZE - 1
    BY UsedIsFilled, FilledType DEF TypeOK
  <1>2. Len(data) \in Nat
    BY DataType, LenProperties
  <1> QED BY <1>1, <1>2, PipeAssumption DEF Least, FreeSpace

LEMMA ReadCount ==
  ASSUME TypeOK, NEW i \in PipeIds, NEW len \in 0 .. MaxLen
  PROVE  LET n == Least(len, Used(i))
         IN /\ n \in Nat /\ n \in 0 .. PIPE_BUF_SIZE - 1 /\ n \in 0 .. Used(i)
            /\ n \in 0 .. MaxLen
  <1>1. Used(i) \in 0 .. PIPE_BUF_SIZE - 1
    BY UsedIsFilled, FilledType DEF TypeOK
  <1> QED BY <1>1, PipeAssumption DEF Least

LEMMA ResultType == ASSUME NEW n \in Int, NEW b \in Data
                    PROVE  Returned(n, b) \in [n : Int, bytes : Data]
  BY DEF Returned

LEMMA EmptyData == <<>> \in Data
  <1>1. <<>> \in [1 .. 0 -> Bytes] /\ 0 \in 0 .. MaxLen
    BY PipeAssumption
  <1> QED BY <1>1 DEF Data

LEMMA LoadedData ==
  ASSUME NEW ring \in [Cells -> Bytes], NEW r \in Cells, NEW n \in 0 .. PIPE_BUF_SIZE - 1,
         n \in 0 .. MaxLen
  PROVE  Loaded(ring, r, n) \in Data
  BY LoadedSeq DEF Data

LEMMA InitType == Init => TypeOK
  <1> SUFFICES ASSUME Init PROVE TypeOK
    OBVIOUS
  <1>1. 0 \in Cells
    BY PipeAssumption DEF Cells
  <1>2. result \in [n : Int, bytes : Data]
    BY EmptyData, ResultType DEF Init
  <1> QED BY <1>1, <1>2, BytesAssumption DEF Init, TypeOK

LEMMA NextType == TypeOK /\ [Next]_vars => TypeOK'
  <1> SUFFICES ASSUME TypeOK, [Next]_vars PROVE TypeOK'
    OBVIOUS
  <1>0. Refused \in [n : Int, bytes : Data]
    BY EmptyData, ResultType DEF Refused
  <1>1. CASE UNCHANGED vars
    BY <1>1 DEF vars, TypeOK
  <1>2. CASE CreateFails
    BY <1>0, <1>2 DEF CreateFails, TypeOK, flagVars
  <1>3. ASSUME NEW i \in PipeIds, Create(i) PROVE TypeOK'
    <2>1. 0 \in Cells /\ i \in Int
      BY PipeAssumption DEF Cells, PipeIds
    <2>2. result' \in [n : Int, bytes : Data]
      BY <1>3, <2>1, EmptyData, ResultType DEF Create
    <2> QED BY <1>3, <2>1, <2>2 DEF Create, TypeOK
  <1>4. ASSUME NEW i \in PipeIds, NEW data \in Data, Write(i, data) PROVE TypeOK'
    <2> DEFINE n == Least(Len(data), FreeSpace(i))
    <2>1. n \in Int /\ n \in 0 .. PIPE_BUF_SIZE - 1 /\ n <= Len(data)
      BY WriteCount
    <2>2. /\ buf' = [buf EXCEPT ![i] = Stored(buf[i], w_cursor[i], data, n)]
          /\ w_cursor' = [w_cursor EXCEPT ![i] = Advanced(w_cursor[i], n)]
          /\ result' = Returned(n, <<>>)
          /\ UNCHANGED <<flagVars, r_cursor>> /\ wh' = "PIPE_WRITE"
      BY <1>4 DEF Write
    <2> HIDE DEF n
    <2>3. data \in Seq(Bytes) /\ buf[i] \in [Cells -> Bytes] /\ w_cursor[i] \in Cells
      BY DataType DEF TypeOK
    <2>4. Stored(buf[i], w_cursor[i], data, n) \in [Cells -> Bytes]
      BY <2>1, <2>3, StoredCells
    <2>5. Advanced(w_cursor[i], n) \in Cells
      BY <2>1, <2>3, AdvancedType
    <2>6. result' \in [n : Int, bytes : Data]
      BY <2>1, <2>2, EmptyData, ResultType
    <2>7. buf' \in [PipeIds -> [Cells -> Bytes]]
      BY <2>2, <2>4 DEF TypeOK
    <2>8. w_cursor' \in [PipeIds -> Cells]
      BY <2>2, <2>5 DEF TypeOK
    <2> QED BY <2>2, <2>6, <2>7, <2>8 DEF TypeOK, flagVars
  <1>5. ASSUME NEW i \in PipeIds, NEW len \in 0 .. MaxLen, Read(i, len) PROVE TypeOK'
    <2> DEFINE n == Least(len, Used(i))
    <2>1. n \in Int /\ n \in 0 .. PIPE_BUF_SIZE - 1 /\ n \in 0 .. MaxLen
      BY ReadCount
    <2>2. /\ r_cursor' = [r_cursor EXCEPT ![i] = Advanced(r_cursor[i], n)]
          /\ result' = Returned(n, Loaded(buf[i], r_cursor[i], n))
          /\ UNCHANGED <<flagVars, w_cursor, buf>> /\ wh' = "PIPE_READ"
      BY <1>5 DEF Read
    <2> HIDE DEF n
    <2>3. buf[i] \in [Cells -> Bytes] /\ r_cursor[i] \in Cells
      BY DEF TypeOK
    <2>4. Advanced(r_cursor[i], n) \in Cells
      BY <2>1, <2>3, AdvancedType
    <2>5. Loaded(buf[i], r_cursor[i], n) \in Data
      BY <2>1, <2>3, LoadedData
    <2>6. result' \in [n : Int, bytes : Data]
      BY <2>1, <2>2, <2>5, ResultType
    <2>7. r_cursor' \in [PipeIds -> Cells]
      BY <2>2, <2>4 DEF TypeOK
    <2> QED BY <2>2, <2>6, <2>7 DEF TypeOK, flagVars
  <1>6. ASSUME NEW i \in PipeIds, WriteFails(i) \/ ReadFails(i) PROVE TypeOK'
    BY <1>0, <1>6 DEF WriteFails, ReadFails, TypeOK, flagVars
  <1>7. ASSUME NEW i \in PipeIds, Close(i) PROVE TypeOK'
    BY <1>7 DEF Close, TypeOK
  <1> QED BY <1>1, <1>2, <1>3, <1>4, <1>5, <1>6, <1>7 DEF Next

(* The cursors of every pipe stay inside its ring, and what a call returns *)
(* is a byte count with as many bytes of the alphabet.                     *)
THEOREM TypeCorrect == Spec => []TypeOK
  BY InitType, NextType, PTL DEF Spec
-----------------------------------------------------------------------------
(* The refinement. *)

state == [i \in PipeIds |-> IF ~active[i] THEN "none" ELSE IF closed[i] THEN "closed" ELSE "open"]
queue == [i \in PipeIds |-> Loaded(buf[i], r_cursor[i], Used(i))]

(* The bytes in a ring are as many as Used says. *)
LEMMA QueueOf ==
  ASSUME TypeOK, NEW i \in PipeIds
  PROVE  /\ Used(i) \in 0 .. PIPE_BUF_SIZE - 1
         /\ queue[i] = Loaded(buf[i], r_cursor[i], Used(i))
         /\ Len(queue[i]) = Used(i)
  <1>1. Used(i) \in 0 .. PIPE_BUF_SIZE - 1
    BY UsedIsFilled, FilledType DEF TypeOK
  <1>2. buf[i] \in [Cells -> Bytes] /\ r_cursor[i] \in Cells
    BY DEF TypeOK
  <1> QED BY <1>1, <1>2, LoadedSeq DEF queue

LEMMA StreamInit == Init => Stream!Init
  <1> SUFFICES ASSUME Init PROVE Stream!Init
    OBVIOUS
  <1>1. state = [i \in PipeIds |-> "none"]
    BY DEF Init, state
  <1>2. \A i \in PipeIds : Used(i) = 0
    BY DEF Init, Used
  <1>3. \A ring, r : Loaded(ring, r, 0) = <<>>
    BY DEF Loaded
  <1>4. queue = [i \in PipeIds |-> <<>>]
    BY <1>2, <1>3 DEF queue
  <1> QED BY <1>1, <1>4 DEF Init, Stream!Init, Stream!Returned, Returned, state, queue

LEMMA WriteStep ==
  ASSUME TypeOK, NEW i \in PipeIds, NEW data \in Data, Write(i, data)
  PROVE  /\ queue' = [queue EXCEPT ![i] =
                        @ \o SubSeq(data, 1, Least(Len(data), PIPE_BUF_SIZE - 1 - Len(queue[i])))]
         /\ result' = Returned(Least(Len(data), PIPE_BUF_SIZE - 1 - Len(queue[i])), <<>>)
  <1> DEFINE n == Least(Len(data), FreeSpace(i))
             u == Used(i)
  <1>1. n \in Nat /\ n <= Len(data) /\ n <= PIPE_BUF_SIZE - 1 - u
    BY WriteCount
  <1>2. n = Least(Len(data), PIPE_BUF_SIZE - 1 - Len(queue[i]))
    BY QueueOf DEF FreeSpace
  <1>3. /\ buf' = [buf EXCEPT ![i] = Stored(buf[i], w_cursor[i], data, n)]
        /\ w_cursor' = [w_cursor EXCEPT ![i] = Advanced(w_cursor[i], n)]
        /\ r_cursor' = r_cursor
        /\ result' = Returned(n, <<>>)
    BY DEF Write
  <1>4. u = Filled(w_cursor[i], r_cursor[i])
    BY UsedIsFilled
  <1> HIDE DEF n, u
  <1>5. /\ data \in Seq(Bytes) /\ buf[i] \in [Cells -> Bytes]
        /\ w_cursor[i] \in Cells /\ r_cursor[i] \in Cells
    BY DataType DEF TypeOK
  <1>6. /\ buf'[i] = Stored(buf[i], w_cursor[i], data, n)
        /\ w_cursor'[i] = Advanced(w_cursor[i], n)
        /\ \A j \in PipeIds : j # i => buf'[j] = buf[j] /\ w_cursor'[j] = w_cursor[j]
    BY <1>3 DEF TypeOK
  <1>7. Used(i)' = u + n
    <2>1. Used(i)' = Filled(Advanced(w_cursor[i], n), r_cursor[i])
      BY <1>3, <1>6 DEF Used, Filled
    <2> QED BY <1>1, <1>4, <1>5, <2>1, FilledWrite
  <1>8. queue'[i] = queue[i] \o SubSeq(data, 1, n)
    <2>1. queue'[i] = Loaded(Stored(buf[i], w_cursor[i], data, n), r_cursor[i], u + n)
      BY <1>3, <1>6, <1>7 DEF queue
    <2>2. queue[i] = Loaded(buf[i], r_cursor[i], u)
      BY DEF queue, u
    <2>3. n <= PIPE_BUF_SIZE - 1 - Filled(w_cursor[i], r_cursor[i])
      BY <1>1, <1>4
    <2>4. Loaded(Stored(buf[i], w_cursor[i], data, n), r_cursor[i], Filled(w_cursor[i], r_cursor[i]) + n)
            = Loaded(buf[i], r_cursor[i], Filled(w_cursor[i], r_cursor[i])) \o SubSeq(data, 1, n)
      BY <1>1, <1>5, <2>3, WriteAppends
    <2> QED BY <1>4, <2>1, <2>2, <2>4
  <1>9. \A j \in PipeIds : j # i => queue'[j] = queue[j]
    BY <1>3, <1>6 DEF queue, Used
  <1>10. queue' = [queue EXCEPT ![i] = queue[i] \o SubSeq(data, 1, n)]
    <2>1. queue' = [j \in PipeIds |-> queue'[j]]
      BY DEF queue
    <2>2. queue = [j \in PipeIds |-> queue[j]]
      BY DEF queue
    <2> HIDE DEF queue
    <2> QED BY <1>8, <1>9, <2>1, <2>2
  <1> QED BY <1>2, <1>3, <1>10

LEMMA ReadStep ==
  ASSUME TypeOK, NEW i \in PipeIds, NEW len \in 0 .. MaxLen, Read(i, len)
  PROVE  LET n == Least(len, Len(queue[i]))
         IN /\ queue' = [queue EXCEPT ![i] = SubSeq(@, n + 1, Len(@))]
            /\ result' = Returned(n, SubSeq(queue[i], 1, n))
  <1> DEFINE u == Used(i)
             n == Least(len, u)
             r == r_cursor[i]
  <1>1. n \in Nat /\ n \in 0 .. u
    BY ReadCount
  <1>2. u \in 0 .. PIPE_BUF_SIZE - 1 /\ queue[i] = Loaded(buf[i], r, u) /\ Len(queue[i]) = u
    BY QueueOf
  <1>3. /\ r_cursor' = [r_cursor EXCEPT ![i] = Advanced(r, n)]
        /\ result' = Returned(n, Loaded(buf[i], r, n))
        /\ w_cursor' = w_cursor /\ buf' = buf
    BY DEF Read
  <1>4. u = Filled(w_cursor[i], r)
    BY UsedIsFilled
  <1>5. buf[i] \in [Cells -> Bytes] /\ w_cursor[i] \in Cells /\ r \in Cells
    BY DEF TypeOK
  <1> HIDE DEF n, u
  <1>6. /\ r_cursor'[i] = Advanced(r, n)
        /\ \A j \in PipeIds : j # i => r_cursor'[j] = r_cursor[j]
    BY <1>3 DEF TypeOK
  <1>7. Used(i)' = u - n
    <2>1. Used(i)' = Filled(w_cursor[i], Advanced(r, n))
      BY <1>3, <1>6 DEF Used, Filled
    <2>2. n <= Filled(w_cursor[i], r)
      BY <1>1, <1>2, <1>4, PipeAssumption
    <2> QED BY <1>1, <1>4, <1>5, <2>1, <2>2, FilledRead
  <1>8. queue'[i] = SubSeq(queue[i], n + 1, u)
    <2>1. queue'[i] = Loaded(buf[i], Advanced(r, n), u - n)
      BY <1>3, <1>6, <1>7 DEF queue
    <2> QED BY <1>1, <1>2, <1>5, <2>1, ReadRest
  <1>9. \A j \in PipeIds : j # i => queue'[j] = queue[j]
    BY <1>3, <1>6 DEF queue, Used
  <1>10. queue' = [queue EXCEPT ![i] = SubSeq(queue[i], n + 1, u)]
    <2>1. queue' = [j \in PipeIds |-> queue'[j]]
      BY DEF queue
    <2>2. queue = [j \in PipeIds |-> queue[j]]
      BY DEF queue
    <2> HIDE DEF queue
    <2> QED BY <1>8, <1>9, <2>1, <2>2
  <1>11. result' = Returned(n, SubSeq(queue[i], 1, n))
    <2>1. Loaded(buf[i], r, n) = SubSeq(Loaded(buf[i], r, u), 1, n)
      BY <1>1, <1>2, <1>5, ReadFront
    <2> QED BY <1>2, <1>3, <2>1
  <1> QED BY <1>2, <1>10, <1>11 DEF n

(* The cursors of a pipe that was never created did not move: creating it *)
(* drops no byte.                                                         *)
Fresh == \A i \in PipeIds : ~active[i] => w_cursor[i] = 0 /\ r_cursor[i] = 0

LEMMA FreshStep == TypeOK /\ Fresh /\ [Next]_vars => Fresh'
  <1> SUFFICES ASSUME TypeOK, Fresh, [Next]_vars PROVE Fresh'
    OBVIOUS
  <1>1. CASE UNCHANGED vars
    BY <1>1 DEF vars, Fresh
  <1>2. CASE CreateFails
    BY <1>2 DEF CreateFails, Fresh, flagVars
  <1>3. ASSUME NEW i \in PipeIds, Create(i) PROVE Fresh'
    BY <1>3 DEF Create, Fresh, TypeOK
  <1>4. ASSUME NEW i \in PipeIds, NEW data \in Data, Write(i, data) PROVE Fresh'
    <2>1. active[i] /\ active' = active /\ r_cursor' = r_cursor
      BY <1>4 DEF Write, MayWrite, flagVars
    <2>2. \A j \in PipeIds : j # i => w_cursor'[j] = w_cursor[j]
      BY <1>4 DEF Write, TypeOK
    <2> QED BY <2>1, <2>2 DEF Fresh
  <1>5. ASSUME NEW i \in PipeIds, NEW len \in 0 .. MaxLen, Read(i, len) PROVE Fresh'
    <2>1. active[i] /\ active' = active /\ w_cursor' = w_cursor
      BY <1>5 DEF Read, flagVars
    <2>2. \A j \in PipeIds : j # i => r_cursor'[j] = r_cursor[j]
      BY <1>5 DEF Read, TypeOK
    <2> QED BY <2>1, <2>2 DEF Fresh
  <1>6. ASSUME NEW i \in PipeIds, WriteFails(i) \/ ReadFails(i) \/ Close(i) PROVE Fresh'
    BY <1>6 DEF WriteFails, ReadFails, Close, Fresh, flagVars
  <1> QED BY <1>1, <1>2, <1>3, <1>4, <1>5, <1>6 DEF Next

LEMMA CreateStep ==
  ASSUME TypeOK, Fresh, NEW i \in PipeIds, Create(i)
  PROVE  state' = [state EXCEPT ![i] = "open"] /\ queue' = queue
  <1>1. /\ ~active[i]
        /\ active' = [active EXCEPT ![i] = TRUE] /\ closed' = [closed EXCEPT ![i] = FALSE]
        /\ w_cursor' = [w_cursor EXCEPT ![i] = 0] /\ r_cursor' = [r_cursor EXCEPT ![i] = 0]
        /\ buf' = buf
    BY DEF Create
  <1>2. w_cursor' = w_cursor /\ r_cursor' = r_cursor
    BY <1>1 DEF Fresh, TypeOK
  <1>3. queue' = queue
    BY <1>1, <1>2 DEF queue, Used
  <1>4. state' = [state EXCEPT ![i] = "open"]
    BY <1>1 DEF state, TypeOK
  <1> QED BY <1>3, <1>4

(* Every call is a call of the stream: a refused one refuses, and a second *)
(* close changes nothing of the stream.                                    *)
LEMMA StreamStep == TypeOK /\ Fresh /\ [Next]_vars => [Stream!Next]_(Stream!fifoVars)
  <1> SUFFICES ASSUME TypeOK, Fresh, [Next]_vars PROVE [Stream!Next]_(Stream!fifoVars)
    OBVIOUS
  <1>0. ASSUME UNCHANGED <<state, queue, result>>
        PROVE  UNCHANGED Stream!fifoVars
    BY <1>0 DEF Stream!fifoVars, state, queue
  <1>1. CASE UNCHANGED vars
    BY <1>0, <1>1 DEF vars, flagVars, state, queue, Used
  <1>2. ASSUME result' = Refused, UNCHANGED <<active, closed, w_cursor, r_cursor, buf>>
        PROVE  Stream!Next
    <2>1. UNCHANGED <<state, queue>>
      BY <1>2 DEF state, queue, Used
    <2>2. Stream!Refuse
      BY <1>2, <2>1 DEF Stream!Refuse, Stream!Refused, Stream!Returned, Refused, Returned,
                        state, queue
    <2> QED BY <2>2 DEF Stream!Next
  <1>3. CASE CreateFails
    BY <1>2, <1>3 DEF CreateFails, flagVars
  <1>4. ASSUME NEW i \in PipeIds, WriteFails(i) \/ ReadFails(i) PROVE Stream!Next
    BY <1>2, <1>4 DEF WriteFails, ReadFails, flagVars
  <1>5. ASSUME NEW i \in PipeIds, Create(i) PROVE Stream!Next
    <2>1. state[i] = "none" /\ result' = Returned(i, <<>>)
      BY <1>5 DEF Create, state
    <2>2. state' = [state EXCEPT ![i] = "open"] /\ queue' = queue
      BY <1>5, CreateStep
    <2>3. Stream!Create(i)
      BY <2>1, <2>2 DEF Stream!Create, Stream!Returned, Returned, state, queue
    <2> QED BY <2>3 DEF Stream!Next
  <1>6. ASSUME NEW i \in PipeIds, NEW data \in Data, Write(i, data) PROVE Stream!Next
    <2>1. state[i] = "open" /\ state' = state
      BY <1>6 DEF Write, MayWrite, flagVars, state
    <2>2. /\ queue' = [queue EXCEPT ![i] =
                @ \o SubSeq(data, 1, Least(Len(data), PIPE_BUF_SIZE - 1 - Len(queue[i])))]
          /\ result' = Returned(Least(Len(data), PIPE_BUF_SIZE - 1 - Len(queue[i])), <<>>)
      BY <1>6, WriteStep
    <2>3. Stream!Write(i, data)
      BY <2>1, <2>2 DEF Stream!Write, Stream!Returned, Returned, Stream!Least, Least, state, queue
    <2>4. data \in Stream!Data
      BY DEF Stream!Data, Data
    <2> QED BY <2>3, <2>4 DEF Stream!Next
  <1>7. ASSUME NEW i \in PipeIds, NEW len \in 0 .. MaxLen, Read(i, len) PROVE Stream!Next
    <2>1. state[i] # "none" /\ state' = state
      BY <1>7 DEF Read, flagVars, state
    <2>2. LET n == Least(len, Len(queue[i]))
          IN /\ queue' = [queue EXCEPT ![i] = SubSeq(@, n + 1, Len(@))]
             /\ result' = Returned(n, SubSeq(queue[i], 1, n))
      BY <1>7, ReadStep
    <2>3. Stream!Read(i, len)
      BY <2>1, <2>2 DEF Stream!Read, Stream!Returned, Returned, Stream!Least, Least, state, queue
    <2> QED BY <2>3 DEF Stream!Next
  <1>8. ASSUME NEW i \in PipeIds, Close(i) PROVE [Stream!Next]_(Stream!fifoVars)
    <2>1. UNCHANGED <<active, w_cursor, r_cursor, buf, result>>
          /\ closed' = [closed EXCEPT ![i] = TRUE]
      BY <1>8 DEF Close
    <2>2. queue' = queue
      BY <2>1 DEF queue, Used
    <2>3. CASE active[i] /\ ~closed[i]
      <3>1. state[i] = "open" /\ state' = [state EXCEPT ![i] = "closed"]
        BY <2>1, <2>3 DEF state, TypeOK
      <3>2. Stream!Close(i)
        BY <2>1, <2>2, <3>1 DEF Stream!Close, state, queue
      <3> QED BY <3>2 DEF Stream!Next
    <2>4. CASE ~(active[i] /\ ~closed[i])
      <3>1. state' = state
        BY <2>1, <2>4 DEF state, TypeOK
      <3> QED BY <1>0, <2>1, <2>2, <3>1
    <2> QED BY <2>3, <2>4
  <1> QED BY <1>1, <1>3, <1>4, <1>5, <1>6, <1>7, <1>8 DEF Next

(* A pipe of any capacity, over any bytes and for any sequence of calls, is *)
(* the bounded first-in first-out stream of Fifo: pipe_write, pipe_read and *)
(* their wraps lose, repeat and reorder nothing.                            *)
THEOREM StreamCorrect == Spec => StreamSpec
  <1>1. Init => TypeOK /\ Fresh /\ Stream!Init
    BY InitType, StreamInit DEF Init, Fresh
  <1>2. TypeOK /\ Fresh /\ [Next]_vars => TypeOK' /\ Fresh' /\ [Stream!Next]_(Stream!fifoVars)
    BY NextType, FreshStep, StreamStep
  <1> QED BY <1>1, <1>2, PTL DEF Spec, StreamSpec, Stream!Spec
=============================================================================
