------------------------------- MODULE Spatial -------------------------------
(***************************************************************************)
(* The spatial compressors (src/spatial/c_native): five versions of an     *)
(* encoder that is fed bytes in chunks and keeps what a decoder needs to   *)
(* give them back: a log of pairs (v1), a ring of records (v2), a packed   *)
(* stream (v3), an image of brightness alone (v3f) and an image with the   *)
(* cycles in which a pixel was visited (cvp1).  Here all five are fed the  *)
(* same chunks.  A packed run is MARK, the length, and what is repeated;   *)
(* the two bytes of the length are one element.                            *)
(***************************************************************************)
EXTENDS Integers, Sequences, FiniteSets, SequencesExt, FiniteSetsExt

CONSTANTS BYTE_MAX, MARK,   \* bytes are 0 .. BYTE_MAX; 0xFF
          RUN_MAX,          \* longest run of a packed stream (65535)
          COLS,             \* bytes of a walk, and columns of a page (128)
          PAGES,            \* pages until they are used again (256 and 64)
          H,                \* rows of an image, even (512)
          WH_CAP,           \* records of the ring of v2
          RG_LIMIT, RESETS, \* cvp1: brightness of a fresh pixel, values of its count of resets
          MASK_BITS,        \* cvp1: cycles of the bit mask (64)
          PACK_BITS, FIRST, \* cvp1: bits of the packed deltas (44), values of the first cycle
          MaxChunk, MaxBytes   \* bounds of the check

Bytes == 0..BYTE_MAX
ASSUME SpatialAssumption ==
  /\ BYTE_MAX \in Nat /\ MARK \in Bytes /\ RUN_MAX \in Nat \ {0}
  /\ COLS \in Nat \ {0} /\ PAGES \in Nat \ {0} /\ H \in Nat \ {0} /\ H % 2 = 0

VARIABLES data,     \* all that was fed
          feeds,    \* calls that fed it
          log1, v2, v3, v3f, cvp

spatialVars == <<data, feeds, log1, v2, v3, v3f, cvp>>

Chunks == UNION {[1..n -> Bytes] : n \in 1..MaxChunk}
Steps(s) == 1..Len(s)
Repeat(s, n) == FlattenSeq([i \in 1..n |-> s])

(* Packed runs: rle_encode_fronts, part 3 of v2_compress_full,             *)
(* wh_stream_write; a literal never begins with the mark.                  *)
RunAt(s, i) == Max({n \in 1..Len(s) - i + 1 : n <= RUN_MAX /\ \A j \in i..i + n - 1 : s[j] = s[i]})
TokenShort(e, n) == IF n >= 3 \/ e[1] = MARK THEN <<MARK, n - 1>> \o e ELSE Repeat(e, n)   \* mutant: the first byte of a run is not counted
Token(e, n) == IF n >= 3 \/ e[1] = MARK THEN <<MARK, n>> \o e ELSE Repeat(e, n)
TokenV2(e, n) == IF n >= 3 THEN <<MARK, n>> \o e
                 ELSE Repeat(IF e[1] = MARK THEN <<MARK, 1>> \o e ELSE e, n)
TokenOf(version, e, n) == IF version = 2 THEN TokenV2(e, n) ELSE Token(e, n)
Packed(s, version) ==
  LET P[i \in 1..Len(s) + 1] ==
        IF i > Len(s) THEN <<>> ELSE TokenOf(version, s[i], RunAt(s, i)) \o P[i + RunAt(s, i)]
  IN P[1]
Unpacked(f, w) ==
  LET U[i \in 1..Len(f) + w + 2] ==
        IF i > Len(f) THEN <<>>
        ELSE IF f[i] = MARK /\ i + 1 + w <= Len(f)
             THEN Repeat(SubSeq(f, i + 2, i + 1 + w), f[i + 1]) \o U[i + 2 + w]
             ELSE SubSeq(f, i, Min({i + w - 1, Len(f)})) \o U[i + w]
  IN U[1]
Ones(s) == [i \in Steps(s) |-> <<s[i]>>]

(* v1, sj_encode: a chunk is a list of pairs, the last one filled with 0.  *)
Pairs(chunk) ==
  [i \in 1..(Len(chunk) + 1) \div 2 |-> <<chunk[2 * i - 1], IF 2 * i <= Len(chunk) THEN chunk[2 * i] ELSE 0>>]
Padded(chunk) == FlattenSeq(Pairs(chunk))
DecodeV1 == FlattenSeq(log1.fronts)
DecompressV1 ==
  LET out == Unpacked(Packed(log1.fronts, 1), 2) IN SubSeq(out, 1, Min({Len(out), 2 * Len(log1.fronts)}))
(* The brightness of the columns, every row of a column being the same.    *)
StepV1(canvas, pair) ==
  [canvas EXCEPT ![0][pair[1]] = @ + 1, ![1][pair[2]] = @ + 1]
UnstepV1(canvas, pair) ==
  [canvas EXCEPT ![0][pair[1]] = Max({@ - 1, 0}), ![1][pair[2]] = Max({@ - 1, 0})]
FeedV1(chunk) ==
  log1' = [fronts |-> log1.fronts \o Pairs(chunk), canvas |-> FoldLeft(StepV1, log1.canvas, Pairs(chunk))]

(* v2 and v3 walk COLS bytes in the R zone, then as many in the G zone,    *)
(* and turn the page, also after a page that the chunk did not fill (v2)   *)
(* or unless the chunk ended in its R zone (v3).                           *)
PAGE == 2 * COLS
Place(i) == [page |-> (i - 1) \div PAGE, zone |-> ((i - 1) % PAGE) \div COLS]
Brighter(bright, page, chunk) ==
  [p \in 0..PAGES - 1, z \in {0, 1}, c \in 0..COLS - 1 |->
     bright[p, z, c] + Cardinality({i \in Steps(chunk) : /\ (page + Place(i).page) % PAGES = p
                                                        /\ Place(i).zone = z
                                                        /\ chunk[i] % COLS = c})]
Dark == [p \in 0..PAGES - 1, z \in {0, 1}, c \in 0..COLS - 1 |-> 0]
Brightest(bright) == Max({bright[k] : k \in DOMAIN bright})
Deltas(bright, brightest) == [k \in {i \in DOMAIN bright : bright[i] > 0} |-> brightest - bright[k]]
Lit(deltas, brightest, places) == [k \in places |-> IF k \in DOMAIN deltas THEN brightest - deltas[k] ELSE 0]

InRing(ring, byte) ==
  [cursor |-> ring.cursor + 1, records |-> [ring.records EXCEPT ![ring.cursor % WH_CAP] = byte]]
FeedV2(chunk) ==
  LET bright == Brighter(v2.bright, v2.page, chunk) IN
  v2' = [wh |-> FoldLeft(InRing, v2.wh, chunk),
         bytes |-> Len(chunk),
         page |-> v2.page + (Len(chunk) + PAGE - 1) \div PAGE,
         bright |-> bright, brightest |-> Brightest(bright)]
RecordsV2 == [i \in 1..Min({v2.wh.cursor, WH_CAP}) |-> v2.wh.records[i - 1]]
DecodeV2 == SubSeq(RecordsV2, 1, Min({Len(RecordsV2), v2.bytes}))
DecompressV2 ==
  LET out == Unpacked(Packed(Ones(RecordsV2), 2), 1) IN SubSeq(out, 1, Min({Len(out), v2.bytes}))

WalksOf(chunk) ==
  FlattenSeq([w \in 1..(Len(chunk) + COLS - 1) \div COLS |->
     Packed(Ones(SubSeq(chunk, (w - 1) * COLS + 1, Min({w * COLS, Len(chunk)}))), 3)])
FeedV3(chunk) ==
  LET bright == Brighter(v3.bright, v3.page, chunk) IN
  v3' = [file |-> v3.file \o WalksOf(chunk),
         page |-> (v3.page + (Len(chunk) + COLS - 1) \div PAGE) % PAGES,
         bright |-> bright,
         brightest |-> Max({v3.brightest, Brightest(bright)})]

(* v3_dec_read: what want bytes are made of, from a place of the stream;   *)
(* what is left of a run when they are complete is lost.                   *)
ReadV3(f, from, want) ==
  LET R[i \in 1..Len(f) + 3, n \in 0..want] ==
        IF n = 0 \/ i > Len(f) THEN [at |-> i, out |-> <<>>]
        ELSE LET run == IF f[i] = MARK THEN Min({f[i + 1], n}) ELSE 1
                 byte == IF f[i] = MARK THEN f[i + 2] ELSE f[i]
                 rest == R[IF f[i] = MARK THEN i + 3 ELSE i + 1, n - run]
             IN [at |-> rest.at, out |-> Repeat(<<byte>>, run) \o rest.out]
  IN R[from, want]
RestoredV3(len) ==
  LET D[n \in 0..Len(data) + 1] ==
        IF n = 0 THEN [at |-> 1, out |-> <<>>]
        ELSE LET d == D[n - 1]
                 r == ReadV3(v3.file, d.at, Min({len, Len(data) - Len(d.out)}))
             IN [at |-> r.at, out |-> d.out \o r.out]
  IN D[(Len(data) + len - 1) \div len].out

(* v3f: byte p lights the pixel of its value in the row and zone of p.     *)
Row(p) == (((p - 1) \div PAGE) * COLS + ((p - 1) % COLS)) % H
Zone(p) == ((p - 1) % PAGE) \div COLS
FeedV3f(chunk) ==
  v3f' = [y \in 0..H - 1, z \in {0, 1}, b \in Bytes |->
     v3f[y, z, b] + Cardinality({i \in Steps(chunk) :
        Row(Len(data) + i) = y /\ Zone(Len(data) + i) = z /\ chunk[i] = b})]
Brightest3f == Max({v3f[k] : k \in DOMAIN v3f} \cup {1})

(* v3f_read_and_decode takes the brightest pixel of the row, the first of  *)
(* those that are equal, and darkens it.                                   *)
BrightestOf(image, p) ==
  Min({b \in Bytes : \A c \in Bytes : image[Row(p), Zone(p), b] >= image[Row(p), Zone(p), c]})
DecodeV3f ==
  LET D[n \in 0..Len(data)] ==
        IF n = 0 THEN [image |-> Lit(Deltas(v3f, Brightest3f), Brightest3f, DOMAIN v3f), out |-> <<>>]
        ELSE LET d == D[n - 1]
                 b == BrightestOf(d.image, n)
             IN [image |-> [d.image EXCEPT ![Row(n), Zone(n), b] = Max({@ - 1, 0})], out |-> Append(d.out, b)]
  IN D[Len(data)].out

(* cvp1: step s of the whole input visits the pixel of its row and byte in *)
(* a cycle, which takes its k from the brightness; the parity of the row   *)
(* is that of the step, and says which lane is meant.                      *)
K(step) == (step + 1) \div 2
Visited(p, k) ==
  [p EXCEPT !.light = (IF @ < k THEN RG_LIMIT ELSE @) - k,
            !.resets = IF p.light < k THEN (@ + 1) % RESETS ELSE @,
            !.visits = @ + 1]
Fresh == [light |-> RG_LIMIT, resets |-> 0, visits |-> 0]
VisitedBy(image, visit) == [image EXCEPT ![visit.step % H, visit.byte] = Visited(@, K(visit.step))]
FeedCvp(chunk) ==
  cvp' = FoldLeft(VisitedBy, cvp, [i \in Steps(chunk) |-> [step |-> Len(data) + i, byte |-> chunk[i]]])

(* cvp1_write_image: the cycles that visited a pixel, all of them in a bit *)
(* mask or, when there are too many, the first one and as many deltas as   *)
(* fit when each takes the bits of the largest.                            *)
MaxCycle == Len(data) \div H + 1
Cycles(y, b) == SetToSortSeq({s \div H : s \in {t \in Steps(data) : t % H = y /\ data[t] = b}}, <)
Bits(d) == CHOOSE n \in 1..d + 1 : 2 ^ n > d /\ \A m \in 1..n - 1 : 2 ^ m <= d
DeltasOf(c) == [j \in 1..Len(c) - 1 |-> c[j + 1] - c[j]]
Fit(c) == PACK_BITS \div Bits(Max(Range(DeltasOf(c))))
Known(c) == IF MaxCycle <= MASK_BITS THEN Range(c)
            ELSE {(c[1] % FIRST) + (c[j] - c[1]) : j \in 1..IF Len(c) = 1 THEN 1 ELSE Min({Len(c), 1 + Fit(c)})}
Empty == -1
Lookup(y, c) == Max({b \in Bytes : cvp[y, b].visits > 0 /\ c \in Known(Cycles(y, b))} \cup {Empty})

(* cvp1_read_and_decode: where no pixel says it was visited, a pixel is    *)
(* taken that can still come to its brightness, the last one that can.     *)
LeftAfter(image, y, b) == cvp[y, b].visits - image[y, b].visits - 1
Sum(n, y, first) == n * ((y + 1) \div 2) + (H \div 2) * (n * first + (n * (n - 1)) \div 2)
MayVisit(image, step, b) ==
  LET y == step % H
      c == step \div H
      last == Len(data) \div H
      p == Visited(image[y, b], K(step))
      rest == LeftAfter(image, y, b)
      resets == cvp[y, b].resets - p.resets
      owed == p.light - cvp[y, b].light + resets * RG_LIMIT
  IN /\ image[y, b].visits # cvp[y, b].visits
     /\ resets >= 0
     /\ IF rest = 0 THEN resets = 0 /\ p.light = cvp[y, b].light
        ELSE /\ rest > 0 /\ c + 1 <= last /\ last - c >= rest
             /\ owed >= Sum(rest, y, c + 1) /\ owed <= Sum(rest, y, last - rest + 1)
Guess(image, step) == Max({b \in Bytes : MayVisit(image, step, b)} \cup {Empty})
DecodeCvp ==
  LET D[n \in 0..Len(data)] ==
        IF n = 0 THEN [image |-> [k \in DOMAIN cvp |-> Fresh], out |-> <<>>]
        ELSE LET d == D[n - 1]
                 known == Lookup(n % H, n \div H)
                 b == IF known # Empty \/ MaxCycle <= MASK_BITS THEN known ELSE Guess(d.image, n)
             IN [image |-> IF b = Empty THEN d.image ELSE VisitedBy(d.image, [step |-> n, byte |-> b]),
                 out |-> Append(d.out, IF b = Empty THEN 0 ELSE b)]
  IN D[Len(data)].out

SpatialInit ==
  /\ data = <<>> /\ feeds = 0
  /\ log1 = [fronts |-> <<>>, canvas |-> [z \in {0, 1} |-> [b \in Bytes |-> 0]]]
  /\ v2 = [wh |-> [cursor |-> 0, records |-> [i \in 0..WH_CAP - 1 |-> 0]],
           bytes |-> 0, page |-> 0, bright |-> Dark, brightest |-> 0]
  /\ v3 = [file |-> <<>>, page |-> 0, bright |-> Dark, brightest |-> 0]
  /\ v3f = [y \in 0..H - 1, z \in {0, 1}, b \in Bytes |-> 0]
  /\ cvp = [y \in 0..H - 1, b \in Bytes |-> Fresh]

Feed(chunk) ==
  /\ Len(data) + Len(chunk) <= MaxBytes
  /\ data' = data \o chunk /\ feeds' = feeds + 1
  /\ FeedV1(chunk) /\ FeedV2(chunk) /\ FeedV3(chunk) /\ FeedV3f(chunk) /\ FeedCvp(chunk)

SpatialNext == \E chunk \in Chunks : Feed(chunk)
SpatialSpec == SpatialInit /\ [][SpatialNext]_spatialVars

-----------------------------------------------------------------------------
(* Every version gives back what it was fed: the pairs (v1) with the byte  *)
(* that fills an odd chunk, from the log, from the package and so that the *)
(* canvas is dark again when they are taken back (sj_spatial_compress.c,   *)
(* 345); one chunk that fits the ring, from the ring and from the package  *)
(* (v2, sj_spatial_v2.c:72 and 192); one chunk, read in pieces of whole    *)
(* walks (v3, sj_spatial_v3.c:86).                                         *)
Streams ==
  /\ DecodeV1 = DecompressV1
  /\ feeds = 1 => DecodeV1 = Padded(data)
  /\ FoldLeft(UnstepV1, log1.canvas, Reverse(log1.fronts)) = [z \in {0, 1} |-> [b \in Bytes |-> 0]]
  /\ feeds = 1 /\ Len(data) <= WH_CAP => DecodeV2 = data /\ DecompressV2 = data
  /\ feeds = 1 => \A n \in 1..3 : RestoredV3(n * COLS) = data

(* The images: what is dark or lit can be told from the deltas; v3f gives  *)
(* back the first cycle of rows, and of every row afterwards the same      *)
(* bytes, in some order (sj_spatial_v3f.c:206); cvp1 gives back all when   *)
(* the bit mask has room for the cycles, and otherwise every byte whose    *)
(* visit was packed (cvp1.c:163).                                          *)
Images ==
  /\ \A m \in {v2, v3} : Lit(Deltas(m.bright, m.brightest), m.brightest, DOMAIN Dark) = m.bright
  /\ LET out == DecodeV3f IN
       /\ Len(data) <= (H \div COLS) * PAGE => out = data
       /\ \A y \in 0..H - 1, z \in {0, 1}, b \in Bytes :
            Cardinality({i \in Steps(data) : Row(i) = y /\ Zone(i) = z /\ out[i] = b}) = v3f[y, z, b]
  /\ LET out == DecodeCvp IN
       /\ MaxCycle <= MASK_BITS => out = data
       /\ MaxCycle <= FIRST =>
            \A s \in Steps(data) : Lookup(s % H, s \div H) # Empty => out[s] = data[s]

=============================================================================
