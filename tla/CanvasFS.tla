------------------------------ MODULE CanvasFS ------------------------------
(***************************************************************************)
(* Volumes of CanvasFS (src/engine/src/canvasfs.c) on the tiles of the     *)
(* canvas.  A volume is a header tile (VOLH) that points to a tile of      *)
(* slots; a slot holds up to four bytes itself, or points to one data      *)
(* tile, or to a chain of data tiles and a tile with the length.  Tiles    *)
(* come from a bitmap (the FreeMap) or, without one, from a scan for tiles *)
(* that carry no magic.                                                    *)
(*                                                                         *)
(* A tile keeps the overlaps of the source that matter: its first cell is  *)
(* the magic and also slot 0, so that either overwrites the other.  Slots  *)
(* other than 0 stand for those of row 1, which share no cell with a       *)
(* header or a payload.  A chunk of data is the payload of one tile; the   *)
(* filters on the way (bpage) are applied byte by byte and inverted by     *)
(* reads, and are left out.                                                *)
(***************************************************************************)
EXTENDS Integers, Sequences, FiniteSets

CONSTANTS TILE_COUNT,      \* tiles of the canvas (4096)
          Reserved,        \* the control region, FS_RESERVED_LO .. FS_RESERVED_HI
          FreemapGate,     \* the tile of the FreeMap, or NoGate
          VolumeGates,     \* tiles that are given to fs_format_volume
          GuardedGates,    \* tiles whose gate opens and closes; the others stay open
          NumSlots,        \* slots of a volume (256)
          Chunks,          \* the payloads of a tile
          Tinies, Smalls,  \* the payloads of the data of up to 4 and up to 224 bytes
          Larges           \* the payloads of the larger data, sequences of chunks

Gates == 0 .. TILE_COUNT - 1
NoGate == -1     \* 0xFFFF: no FreeMap, and DAT_END
Slots == 0 .. NumSlots - 1

ASSUME CanvasAssumption == /\ TILE_COUNT \in Nat \ {0}
                           /\ NumSlots \in Nat \ {0}
                           /\ Tinies \cup Smalls \subseteq Chunks
                           /\ IsFiniteSet(Larges) /\ Larges # {}
                           /\ \A body \in Larges : body \in Seq(Chunks) /\ Len(body) >= 2
                           /\ Reserved \subseteq Gates
                           /\ FreemapGate \in (Gates \ Reserved) \cup {NoGate}
                           /\ VolumeGates \subseteq Gates \ {FreemapGate}
                           /\ GuardedGates \subseteq Gates
ASSUME ChunkAssumption == "padding" \notin Chunks

VARIABLES tile,     \* the canvas, tile by tile
          used,     \* bits of the FreeMap
          open      \* gates of the ActiveSet

vars == <<tile, used, open>>

Keys == [volume : VolumeGates, slot : Slots]

(* Data by its class: TINY in the slot, SMALL in one tile, LARGE in several. *)
Datum(class, body) == [class |-> class, body |-> body]
Empty == Datum("TINY", <<>>)
Free == Datum("FREE", <<>>)
Data == {Empty} \cup {Datum("TINY", <<c>>) : c \in Tinies}
                \cup {Datum("SMALL", <<c>>) : c \in Smalls}
                \cup {Datum("LARGE", body) : body \in Larges}
MaxTiles == CHOOSE n \in {Len(body) : body \in Larges} :
              \A body \in Larges : Len(body) <= n

Magics == {"none", "VOLH", "DAT1", "MET1", "DIR1", "FRE1"}

Slot(class, inline, head, meta) == [class |-> class, inline |-> inline, head |-> head, meta |-> meta]
FreeSlot == Slot("FREE", <<>>, 0, 0)
(* Slot 0 of a tile with a magic: the class byte is the letter of the magic. *)
MagicSlot == Slot("magic", <<>>, 0, 0)
Blank == [magic |-> "none", link |-> 0, body |-> "zeros", slot |-> [s \in Slots |-> FreeSlot]]

Marked(m, link) == [Blank EXCEPT !.magic = m, !.link = link, !.slot[0] = MagicSlot]
VolumeHeader(volt) == Marked("VOLH", volt)
DataTileUnlinked(next, chunk) == [Marked("DAT1", NoGate) EXCEPT !.body = chunk]    \* mutant: the chain ends
DataTile(next, chunk) == [Marked("DAT1", next) EXCEPT !.body = chunk]
MetaTile(len) == Marked("MET1", len)
SlotTable == Blank    \* the loop over the slots wipes the magic VOLT

Is(t, g, m) == g \in Gates /\ t[g].magic = m

(* The cell of a slot; slot 0 is the cell of the magic. *)
WithSlot(t, g, s, cell) == [t EXCEPT ![g].slot[s] = cell,
                                     ![g].magic = IF s = 0 THEN "none" ELSE @]
-----------------------------------------------------------------------------
(* What is read of a slot. *)
SlotCell(t, k) == t[t[k.volume].link].slot[k.slot]

(* Up to n payloads along the chain that starts at head. *)
Chained(t, head, n) ==
  LET walk[i \in 0 .. n] ==
        IF i = 0 THEN [next |-> head, body |-> <<>>]
        ELSE LET w == walk[i - 1]
             IN IF Is(t, w.next, "DAT1")
                THEN [next |-> t[w.next].link, body |-> Append(w.body, t[w.next].body)]
                ELSE w
  IN walk[n].body

(* fs_read: without a length tile, a large slot is read up to what is asked for. *)
ReadLarge(t, cell) == IF Is(t, cell.meta, "MET1") /\ t[cell.meta].link > 0
                      THEN Chained(t, cell.head, t[cell.meta].link)
                      ELSE Append(Chained(t, cell.head, MaxTiles), "padding")

FsRead(t, k) ==
  LET cell == SlotCell(t, k)
  IN CASE ~Is(t, k.volume, "VOLH") -> Free
       [] cell.class = "TINY" -> Datum("TINY", cell.inline)
       [] cell.class = "SMALL" -> IF Is(t, cell.head, "DAT1")
                                  THEN Datum("SMALL", <<t[cell.head].body>>)
                                  ELSE Datum("unreadable", <<>>)
       [] cell.class = "LARGE" -> Datum("LARGE", ReadLarge(t, cell))
       [] OTHER -> Free

Contents(t) == [k \in Keys |-> FsRead(t, k)]

Store == INSTANCE SlotStore WITH stored <- Contents(tile)
-----------------------------------------------------------------------------
(* alloc_tile on a canvas c, its tiles and its bits. *)
Canvas(t, u) == [tile |-> t, used |-> u]
Now == Canvas(tile, used)
FreeGatesOver(c) == {g \in 0 .. TILE_COUNT \ Reserved : g \notin c.used}    \* mutant: one tile too many
FreeGates(c) == {g \in Gates \ Reserved : IF FreemapGate = NoGate
                                          THEN c.tile[g].magic = "none"
                                          ELSE g \notin c.used}
FirstFree(c) == CHOOSE g \in FreeGates(c) : \A h \in FreeGates(c) : g <= h
TakenUnmarked(u, g) == u    \* mutant: the bit is not set
Taken(u, g) == IF FreemapGate = NoGate THEN u ELSE u \cup {g}

(* The loop of fs_write over the payloads of a large datum. *)
WriteChain(c, head, body) ==
  LET n == Len(body)
      walk[i \in 0 .. n] ==
        IF i = 0 THEN [tile |-> c.tile, used |-> c.used, at |-> head, ok |-> TRUE]
        ELSE LET w == walk[i - 1]
             IN CASE ~w.ok -> w
                  [] w.ok /\ i = n -> [w EXCEPT !.tile[w.at] = DataTile(NoGate, body[i])]
                  [] w.ok /\ i < n /\ FreeGates(w) = {} -> [w EXCEPT !.ok = FALSE]
                  [] OTHER -> LET next == FirstFree(w)
                              IN [tile |-> [w.tile EXCEPT ![w.at] = DataTile(next, body[i])],
                                  used |-> Taken(w.used, next), at |-> next, ok |-> TRUE]
  IN walk[n]
-----------------------------------------------------------------------------
(* fs_init, and fs_freemap_init if there is a FreeMap; the gates are as they are. *)
Init == /\ tile = [g \in Gates |-> IF g = FreemapGate THEN Marked("FRE1", 0) ELSE Blank]
        /\ used = IF FreemapGate = NoGate THEN {} ELSE {FreemapGate} \cup Reserved
        /\ open \in {Gates \ shut : shut \in SUBSET GuardedGates}

OpenGate(g) == /\ g \notin open
               /\ open' = open \cup {g}
               /\ UNCHANGED <<tile, used>>

CloseGate(g) == /\ g \in open
                /\ open' = open \ {g}
                /\ UNCHANGED <<tile, used>>

(* A volume is made at a tile that is not in use, or is a volume already. *)
Formattable(v) == Is(tile, v, "VOLH") \/ IF FreemapGate = NoGate
                                         THEN tile[v].magic = "none"
                                         ELSE v \notin used

MarksOfSlots(v, volt) == Taken(used, volt)    \* mutant: the header is not marked
Marks(v, volt) == Taken(Taken(used, v), volt)

FormatVolume(v) ==
  /\ v \notin Reserved
  /\ v \in open
  /\ FreeGates(Now) # {}
  /\ LET volt == FirstFree(Now)
     IN /\ tile' = [[tile EXCEPT ![v] = VolumeHeader(volt)] EXCEPT ![volt] = SlotTable]
        /\ used' = Marks(v, volt)
  /\ UNCHANGED open

VoltGateIgnored(v) == Is(tile, v, "VOLH") /\ v \in open    \* mutant: the gate of the slots is not asked
Accessible(v) == Is(tile, v, "VOLH") /\ {v, tile[v].link} \subseteq open

(* fs_alloc_slot takes the first free slot. *)
AllocSlot(v, s) ==
  /\ Accessible(v)
  /\ tile[tile[v].link].slot[s].class = "FREE"
  /\ \A r \in Slots : r < s => tile[tile[v].link].slot[r].class # "FREE"
  /\ tile' = WithSlot(tile, tile[v].link, s, Slot("TINY", <<>>, 0, 0))
  /\ UNCHANGED <<used, open>>

(* fs_free_slot asks only for the gate of the header, and leaves the tiles of the data taken. *)
FreeSlotOf(k) ==
  /\ k.volume \in open
  /\ tile' = WithSlot(tile, tile[k.volume].link, k.slot, FreeSlot)
  /\ UNCHANGED <<used, open>>

Writable(k) == Accessible(k.volume) /\ SlotCell(tile, k).class # "FREE"

(* The slot is set on the canvas t, which has the tiles of its data. *)
Points(k, t, cell) == tile' = WithSlot(t, t[k.volume].link, k.slot, cell)

WriteTiny(k, d) ==
  /\ Writable(k)
  /\ d.class = "TINY"
  /\ Points(k, tile, Slot("TINY", d.body, 0, 0))
  /\ UNCHANGED <<used, open>>

WriteSmall(k, d) ==
  /\ Writable(k)
  /\ d.class = "SMALL"
  /\ FreeGates(Now) # {}
  /\ LET dat == FirstFree(Now)
     IN /\ Points(k, [tile EXCEPT ![dat] = DataTile(NoGate, d.body[1])], Slot("SMALL", <<>>, dat, 0))
        /\ used' = Taken(used, dat)
  /\ UNCHANGED open

(* A large write takes a first data tile and the length tile, then one     *)
(* tile after the other, and sets the slot at last.                        *)
WithHead == Canvas(tile, Taken(used, FirstFree(Now)))
WithMetaShort(n) == Canvas([tile EXCEPT ![FirstFree(WithHead)] = MetaTile(n - 1)],
                           Taken(WithHead.used, FirstFree(WithHead)))    \* mutant: one payload is not counted
WithMeta(n) == Canvas([tile EXCEPT ![FirstFree(WithHead)] = MetaTile(n)],
                      Taken(WithHead.used, FirstFree(WithHead)))
LargeWalk(d) == WriteChain(WithMeta(Len(d.body)), FirstFree(Now), d.body)
HasTwo == FreeGates(Now) # {} /\ FreeGates(WithHead) # {}

WriteLarge(k, d) ==
  /\ Writable(k)
  /\ d.class = "LARGE"
  /\ HasTwo
  /\ LargeWalk(d).ok
  /\ Points(k, LargeWalk(d).tile, Slot("LARGE", <<>>, FirstFree(Now), FirstFree(WithHead)))
  /\ used' = LargeWalk(d).used
  /\ UNCHANGED open

(* One that runs out of tiles keeps those it took. *)
WriteLargeFails(k, d) ==
  /\ Writable(k)
  /\ d.class = "LARGE"
  /\ FreeGates(Now) # {}
  /\ \/ /\ ~HasTwo
        /\ used' = WithHead.used
        /\ UNCHANGED tile
     \/ /\ HasTwo
        /\ ~LargeWalk(d).ok
        /\ tile' = LargeWalk(d).tile
        /\ used' = LargeWalk(d).used
  /\ UNCHANGED open

(* The calls that change something; those that are refused change nothing. *)
Next == \/ \E g \in GuardedGates : OpenGate(g) \/ CloseGate(g)
        \/ \E v \in VolumeGates : \/ Formattable(v) /\ FormatVolume(v)
                                  \/ \E s \in Slots : AllocSlot(v, s)
        \/ \E k \in Keys : \/ Is(tile, k.volume, "VOLH") /\ FreeSlotOf(k)
                           \/ \E d \in Data : \/ WriteTiny(k, d)
                                              \/ WriteSmall(k, d)
                                              \/ WriteLarge(k, d)
                                              \/ WriteLargeFails(k, d)

Spec == Init /\ [][Next]_vars
-----------------------------------------------------------------------------
(* The tiles, bits and gates are those of the canvas. *)
TypeOK ==
  /\ used \subseteq Gates
  /\ open \subseteq Gates
  /\ DOMAIN tile = Gates
  /\ \A g \in Gates :
       /\ tile[g].magic \in Magics
       /\ tile[g].link \in Gates \cup {NoGate} \cup 0 .. MaxTiles
       /\ tile[g].body \in Chunks \cup {"zeros"}
       /\ \A s \in Slots : tile[g].slot[s].class \in {"FREE", "TINY", "SMALL", "LARGE", "magic"}

Volumes == {v \in VolumeGates : Is(tile, v, "VOLH")}
VolumeKeys == {k \in Keys : k.volume \in Volumes}

(* The tiles along a chain. *)
ChainGates(head) ==
  LET reach[i \in 0 .. MaxTiles] ==
        IF i = 0 THEN {head}
        ELSE LET r == reach[i - 1] IN r \cup {tile[g].link : g \in r \cap Gates}
  IN reach[MaxTiles] \cap Gates

(* The tiles that hold the data of a slot. *)
DataGates(k) == LET cell == SlotCell(tile, k)
                IN CASE cell.class = "SMALL" -> {cell.head}
                     [] cell.class = "LARGE" -> ChainGates(cell.head) \cup {cell.meta}
                     [] OTHER -> {}

(* No tile serves two purposes: the header and the slots of a volume are   *)
(* two tiles, and no tile of a volume or of the data of a slot is one of   *)
(* another volume or slot (canvasfs.c:245, alloc_tile).                    *)
NoSharedTile ==
  /\ \A v \in Volumes : /\ tile[v].link \notin Volumes
                        /\ \A w \in Volumes \ {v} : tile[v].link # tile[w].link
  /\ \A k \in VolumeKeys :
       /\ \A v \in Volumes : {v, tile[v].link} \cap DataGates(k) = {}
       /\ \A l \in VolumeKeys \ {k} : DataGates(k) \cap DataGates(l) = {}

(* Whatever is in use is marked in the FreeMap, so that no later           *)
(* allocation hands it out again, and no tile of the control region is     *)
(* ever used (canvasfs.c:231).                                             *)
TilesMarked ==
  /\ \A v \in Volumes : {v, tile[v].link} \subseteq used \ Reserved
  /\ \A k \in VolumeKeys : DataGates(k) \subseteq used \ Reserved
  /\ \A g \in Reserved : tile[g] = Blank

(* The length tile of a large slot says how many payloads its chain has,   *)
(* and the chain ends there (canvasfs.c:378).                              *)
LengthExact ==
  \A k \in VolumeKeys :
    LET cell == SlotCell(tile, k)
    IN cell.class = "LARGE" =>
         /\ Is(tile, cell.meta, "MET1")
         /\ Cardinality(ChainGates(cell.head)) = tile[cell.meta].link
         /\ \A g \in ChainGates(cell.head) : Is(tile, g, "DAT1")

(* So a volume is sound whatever was taken, freed and made anew before.    *)
VolumesSound == NoSharedTile /\ TilesMarked /\ LengthExact

(* No data comes to a slot through a closed gate: a slot is taken or       *)
(* written only while the gates of its header and of its slots are open    *)
(* (canvasfs.h:17; fs_free_slot and fs_format_volume ask for less).  What  *)
(* is written is what is read (canvasfs.c:341, 396), and a large write     *)
(* that runs out of tiles leaves every slot as it was.                     *)
WritesGuarded ==
  [][ /\ \A k \in VolumeKeys :
           FsRead(tile, k) # FsRead(tile', k) /\ FsRead(tile', k) # Free
             => {k.volume, tile[k.volume].link} \subseteq open
      /\ \A k \in Keys, d \in Data :
           /\ WriteTiny(k, d) \/ WriteSmall(k, d) \/ WriteLarge(k, d) => FsRead(tile', k) = d
           /\ WriteLargeFails(k, d) => Contents(tile') = Contents(tile) ]_vars

=============================================================================
