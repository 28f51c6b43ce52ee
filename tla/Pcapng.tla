------------------------------- MODULE Pcapng -------------------------------
(***************************************************************************)
(* PcapngReader of wlanpi_mcp/capture/pcapng.py: the incremental reader of *)
(* the block stream core sends in chunks that respect no border.           *)
(*                                                                         *)
(* Sizes are scaled down: a cell is one of the reader's 32-bit words, the  *)
(* 12 bytes of a block header are 3 cells, and what a word says depends on *)
(* where the reader thinks it is: `kind' is what it reads as a type, `num' *)
(* what it reads as a length in byte order `order'.  A word that is not a  *)
(* length is a bad one: block types are below 12 or above MAX_BLOCK, and   *)
(* so is a length read in the wrong byte order.                            *)
(***************************************************************************)
EXTENDS Integers, Sequences

CONSTANTS
    Packet,     \* the packets a stream may carry
    NoPacket,   \* the packet of a cell that carries none
    MaxBlock    \* MAX_BLOCK, in cells

Orders == {"<", ">"}
None   == -1

MinBlock == 3   \* the `12' of feed: type, length, one more word
MinEPB   == 4   \* the `28' of an Enhanced Packet Block

\* MAX_BLOCK is above every block of the stream.
ASSUME PcapngAssumption == MaxBlock \in Nat /\ MaxBlock >= MinEPB

Kinds == {"SHB", "IDB", "EPB", "length", "bom", "body"}
Cell  == [kind : Kinds, order : Orders, num : Nat, iface : Nat,
          pkt : Packet \cup {NoPacket}]

CellOf(kind, order, num, iface, pkt) ==
    [kind |-> kind, order |-> order, num |-> num, iface |-> iface, pkt |-> pkt]

-----------------------------------------------------------------------------
(* The reader: what it holds between two chunks.                           *)

NewReader == [buf |-> <<>>, endian |-> "<", resol |-> <<>>]

\* The byte order in force for the block at the head of the buffer: a
\* Section Header announces its own in its third word.
Endian(rd) ==
    IF rd.buf[1].kind = "SHB" /\ rd.buf[3].kind = "bom"
    THEN rd.buf[3].order
    ELSE rd.endian

\* The second word read as the block's length.
LengthRead(cell, endian) ==
    CASE cell.kind = "length" /\ cell.order = endian -> cell.num
      [] cell.kind = "SHB" \/ (cell.kind = "length" /\ cell.order # endian)
           -> MaxBlock + 1
      [] OTHER -> 0

\* A length no block has: the reader is out of step with the stream.
Desynced(n) == n < MinBlock \/ n > MaxBlock

\* Mutant: interface numbering goes on across sections.
HandleKeeps(rd, block, out) ==
    CASE block[1].kind = "IDB" ->
           [reader |-> [rd EXCEPT !.resol = Append(@, block[3].num)], out |-> out]
      [] block[1].kind = "EPB" /\ Len(block) >= MinEPB ->
           LET i == block[3].iface + 1
               ts == IF i \in DOMAIN rd.resol
                     THEN block[3].num * rd.resol[i] ELSE None
           IN  [reader |-> rd, out |-> Append(out, [pkt |-> block[3].pkt, ts |-> ts])]
      [] OTHER -> [reader |-> rd, out |-> out]

\* _handle_block: a new section restarts the interface numbering, an IDB
\* takes the next number, an EPB yields its packet with its time, which is
\* unknown when its interface is.
Handle(rd, block, out) ==
    CASE block[1].kind = "SHB" ->
           [reader |-> [rd EXCEPT !.resol = <<>>], out |-> out]
      [] block[1].kind = "IDB" ->
           [reader |-> [rd EXCEPT !.resol = Append(@, block[3].num)], out |-> out]
      [] block[1].kind = "EPB" /\ Len(block) >= MinEPB ->
           LET i == block[3].iface + 1
               ts == IF i \in DOMAIN rd.resol
                     THEN block[3].num * rd.resol[i] ELSE None
           IN  [reader |-> rd, out |-> Append(out, [pkt |-> block[3].pkt, ts |-> ts])]
      [] OTHER -> [reader |-> rd, out |-> out]

\* One turn of the loop of feed: drop a word while out of step, wait for an
\* incomplete block, else take the block off the buffer.
Turn(f) ==
    LET rd      == f.reader
        e       == Endian(rd)
        n       == LengthRead(rd.buf[2], e)
        with(b) == [buf |-> b, endian |-> e, resol |-> rd.resol]
    IN  IF Len(rd.buf) < MinBlock THEN f
        ELSE IF Desynced(n)
        THEN [f EXCEPT !.reader = with(Tail(rd.buf))]
        ELSE IF Len(rd.buf) < n
        THEN [f EXCEPT !.reader = with(rd.buf)]
        ELSE Handle(with(SubSeq(rd.buf, n + 1, Len(rd.buf))),
                    SubSeq(rd.buf, 1, n), f.out)

\* The state of the loop by its turns.
Turns(f) == LET after[k \in Nat] == IF k = 0 THEN f ELSE Turn(after[k - 1])
            IN  after

\* The whole loop: a turn that takes nothing off the buffer is its last, so
\* there are no more turns than cells.
Scan(rd, out) == Turns([reader |-> rd, out |-> out])[Len(rd.buf)]

\* PcapngReader.feed: the reader after the chunk, and the packets it completed.
Feed(rd, cells) == Scan([rd EXCEPT !.buf = @ \o cells], <<>>)

-----------------------------------------------------------------------------
(* Streams, for the reader's users and for the reference below: a stream   *)
(* is a sequence of blocks, as dumpcap writes them, with stray words       *)
(* ("junk") wherever a subscriber joins in the middle of one.              *)

Types == {"SHB", "IDB", "EPB", "cut", "junk"}

BlockOf(type, order, num, iface, pkt) ==
    [type |-> type, order |-> order, num |-> num, iface |-> iface, pkt |-> pkt]

Block(b) ==
    CASE b.type = "SHB"  -> << CellOf("SHB", b.order, 0, 0, NoPacket),
                               CellOf("length", b.order, 4, 0, NoPacket),
                               CellOf("bom", b.order, 0, 0, NoPacket),
                               CellOf("length", b.order, 4, 0, NoPacket) >>
      [] b.type = "IDB"  -> << CellOf("IDB", b.order, 0, 0, NoPacket),
                               CellOf("length", b.order, 3, 0, NoPacket),
                               CellOf("body", b.order, b.num, 0, NoPacket) >>
      [] b.type = "EPB"  -> << CellOf("EPB", b.order, 0, 0, NoPacket),
                               CellOf("length", b.order, 4, 0, NoPacket),
                               CellOf("body", b.order, b.num, b.iface, b.pkt),
                               CellOf("length", b.order, 4, 0, NoPacket) >>
      [] b.type = "cut"  -> << CellOf("EPB", b.order, 0, 0, NoPacket),
                               CellOf("length", b.order, 3, 0, NoPacket),
                               CellOf("body", b.order, b.num, b.iface, b.pkt) >>
      [] b.type = "junk" -> << CellOf("body", b.order, 0, 0, NoPacket) >>

\* The cells of the first k blocks, for every k.
CellsUpTo(blocks) ==
    LET upTo[k \in 0..Len(blocks)] ==
            IF k = 0 THEN <<>> ELSE upTo[k - 1] \o Block(blocks[k])
    IN  upTo

\* The cells of a stream.
Cells(blocks) == CellsUpTo(blocks)[Len(blocks)]

\* The number of cells of the first i blocks.
Offset(blocks, i) == Len(CellsUpTo(blocks)[i])

\* The section the blocks after the i-th are in: its byte order, and the
\* resolutions of the interfaces described so far.  A stream joined in the
\* middle of a section begins in the byte order of the machine core runs on.
Sections(blocks) ==
    LET after[i \in 0..Len(blocks)] ==
            IF i = 0 THEN [order |-> "<", resol |-> <<>>]
            ELSE CASE blocks[i].type = "SHB" ->
                        [order |-> blocks[i].order, resol |-> <<>>]
                   [] blocks[i].type = "IDB" ->
                        [after[i - 1] EXCEPT !.resol = Append(@, blocks[i].num)]
                   [] OTHER -> after[i - 1]
    IN  after

\* The streams dumpcap writes: a section is in one byte order.
WellFormed(blocks) ==
    /\ blocks \in Seq([type : Types, order : Orders, num : Nat, iface : Nat,
                       pkt : Packet \cup {NoPacket}])
    /\ \A i \in DOMAIN blocks :
          /\ blocks[i].type = "EPB" => blocks[i].pkt \in Packet
          /\ blocks[i].type \in {"IDB", "EPB", "cut"} =>
                 blocks[i].order = Sections(blocks)[i - 1].order

\* The packet of a block with the time its own section gives it.
Timed(blocks, i) ==
    LET resol == Sections(blocks)[i - 1].resol
        k     == blocks[i].iface + 1
    IN  [pkt |-> blocks[i].pkt,
         ts  |-> IF k \in DOMAIN resol THEN blocks[i].num * resol[k] ELSE None]

\* Reference: the packets of the blocks that lie within the first n cells.
PacketsUpTo(blocks, n) ==
    LET upTo[i \in 0..Len(blocks)] ==
            IF i = 0 THEN <<>>
            ELSE IF blocks[i].type = "EPB" /\ Offset(blocks, i) <= n
            THEN Append(upTo[i - 1], Timed(blocks, i))
            ELSE upTo[i - 1]
    IN  upTo

PacketsWithin(blocks, n) == PacketsUpTo(blocks, n)[Len(blocks)]

=============================================================================
