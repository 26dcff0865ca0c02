----------------------------- MODULE IndexStream -----------------------------
(***************************************************************************)
(* An index as bytes on tape.  The XML writer hands over pieces of any      *)
(* length, which are cut into blocks of the volume's block size; the last   *)
(* block may be short and a file mark follows.  The XML reader asks for     *)
(* pieces of any length and must get the same bytes, must stop at the end   *)
(* of the index, and must know whether a file mark was there and leave the  *)
(* head in front of it.                                                     *)
(*                                                                          *)
(* A byte is its number in the index, a block the sequence of its bytes.    *)
(* Each step is one pass through the loop of a callback.  Commands that     *)
(* fail end both; that is part of IndexCommit.                              *)
(***************************************************************************)
EXTENDS Naturals, Sequences

CONSTANTS BlockSize,   \* label->blocksize
          MaxBytes,    \* bound: the length of an index
          MaxPiece     \* bound: the length of a piece

ASSUME StreamAssumption == BlockSize \in Nat \ {0} /\ MaxBytes \in Nat /\ MaxPiece \in Nat

VARIABLES streaming,  \* "put", "cut", "read", "fill", "done" or "failed"
          handed,     \* bytes of the XML writer that are in a block or in obuf
          remaining,  \* bytes_remaining of the write callback
          obuf,       \* the block buffer of the writer
          xblocks,    \* blocks on tape
          marked,     \* the index is closed by a file mark
          current_pos,  \* of the reader: blocks before the head
          eod_pos,    \* where it is told that data end, 0 when unknown
          ibuf,       \* unread bytes of its buffer
          wanted,     \* bytes_remaining of the read callback
          saw_small_block, saw_file_mark,
          delivered   \* bytes delivered to the XML parser

writerVars == <<handed, remaining, obuf, xblocks, marked, eod_pos>>
readerVars == <<current_pos, ibuf, wanted, saw_small_block, saw_file_mark, delivered>>
streamVars == <<streaming, writerVars, readerVars>>

BytesFrom(from, n) == [i \in 1..n |-> from + i]

StreamInit ==
  /\ streaming = "put" /\ handed = 0 /\ remaining = 0 /\ obuf = <<>> /\ xblocks = <<>>
  /\ marked = FALSE /\ current_pos = 0 /\ eod_pos = 0 /\ ibuf = <<>> /\ wanted = 0
  /\ saw_small_block = FALSE /\ saw_file_mark = FALSE /\ delivered = 0

-----------------------------------------------------------------------------
(* xml_output_tape_write_callback: a piece that leaves room in the buffer   *)
(* is copied, any other fills a block in each pass of a loop.               *)
PutPiece ==
  /\ streaming = "put"
  /\ \E n \in 1..MaxPiece :
       /\ handed + n <= MaxBytes
       /\ IF Len(obuf) + n < BlockSize
          THEN /\ obuf' = obuf \o BytesFrom(handed, n) /\ handed' = handed + n
               /\ UNCHANGED <<streaming, remaining>>
          ELSE /\ streaming' = "cut" /\ remaining' = n
               /\ UNCHANGED <<obuf, handed>>
  /\ UNCHANGED <<xblocks, marked, eod_pos, readerVars>>

\* A mutation: what is left is forgotten when it is a whole block.
LeftoverLoses(from, n) == IF n = BlockSize THEN <<>> ELSE BytesFrom(from, n)

\* The loop ends with up to a whole block left, which stays in the buffer.
Leftover(from, n) == BytesFrom(from, n)

PutBlock ==
  LET copy == BlockSize - Len(obuf)
      left == remaining - copy
  IN  /\ streaming = "cut"
      /\ xblocks' = Append(xblocks, obuf \o BytesFrom(handed, copy))
      /\ IF left > BlockSize
         THEN /\ handed' = handed + copy /\ remaining' = left /\ obuf' = <<>>
              /\ UNCHANGED streaming
         ELSE /\ handed' = handed + remaining /\ remaining' = 0 /\ obuf' = Leftover(handed + copy, left)
              /\ streaming' = "put"
      /\ UNCHANGED <<marked, eod_pos, readerVars>>

(* xml_output_tape_close_callback; ltfs_write_index then writes a file      *)
(* mark, unless the machine stopped first.  The reader starts where the     *)
(* index starts; at the end of a partition it is told where data end.       *)
PutEnd ==
  /\ streaming = "put" /\ handed > 0
  /\ streaming' = "read"
  /\ xblocks' = IF obuf = <<>> THEN xblocks ELSE Append(xblocks, obuf)
  /\ obuf' = <<>>
  /\ marked' \in BOOLEAN
  /\ eod_pos' \in (IF marked' THEN {0, Len(xblocks') + 1} ELSE {Len(xblocks')})
  /\ UNCHANGED <<handed, remaining, readerVars>>

-----------------------------------------------------------------------------
(* xml_input_tape_read_callback.  Wrong bytes, and reading where there is   *)
(* neither a block nor a file mark, fail the parser.                        *)
Delivers(bytes, next) ==
  /\ streaming' = IF bytes = BytesFrom(delivered, Len(bytes)) THEN next ELSE "failed"
  /\ delivered' = delivered + Len(bytes)

\* A call takes what is buffered, and goes on to the tape if that is too little.
Get ==
  /\ streaming = "read"
  /\ \E n \in 1..MaxPiece :
       IF n <= Len(ibuf)
       THEN /\ Delivers(SubSeq(ibuf, 1, n), "read")
            /\ ibuf' = SubSeq(ibuf, n + 1, Len(ibuf)) /\ UNCHANGED wanted
       ELSE /\ Delivers(ibuf, "fill")
            /\ ibuf' = <<>> /\ wanted' = n - Len(ibuf)
  /\ UNCHANGED <<writerVars, current_pos, saw_small_block, saw_file_mark>>

AtEod == eod_pos > 0 /\ current_pos = eod_pos

\* Nothing more to read: the parser gets less than it wanted.
GetEnd ==
  /\ streaming = "fill" /\ (AtEod \/ saw_small_block)
  /\ streaming' = "done"
  /\ UNCHANGED <<writerVars, readerVars>>

\* Once at the file mark, the head goes back in front of it.
GetMark ==
  /\ streaming = "fill" /\ ~AtEod /\ ~saw_small_block /\ current_pos >= Len(xblocks)
  /\ streaming' = IF marked THEN "fill" ELSE "failed"
  /\ saw_small_block' = TRUE /\ saw_file_mark' = marked
  /\ UNCHANGED <<writerVars, current_pos, ibuf, wanted, delivered>>

\* Behind a short block a file mark is looked for, unless data end there.
GetBlock ==
  LET b == xblocks[current_pos + 1]
      short == Len(b) < BlockSize
      use == IF wanted < Len(b) THEN wanted ELSE Len(b)
      looks == short /\ (eod_pos = 0 \/ current_pos + 1 < eod_pos)
      last == current_pos + 1 = Len(xblocks)
  IN  /\ streaming = "fill" /\ ~AtEod /\ ~saw_small_block /\ current_pos < Len(xblocks)
      /\ Delivers(SubSeq(b, 1, use),
                  IF looks /\ last /\ ~marked THEN "failed" ELSE IF use = wanted THEN "read" ELSE "fill")
      /\ ibuf' = SubSeq(b, use + 1, Len(b)) /\ wanted' = wanted - use
      /\ current_pos' = IF looks /\ ~last THEN current_pos + 2 ELSE current_pos + 1
      /\ saw_small_block' = short
      /\ saw_file_mark' = (saw_file_mark \/ (looks /\ last /\ marked))
      /\ UNCHANGED writerVars

StreamNext == PutPiece \/ PutBlock \/ PutEnd \/ Get \/ GetEnd \/ GetMark \/ GetBlock
StreamSpec == StreamInit /\ [][StreamNext]_streamVars

-----------------------------------------------------------------------------
\* The last byte of a block, which the next one continues.
LastByte(B, k) == IF k = 0 THEN 0 ELSE B[k][Len(B[k])]

(* Blocks are full, but for the last one of a closed index, and each goes on *)
(* where the one before ended, and so does the buffer up to the last byte    *)
(* handed over: none is lost, repeated or out of place at the boundary of a  *)
(* block, however the writer's pieces fall.  (xml_writer.c:106-160)          *)
EveryByteOnTape ==
  /\ \A k \in 1..Len(xblocks) :
       /\ xblocks[k] = BytesFrom(LastByte(xblocks, k - 1), Len(xblocks[k]))
       /\ Len(xblocks[k]) \in 1..BlockSize
       /\ Len(xblocks[k]) < BlockSize => k = Len(xblocks) /\ streaming \notin {"put", "cut"}
  /\ obuf = BytesFrom(LastByte(xblocks, Len(xblocks)), Len(obuf)) /\ Len(obuf) <= BlockSize
  /\ handed = LastByte(xblocks, Len(xblocks)) + Len(obuf)

(* The parser gets the bytes of the index in order and all of them, whatever *)
(* pieces it asks for, knows whether a file mark is there, and has the head   *)
(* in front of it.  (xml_reader.c:502-598)                                   *)
ReadsToTheMark ==
  /\ streaming # "failed"
  /\ streaming = "done" =>
       delivered = handed /\ current_pos = Len(xblocks) /\ saw_file_mark = marked

(* Between XML and blocks no byte changes its place, in either direction.   *)
(* (xml_writer.c:106-160, xml_reader.c:502-598)                             *)
StreamExact == EveryByteOnTape /\ ReadsToTheMark
=============================================================================
