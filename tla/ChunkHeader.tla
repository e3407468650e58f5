----------------------------- MODULE ChunkHeader -----------------------------
(***************************************************************************)
(* What both ends of an RTMP chunk stream agree on: the wrapping clock of  *)
(* time.rs, the message header, the mapping of message types to chunk      *)
(* streams and the layout of a chunk header on the wire.                   *)
(*                                                                         *)
(* A wire header is the record [fmt, csid, field, ext, len, type, msid].   *)
(* A field the format does not carry is 0.  "ext" is the four-byte         *)
(* extended timestamp that follows the header, or NoExt when those four    *)
(* bytes are absent.  Whether they are there is what keeps the two ends    *)
(* aligned on the byte stream, so it is explicit.                          *)
(***************************************************************************)
EXTENDS Naturals

CONSTANTS Word,      \* 2^32: the modulus of RtmpTimestamp
          ExtField   \* MAX_INITIAL_TIMESTAMP, 0xffffff: "read the extended field"

ASSUME ClockAssumption == /\ Word \in Nat
                          /\ ExtField \in Nat
                          /\ 0 < ExtField
                          /\ ExtField < Word

Times == 0 .. Word - 1

\* No extended timestamp on the wire: a value that is not a timestamp.
NoExt == Word

-----------------------------------------------------------------------------
(* Wrapping arithmetic on timestamps, for operands below Word.             *)

add_values(a, b) == IF a + b < Word THEN a + b ELSE (a + b) - Word

sub_values(a, b) == IF b <= a THEN a - b ELSE (a + Word) - b

-----------------------------------------------------------------------------
Csids == 2 .. 6

SetChunkSizeType == 1

\* get_csid_for_message_type: the encoder's chunk stream for a message type.
get_csid_for_message_type(t) ==
  CASE t \in 1 .. 6   -> 2
    [] t \in {18, 19} -> 3
    [] t = 9          -> 4
    [] t = 8          -> 5
    [] OTHER          -> 6

-----------------------------------------------------------------------------
(* A ChunkHeader of the encoder; "known" is FALSE for an empty slot.       *)

NoHeader == [known |-> FALSE, csid |-> 2, ts |-> 0, field |-> 0, type |-> 0,
             msid |-> 0, len |-> 0, droppable |-> FALSE]

Full == 0                                 \* Format 0
TimeDeltaWithoutMessageStreamId == 1      \* Format 1
TimeDeltaOnly == 2                        \* Format 2
Empty == 3                                \* Format 3

\* A defect: an Empty header without its extended timestamp.
InlineHeaderEmptyShort(h, format) ==
  [fmt   |-> format,
   csid  |-> h.csid,
   field |-> IF format = Empty THEN 0
             ELSE IF h.field < ExtField THEN h.field ELSE ExtField,
   ext   |-> IF format # Empty /\ h.field >= ExtField THEN h.field ELSE NoExt,
   len   |-> IF format \in {Full, TimeDeltaWithoutMessageStreamId} THEN h.len ELSE 0,
   type  |-> IF format \in {Full, TimeDeltaWithoutMessageStreamId} THEN h.type ELSE 0,
   msid  |-> IF format = Full THEN h.msid ELSE 0]

\* The timestamp field saturates at ExtField, and the full value then follows
\* the header, whatever its format.
InlineHeader(h, format) ==
  [fmt   |-> format,
   csid  |-> h.csid,
   field |-> IF format = Empty THEN 0
             ELSE IF h.field < ExtField THEN h.field ELSE ExtField,
   ext   |-> IF h.field >= ExtField THEN h.field ELSE NoExt,
   len   |-> IF format \in {Full, TimeDeltaWithoutMessageStreamId} THEN h.len ELSE 0,
   type  |-> IF format \in {Full, TimeDeltaWithoutMessageStreamId} THEN h.type ELSE 0,
   msid  |-> IF format = Full THEN h.msid ELSE 0]
=============================================================================
