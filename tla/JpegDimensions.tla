---------------------------- MODULE JpegDimensions -----------------------------
(***************************************************************************)
(* OpenAIClientWrapper._extract_jpeg_dimensions: the walk over the         *)
(* segments of an image the provider has returned, up to the first frame   *)
(* header.  One action is one round of the loop up to, or from, the        *)
(* increment of the cursor past a marker.                                  *)
(*                                                                         *)
(* Bytes are numbered from 0, as in the code.  "Mutant" marks a plausible  *)
(* bug in the definition that follows.                                     *)
(***************************************************************************)
EXTENDS Integers

CONSTANT
  Files   \* what the scan is given, with what is known of it

None == <<>>
Bytes == 0..255
Words == {n \in Nat : n <= 65535}
Sizes == Words \X Words

\* A file is whole (well formed), cut short, or any bytes at all.
ASSUME FilesAssumption ==
  \A f \in Files :
    /\ f.length \in Nat
    /\ f.bytes \in [0..(f.length - 1) -> Bytes]
    /\ f.kind \in {"whole", "cut", "any"}
    /\ f.format \in {"png", "jpeg", "webp"}

\* struct.unpack(">H", ...)
WordOf(f, i) == 256 * f.bytes[i] + f.bytes[i + 1]

\* Start and end of image have no segment.
StandaloneCodes == {216, 217}

\* C0..CF are frame headers but for C4, C8 and CC.
FrameCodes == (192..207) \ {196, 200, 204}

\* The markers of a JPEG up to that of the first frame header, and what is left of
\* their segments if it was cut: each segment ends where the next marker is.
Segmented(f) ==
  /\ f.markers \subseteq 2..f.header /\ {2, f.header} \subseteq f.markers
  /\ \A p \in f.markers : p + 3 < f.length =>
       /\ f.bytes[p] = 255
       /\ IF p = f.header
            THEN f.bytes[p + 1] \in FrameCodes
            ELSE /\ f.bytes[p + 1] \notin FrameCodes \cup StandaloneCodes
                 /\ WordOf(f, p + 2) >= 2
                 /\ p + 2 + WordOf(f, p + 2) \in f.markers

\* A header is complete: length, precision, height, width and one component at least.
HeaderComplete(f) ==
  /\ f.header + 13 <= f.length
  /\ WordOf(f, f.header + 2) >= 11
  /\ f.header + 2 + WordOf(f, f.header + 2) <= f.length

\* A JPEG as the format has it, without the fill bytes that it allows before a marker.
\* frame is the size in its first frame header, which may have been cut off.
ASSUME JpegAssumption ==
  \A f \in Files : f.format = "jpeg" /\ f.kind # "any" =>
    /\ f.header \in Nat /\ f.frame \in Sizes
    /\ Segmented(f)
    /\ f.kind = "whole" => HeaderComplete(f)
    /\ f.header + 9 <= f.length =>
         f.frame = <<WordOf(f, f.header + 7), WordOf(f, f.header + 5)>>

VARIABLES
  file,     \* the file that is scanned
  pc,       \* "scan" at the head of the loop, "segment" behind a marker, "done"
  cursor,
  marker,
  size      \* what is returned: <<width, height>>, or None

vars == <<file, pc, cursor, marker, size>>

Init ==
  /\ file \in Files
  /\ pc = "scan"
  /\ cursor = 2
  /\ marker = 0
  /\ size = None

Byte(i) == file.bytes[i]

Word(i) == WordOf(file, i)
Standalone == marker \in StandaloneCodes
FrameHeader == marker \in FrameCodes

InLoop == pc = "scan" /\ cursor + 9 < file.length

Skip ==
  /\ InLoop
  /\ Byte(cursor) # 255
  /\ cursor' = cursor + 1
  /\ UNCHANGED <<file, pc, marker, size>>

\* Mutant: the cursor stays in front of a marker.
MarkStill ==
  /\ InLoop
  /\ Byte(cursor) = 255
  /\ marker' = Byte(cursor + 1)
  /\ cursor' = IF marker' \in StandaloneCodes THEN cursor - 2 ELSE cursor + 2
  /\ pc' = "segment"
  /\ UNCHANGED <<file, size>>

Mark ==
  /\ InLoop
  /\ Byte(cursor) = 255
  /\ marker' = Byte(cursor + 1)
  /\ cursor' = cursor + 2
  /\ pc' = "segment"
  /\ UNCHANGED <<file, size>>

NoSegment ==
  /\ pc = "segment"
  /\ Standalone
  /\ pc' = "scan"
  /\ UNCHANGED <<file, cursor, marker, size>>

\* The segment is within the file.
Fits ==
  /\ cursor + 2 <= file.length
  /\ Word(cursor) >= 2
  /\ cursor + Word(cursor) <= file.length

\* Mutant: only the length field is skipped.
SegmentIgnored ==
  /\ pc = "segment"
  /\ ~Standalone /\ Fits /\ ~FrameHeader
  /\ cursor' = cursor + 2
  /\ pc' = "scan"
  /\ UNCHANGED <<file, marker, size>>

Segment ==
  /\ pc = "segment"
  /\ ~Standalone /\ Fits /\ ~FrameHeader
  /\ cursor' = cursor + Word(cursor)
  /\ pc' = "scan"
  /\ UNCHANGED <<file, marker, size>>

\* Length, precision, height, width.
Frame ==
  /\ pc = "segment"
  /\ ~Standalone /\ Fits /\ FrameHeader
  /\ size' = IF cursor + 7 > file.length THEN None
             ELSE <<Word(cursor + 5), Word(cursor + 3)>>
  /\ pc' = "done"
  /\ UNCHANGED <<file, cursor, marker>>

\* The end of the loop, or a break: None, None.
Stop ==
  /\ \/ pc = "scan" /\ ~InLoop
     \/ pc = "segment" /\ ~Standalone /\ ~Fits
  /\ pc' = "done"
  /\ UNCHANGED <<file, cursor, marker, size>>

Next == Skip \/ Mark \/ NoSegment \/ Segment \/ Frame \/ Stop

Spec == Init /\ [][Next]_vars

-----------------------------------------------------------------------------
(* Properties *)

\* A size is two 16-bit numbers: whatever the bytes, every byte that is read is
\* one of the file.
TypeOK ==
  /\ file \in Files
  /\ pc \in {"scan", "segment", "done"}
  /\ cursor \in Nat
  /\ marker \in Bytes
  /\ size \in Sizes \cup {None}

\* The scan finds the frame of a well-formed file, past tables and thumbnails, and
\* in a file that is cut short the same or nothing.
FindsFrame ==
  pc = "done" =>
    /\ file.kind = "whole" => size = file.frame
    /\ file.kind = "cut" => size \in {file.frame, None}

\* The scan never goes back and, from one round of the loop to the next, moves on
\* by at least one byte: no file makes the worker loop.
Advances ==
  [][/\ cursor' >= cursor
     /\ pc = "scan" /\ pc' # "done" => cursor' > cursor]_vars
=============================================================================
