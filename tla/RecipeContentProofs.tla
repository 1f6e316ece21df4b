-------------------------- MODULE RecipeContentProofs --------------------------
(***************************************************************************)
(* JpegDimensions for any bytes at all: no read outside the file, and no   *)
(* round of the loop that does not move on.  RecipeContent for any files   *)
(* and answers: what conforms to the schema is stored, and what is stored  *)
(* is shown as it was answered.                                            *)
(***************************************************************************)
EXTENDS RecipeContent, TLAPS

\* A byte is only one if it is in the file.
LEMMA ReadByte ==
  ASSUME file \in Files, NEW i \in Nat, i < file.length
  PROVE  Byte(i) \in Bytes
BY FilesAssumption DEF Byte

LEMMA ReadWord ==
  ASSUME file \in Files, NEW i \in Nat, i + 2 <= file.length
  PROVE  Word(i) \in Words
<1>1. file.length \in Nat
  BY FilesAssumption
<1>2. Byte(i) \in Bytes /\ Byte(i + 1) \in Bytes
  BY <1>1, ReadByte
<1>3. /\ Byte(i) \in Int /\ 0 <= Byte(i) /\ Byte(i) <= 255
      /\ Byte(i + 1) \in Int /\ 0 <= Byte(i + 1) /\ Byte(i + 1) <= 255
  BY <1>2, SMT DEF Bytes
<1>4. /\ 256 * Byte(i) + Byte(i + 1) \in Int
      /\ 0 <= 256 * Byte(i) + Byte(i + 1)
      /\ 256 * Byte(i) + Byte(i + 1) <= 65535
  BY <1>3, SMT
<1>5. \A n \in Int : 0 <= n /\ n <= 65535 => n \in Words
  BY DEF Words
<1> QED BY <1>4, <1>5 DEF Word, WordOf, Byte

LEMMA WordIsNumber == \A n \in Words : n \in Nat
BY DEF Words

LEMMA TypeInit == Init => TypeOK
BY DEF Init, TypeOK, Bytes

LEMMA TypeNext == TypeOK /\ [Next]_vars => TypeOK'
<1> SUFFICES ASSUME TypeOK, [Next]_vars PROVE TypeOK'
  OBVIOUS
<1> USE DEF TypeOK
<1>a. file.length \in Nat
  BY FilesAssumption
<1>1. CASE Skip
  BY <1>1 DEF Skip
<1>2. CASE Mark
  <2>1. Byte(cursor + 1) \in Bytes
    BY <1>2, <1>a, ReadByte DEF Mark, InLoop
  <2> QED BY <1>2, <2>1 DEF Mark
<1>3. CASE NoSegment
  BY <1>3 DEF NoSegment
<1>4. CASE Segment
  <2>1. Word(cursor) \in Words
    BY <1>4, <1>a, ReadWord DEF Segment, Fits
  <2>2. cursor + Word(cursor) \in Nat
    BY <2>1, WordIsNumber
  <2> QED BY <1>4, <2>2 DEF Segment
<1>5. CASE Frame
  <2>1. CASE cursor + 7 <= file.length
    <3>1. Word(cursor + 3) \in Words /\ Word(cursor + 5) \in Words
      BY <2>1, <1>a, ReadWord
    <3>2. size' = <<Word(cursor + 5), Word(cursor + 3)>>
      BY <1>5, <2>1, <1>a DEF Frame
    <3> QED BY <1>5, <3>1, <3>2 DEF Frame, Sizes
  <2>2. CASE cursor + 7 > file.length
    BY <1>5, <2>2 DEF Frame
  <2> QED BY <2>1, <2>2, <1>a
<1>6. CASE Stop
  BY <1>6 DEF Stop
<1>7. CASE UNCHANGED vars
  BY <1>7 DEF vars
<1> QED BY <1>1, <1>2, <1>3, <1>4, <1>5, <1>6, <1>7 DEF Next

\* For any bytes: the marker is a byte and the size two 16-bit numbers, which they
\* can only be known to be if every byte that is read is one of the file.
THEOREM TypeCorrect == Spec => []TypeOK
BY TypeInit, TypeNext, PTL DEF Spec

\* For any bytes the loop moves on by a byte at least, so that it makes no more
\* rounds than the file has bytes.
THEOREM ScanAdvances == Spec => Advances
<1>1. TypeOK /\ [Next]_vars =>
        [/\ cursor' >= cursor
         /\ pc = "scan" /\ pc' # "done" => cursor' > cursor]_vars
  <2> SUFFICES ASSUME TypeOK, Next
               PROVE  /\ cursor' >= cursor
                      /\ pc = "scan" /\ pc' # "done" => cursor' > cursor
    OBVIOUS
  <2>a. file.length \in Nat /\ cursor \in Nat
    BY FilesAssumption DEF TypeOK
  <2>1. CASE Segment
    <3>1. Word(cursor) \in Words
      BY <2>1, <2>a, ReadWord DEF Segment, Fits, TypeOK
    <3>2. Word(cursor) \in Nat
      BY <3>1, WordIsNumber
    <3> QED BY <2>1, <2>a, <3>2 DEF Segment
  <2> QED BY <2>1, <2>a DEF Next, Skip, Mark, NoSegment, Frame, Stop
<1> QED BY <1>1, TypeCorrect, PTL DEF Spec, Advances

-----------------------------------------------------------------------------
(* The frame of a JPEG *)

\* A JPEG of which something is known.
Known == file.format = "jpeg" /\ file.kind # "any"

\* The scan goes from marker to marker, and past a marker only if there is room for
\* a header behind it.
OnTrack ==
  /\ pc # "done" => size = None
  /\ pc = "scan" => cursor \in file.markers
  /\ pc = "segment" =>
       \E p \in file.markers : cursor = p + 2 /\ p + 9 < file.length /\ marker = Byte(p + 1)

FrameInv == Known => OnTrack /\ FindsFrame

\* What the format says of a marker that the scan looks at.
LEMMA AtMarker ==
  ASSUME file \in Files, Known, NEW p \in file.markers
  PROVE  /\ p \in Nat /\ file.header \in Nat /\ p <= file.header
         /\ p + 9 < file.length =>
              /\ Byte(p) = 255
              /\ p = file.header => Byte(p + 1) \in FrameCodes
              /\ p # file.header =>
                   /\ Byte(p + 1) \notin FrameCodes \cup StandaloneCodes
                   /\ p + 2 + Word(p + 2) \in file.markers
              /\ Byte(p + 1) \notin StandaloneCodes
         /\ file.kind = "whole" =>
              /\ p + 13 <= file.length
              /\ Word(p + 2) >= 2 /\ p + 2 + Word(p + 2) <= file.length
<1>1. /\ Segmented(file) /\ file.header \in Nat /\ file.length \in Nat
      /\ file.kind = "whole" => HeaderComplete(file)
  BY FilesAssumption, JpegAssumption DEF Known
<1>2. p \in 2..file.header
  BY <1>1 DEF Segmented
<1>3. p \in Nat /\ p <= file.header
  BY <1>1, <1>2
<1>4. FrameCodes \cap StandaloneCodes = {}
  BY DEF FrameCodes, StandaloneCodes
<1>5. ASSUME p + 9 < file.length
      PROVE  /\ Byte(p) = 255
             /\ p = file.header => Byte(p + 1) \in FrameCodes
             /\ p # file.header =>
                  /\ Byte(p + 1) \notin FrameCodes \cup StandaloneCodes
                  /\ p + 2 + Word(p + 2) \in file.markers
             /\ Byte(p + 1) \notin StandaloneCodes
  <2>1. p + 3 < file.length
    BY <1>1, <1>3, <1>5
  <2> QED BY <1>1, <1>4, <2>1 DEF Segmented, Byte, Word
<1>6. ASSUME file.kind = "whole" PROVE p + 13 <= file.length
  BY <1>1, <1>3, <1>6 DEF HeaderComplete
<1>7. ASSUME file.kind = "whole"
      PROVE  Word(p + 2) >= 2 /\ p + 2 + Word(p + 2) <= file.length
  <2>1. Word(p + 2) \in Nat
    BY <1>1, <1>3, <1>6, <1>7, ReadWord, WordIsNumber
  <2>2. CASE p = file.header
    BY <1>1, <1>7, <2>1, <2>2 DEF HeaderComplete, Word
  <2>3. CASE p # file.header
    <3>1. Word(p + 2) >= 2 /\ p + 2 + Word(p + 2) \in file.markers
      BY <1>1, <1>3, <1>6, <1>7, <2>3 DEF Segmented, Word
    <3>2. p + 2 + Word(p + 2) <= file.header
      BY <1>1, <3>1 DEF Segmented
    <3> QED BY <1>1, <1>3, <1>7, <2>1, <3>1, <3>2 DEF HeaderComplete
  <2> QED BY <2>2, <2>3
<1> QED BY <1>3, <1>5, <1>6, <1>7, <1>1

LEMMA FrameInit == Init => FrameInv
<1> SUFFICES ASSUME Init, Known PROVE OnTrack /\ FindsFrame
  BY DEF FrameInv
<1>1. 2 \in file.markers
  BY JpegAssumption DEF Init, Known, Segmented
<1> QED BY <1>1 DEF Init, OnTrack, FindsFrame

LEMMA FrameNext == TypeOK /\ FrameInv /\ [Next]_vars => FrameInv'
<1> SUFFICES ASSUME TypeOK, FrameInv, [Next]_vars, Known PROVE OnTrack' /\ FindsFrame'
  BY DEF FrameInv, Known, Next, Skip, Mark, NoSegment, Segment, Frame, Stop, vars
<1>a. file \in Files /\ file.length \in Nat /\ cursor \in Nat
  BY FilesAssumption DEF TypeOK
<1>b. OnTrack /\ FindsFrame
  BY DEF FrameInv
<1>1. CASE Skip
  BY <1>1, <1>a, <1>b, AtMarker DEF Skip, InLoop, OnTrack
<1>2. CASE Mark
  <2>1. cursor \in file.markers /\ cursor + 9 < file.length
    BY <1>2, <1>b DEF Mark, InLoop, OnTrack
  <2>2. /\ file' = file /\ pc' = "segment" /\ cursor' = cursor + 2 /\ marker' = Byte(cursor + 1)
        /\ size = None /\ size' = size
    BY <1>2, <1>b DEF Mark, InLoop, OnTrack
  <2>3. OnTrack'
    BY <2>1, <2>2 DEF OnTrack, Byte
  <2> QED BY <2>2, <2>3 DEF FindsFrame
<1>3. CASE NoSegment
  BY <1>3, <1>a, <1>b, AtMarker DEF NoSegment, OnTrack, Standalone
<1>4. CASE Segment
  <2>1. PICK p \in file.markers : cursor = p + 2 /\ p + 9 < file.length /\ marker = Byte(p + 1)
    BY <1>4, <1>b DEF Segment, OnTrack
  <2>2. p # file.header
    BY <1>4, <1>a, <2>1, AtMarker DEF Segment, FrameHeader
  <2>3. p + 2 + Word(p + 2) \in file.markers
    BY <1>a, <2>1, <2>2, AtMarker
  <2> QED BY <1>4, <1>b, <2>1, <2>3 DEF Segment, OnTrack, FindsFrame
<1>5. CASE Frame
  <2>1. PICK p \in file.markers : cursor = p + 2 /\ p + 9 < file.length /\ marker = Byte(p + 1)
    BY <1>5, <1>b DEF Frame, OnTrack
  <2>2. p \in Nat /\ p = file.header
    BY <1>5, <1>a, <2>1, AtMarker DEF Frame, FrameHeader
  <2>3. file.frame = <<Word(p + 7), Word(p + 5)>>
    BY <1>a, <2>1, <2>2, JpegAssumption DEF Known, Word
  <2>4. cursor + 5 = p + 7 /\ cursor + 3 = p + 5 /\ ~(cursor + 7 > file.length)
    BY <1>a, <2>1, <2>2
  <2>5. size' = <<Word(cursor + 5), Word(cursor + 3)>>
    BY <1>5, <2>4 DEF Frame
  <2>6. size' = file.frame
    BY <2>3, <2>4, <2>5
  <2> QED BY <1>5, <2>6 DEF Frame, OnTrack, FindsFrame
<1>6. CASE Stop
  <2>0. file' = file /\ pc' = "done" /\ size' = size
    BY <1>6 DEF Stop
  <2>1. size = None /\ file.kind # "whole"
    <3>1. CASE pc = "scan" /\ ~InLoop
      BY <1>a, <1>b, <3>1, AtMarker DEF OnTrack, InLoop
    <3>2. CASE pc = "segment" /\ ~Standalone /\ ~Fits
      <4>1. PICK p \in file.markers : cursor = p + 2 /\ p + 9 < file.length /\ marker = Byte(p + 1)
        BY <1>b, <3>2 DEF OnTrack
      <4>2. size = None /\ p \in Nat
        BY <1>a, <1>b, <3>2, AtMarker DEF OnTrack
      <4>3. ASSUME file.kind = "whole" PROVE Fits
        BY <1>a, <4>1, <4>2, <4>3, AtMarker DEF Fits
      <4> QED BY <3>2, <4>2, <4>3
    <3> QED BY <1>6, <3>1, <3>2 DEF Stop
  <2> QED BY <2>0, <2>1 DEF OnTrack, FindsFrame
<1>7. CASE UNCHANGED vars
  BY <1>7, <1>b DEF vars, OnTrack, FindsFrame, Byte
<1> QED BY <1>1, <1>2, <1>3, <1>4, <1>5, <1>6, <1>7 DEF Next

\* In a JPEG of any segments the scan finds the frame, and in one that is cut short
\* the same or nothing.
THEOREM FrameFound == Spec => [](file.format = "jpeg" => FindsFrame)
<1>1. FrameInv => (file.format = "jpeg" => FindsFrame)
  BY DEF FrameInv, Known, FindsFrame
<1> QED BY <1>1, TypeCorrect, FrameInit, FrameNext, PTL DEF Spec

-----------------------------------------------------------------------------
(* The schema, the models and the columns *)

\* Whatever the schema allows at a path is taken by the model.
LEMMA ConformingIsValid == \A p : Conforms(p) => Valid(p)
<1>1. \A v : \A f \in Paths : ConformsAt(f, v) => Accepts(f, v)
  BY DEF ConformsAt, Accepts
<1> QED BY <1>1 DEF Conforms, Valid, Within

\* The model leaves sizes and texts as they are, and has nothing left to take.
LEMMA TakenKeeps ==
  ASSUME NEW f \in Fields, NEW v \in Values
  PROVE  /\ Taken(f, v) \in Values
         /\ Taken(f, v).size = v.size
         /\ Taken(f, v).type \in Unstorable => Taken(f, v).type = v.type
         /\ Taken(f, Taken(f, v)) = Taken(f, v)
         /\ Accepts(f, v) => Showable(f, Taken(f, v))
<1>1. CASE f \in Numbers /\ v.type \in {"float", "digits"}
  <2>0. v # Absent
    BY <1>1 DEF Absent
  <2>1. Taken(f, v) = [v EXCEPT !.type = "integer"]
    BY <1>1, <2>0 DEF Taken
  <2>2. Taken(f, v) \in Values /\ Taken(f, v).type = "integer" /\ Taken(f, v).size = v.size
    BY <2>1 DEF Values
  <2>3. Taken(f, v) # Absent
    BY <2>2 DEF Absent
  <2>4. Taken(f, Taken(f, v)) = Taken(f, v)
    BY <2>2, <2>3 DEF Taken
  <2>5. f # Warnings
    BY <1>1 DEF Warnings, Numbers, Totals, Temperature
  <2> QED BY <1>1, <2>2, <2>4, <2>5 DEF Accepts, Showable, Unstorable
<1>2. CASE f = Temperature /\ v = Absent
  <2>0. f # Warnings /\ v.type \notin {"float", "digits"}
    BY <1>2 DEF Warnings, Temperature, Absent
  <2>1. Taken(f, v) = Null
    BY <1>2, <2>0 DEF Taken
  <2>2. f # Warnings /\ Null \in Values /\ Null.size = 0 /\ v.size = 0 /\ Null.type = "null"
    BY <1>2 DEF Warnings, Temperature, Null, Absent, Values
  <2>3. Taken(f, Null) = Null
    BY <2>2 DEF Taken, Null, Absent
  <2> QED BY <1>2, <2>1, <2>2, <2>3 DEF Accepts, Showable, Unstorable
<1>3. CASE f = Warnings /\ v = Absent
  <2> DEFINE none == [type |-> "list", size |-> 0]
  <2>1. f # Temperature
    BY <1>3 DEF Warnings, Temperature
  <2>2. Taken(f, v) = none
    BY <1>3, <2>1 DEF Taken, Absent
  <2>3. none \in Values /\ none.size = 0 /\ none.type = "list" /\ v.size = 0 /\ none # Absent
    BY <1>3 DEF Values, Absent
  <2>4. Taken(f, none) = none
    BY <2>3 DEF Taken
  <2>5. f \in Lists
    BY <1>3 DEF Lists
  <2> QED BY <1>3, <2>2, <2>3, <2>4, <2>5 DEF Accepts, Showable, Unstorable
<1>4. CASE /\ ~(f \in Numbers /\ v.type \in {"float", "digits"})
           /\ ~(f = Temperature /\ v = Absent)
           /\ ~(f = Warnings /\ v = Absent)
  <2>1. Taken(f, v) = v
    BY <1>4 DEF Taken
  <2>2. ASSUME f = Warnings, Accepts(f, v) PROVE v.type = "list"
    <3>1. f \notin Texts /\ f \notin Numbers /\ f # Temperature /\ f # Difficulty
      BY <2>2 DEF Warnings, Texts, Titles, Brief, Strings, Numbers, Totals, Temperature, Difficulty
    <3> QED BY <1>4, <2>2, <3>1 DEF Accepts
  <2> QED BY <2>1, <2>2 DEF Showable
<1> QED BY <1>1, <1>2, <1>3, <1>4

\* The model of a payload has its sizes, so that the same items are looked at.
LEMMA ModelKeeps ==
  ASSUME NEW p \in [Paths -> Values]
  PROVE  /\ \A f \in Fields : Model(p)[f] = Taken(f, p[f]) /\ Model(p)[f].size = p[f].size
         /\ Within(Model(p)) = Within(p)
<1>1. \A f \in Fields : p[f] \in Values
  BY DEF Paths
<1>2. \A f \in Fields : Model(p)[f] = Taken(f, p[f]) /\ Model(p)[f].size = p[f].size
  BY <1>1, TakenKeeps DEF Model
<1>3. \A g \in Lists : Model(p)[g].size = p[g].size
  BY <1>2 DEF Fields
<1> QED BY <1>2, <1>3 DEF Within

\* The totals are integers of the schema's bounds.
LEMMA TotalsInBounds ==
  ASSUME NEW p, Conforms(p), NEW f \in Totals
  PROVE  p[f].size \in 1..360
<1>1. f \in Within(p)
  <2>1. \A g \in Lists : ~Inside(f, g)
    BY DEF Totals, Inside, Lists, Warnings
  <2>2. f \in Paths
    BY DEF Paths, Fields, Numbers
  <2> QED BY <2>1, <2>2 DEF Within
<1>2. ConformsAt(f, p[f])
  BY <1>1 DEF Conforms
<1>3. f \notin Texts /\ f \notin Lists /\ f # Temperature /\ f # Difficulty /\ f # Unknown
  BY DEF Totals, Texts, Titles, Brief, Strings, Lists, Warnings, Temperature, Difficulty, Unknown
<1>4. Bounds(f) \subseteq 1..360
  BY DEF Totals, Bounds
<1> QED BY <1>2, <1>3, <1>4 DEF ConformsAt

-----------------------------------------------------------------------------
(* The attempt *)

USE DEF content, contentVars

LEMMA ScanInit == ContentInit => Init
BY DEF ContentInit

LEMMA ScanNext == [ContentNext]_contentVars => [Next]_vars
BY DEF ContentNext, TextAccepted, TextRefused, ImageAccepted, ImageRefused, Scan, Scanned,
       Persist, PersistFails, vars

\* A JPEG is scanned as JpegDimensions has it.
THEOREM ContentRefines == ContentSpec => Spec
BY ScanInit, ScanNext, PTL DEF ContentSpec, Spec

THEOREM ContentAdvances == ContentSpec => Advances
BY ContentRefines, ScanAdvances

AnswerTypes == answer \in [texts : Seq(Text), image : BOOLEAN]

\* What has come of the text and the image at each stage.
ContentInv ==
  /\ AnswerTypes
  /\ stage \in {"text", "image", "scan", "persist", "stored", "failed"}
  /\ stage \notin {"text", "failed"} =>
       \E text \in Found : Readable(text) /\ recipe = Model(text.payload)
  /\ stage \in {"scan", "persist"} => answer.image
  /\ stage = "persist" /\ file.kind = "whole" =>
       \A i \in DOMAIN image : image[i] <= MaxInteger

\* There is one text at most, and it has a payload.
LEMMA FoundIsOne ==
  ASSUME AnswerTypes
  PROVE  /\ \A t, u \in Found : t = u
         /\ \A t \in Found : t.payload \in [Paths -> Values]
<1>1. /\ answer.texts \in Seq(Text)
      /\ \A i \in DOMAIN answer.texts : answer.texts[i] \in Text /\ i \in Nat
  BY DEF AnswerTypes
<1>2. \A t \in Found : t \in Text
  BY <1>1 DEF Found
<1>3. \A t, u \in Found : t = u
  <2> TAKE t, u \in Found
  <2>1. PICK i \in DOMAIN answer.texts :
          /\ t = answer.texts[i] /\ answer.texts[i].kind # "empty"
          /\ \A j \in DOMAIN answer.texts : j < i => answer.texts[j].kind = "empty"
    BY DEF Found
  <2>2. PICK k \in DOMAIN answer.texts :
          /\ u = answer.texts[k] /\ answer.texts[k].kind # "empty"
          /\ \A j \in DOMAIN answer.texts : j < k => answer.texts[j].kind = "empty"
    BY DEF Found
  <2>3. i = k
    BY <1>1, <2>1, <2>2
  <2> QED BY <2>1, <2>2, <2>3
<1> QED BY <1>2, <1>3 DEF Text

LEMMA SizeIsThere == \A s \in Sizes : s # None
<1> SUFFICES ASSUME NEW s \in Sizes PROVE DOMAIN s # DOMAIN None
  OBVIOUS
<1>1. DOMAIN s = 1..2 /\ DOMAIN None = {}
  BY DEF Sizes, None
<1> QED BY <1>1

\* Sizes of sound images fit their columns.
LEMMA SizesFit ==
  /\ \A s \in Sizes : \A i \in DOMAIN s : s[i] <= MaxInteger
  /\ \A i \in DOMAIN Configured : Configured[i] <= MaxInteger
<1>1. \A s \in Sizes : \A i \in DOMAIN s : s[i] <= MaxInteger
  BY MaxIntegerAssumption DEF Sizes, Words
<1>2. \A i \in DOMAIN None : None[i] <= MaxInteger
  BY DEF None
<1> QED BY <1>1, <1>2, ConfiguredAssumption

LEMMA ContentInvInit == ContentInit => ContentInv
<1> SUFFICES ASSUME ContentInit PROVE ContentInv
  OBVIOUS
<1>1. file \in Files /\ answer \in Answers(file)
  BY DEF ContentInit, Init
<1> QED BY <1>1, AnswersAssumption DEF ContentInit, ContentInv, AnswerTypes

LEMMA ContentInvNext == TypeOK /\ ContentInv /\ [ContentNext]_contentVars => ContentInv'
<1> SUFFICES ASSUME TypeOK, ContentInv, [ContentNext]_contentVars PROVE ContentInv'
  OBVIOUS
<1> USE DEF vars
<1>a. UNCHANGED answer => Found' = Found /\ (AnswerTypes' <=> AnswerTypes)
  BY DEF Found, AnswerTypes
<1>1. CASE TextAccepted
  BY <1>1, <1>a DEF TextAccepted, ContentInv
<1>2. CASE TextRefused
  BY <1>2, <1>a DEF TextRefused, ContentInv
<1>3. CASE ImageAccepted
  <2>1. ASSUME file.format # "jpeg", file.kind = "whole", NEW i \in DOMAIN image'
        PROVE  image'[i] <= MaxInteger
    <3>1. CASE file.format = "png"
      <4>1. HasHeader(file) /\ HeaderSize(file) \in (0..MaxInteger) \X (0..MaxInteger)
        BY <2>1, <3>1, PngAssumption DEF TypeOK
      <4>2. image' = HeaderSize(file)
        BY <1>3, <2>1, <3>1, <4>1 DEF ImageAccepted, PngSize
      <4> QED BY <2>1, <4>1, <4>2, MaxIntegerAssumption
    <3>2. CASE file.format # "png"
      BY <1>3, <2>1, <3>2, SizesFit DEF ImageAccepted
    <3> QED BY <3>1, <3>2
  <2> QED BY <1>3, <1>a, <2>1 DEF ImageAccepted, ContentInv
<1>4. CASE ImageRefused
  BY <1>4, <1>a DEF ImageRefused, ContentInv
<1>5. CASE Scan
  BY <1>5, <1>a DEF Scan, ContentInv
<1>6. CASE Scanned
  <2>1. \A i \in DOMAIN image' : image'[i] <= MaxInteger
    BY <1>6, SizesFit DEF Scanned, TypeOK
  <2> QED BY <1>6, <1>a, <2>1 DEF Scanned, ContentInv
<1>7. CASE Persist
  BY <1>7, <1>a DEF Persist, Row, ContentInv
<1>8. CASE PersistFails
  BY <1>8, <1>a DEF PersistFails, ContentInv
<1>9. CASE UNCHANGED contentVars
  BY <1>9, <1>a DEF ContentInv
<1> QED
  BY <1>1, <1>2, <1>3, <1>4, <1>5, <1>6, <1>7, <1>8, <1>9 DEF ContentNext

LEMMA ContentInvariant == ContentSpec => [](TypeOK /\ ContentInv)
<1>1. ContentSpec => []TypeOK
  BY ContentRefines, TypeCorrect
<1> QED BY <1>1, ContentInvInit, ContentInvNext, PTL DEF ContentSpec

-----------------------------------------------------------------------------
(* The size of the image *)

\* Only a JPEG is scanned.
OnlyJpegs == stage = "scan" \/ pc # "scan" => file.format = "jpeg"

LEMMA OnlyJpegsInit == ContentInit => OnlyJpegs
BY DEF ContentInit, Init, OnlyJpegs

LEMMA OnlyJpegsNext == OnlyJpegs /\ [ContentNext]_contentVars => OnlyJpegs'
BY DEF OnlyJpegs, ContentNext, TextAccepted, TextRefused, ImageAccepted, ImageRefused, Scan,
       Scanned, Persist, PersistFails, Next, Skip, Mark, NoSegment, Segment, Frame, Stop, vars

LEMMA OnlyJpegsAlways == ContentSpec => []OnlyJpegs
BY OnlyJpegsInit, OnlyJpegsNext, PTL DEF ContentSpec

\* The scan of an attempt finds the frame of the image.
THEOREM ContentFindsFrame == ContentSpec => []FindsFrame
<1>1. OnlyJpegs /\ (file.format = "jpeg" => FindsFrame) => FindsFrame
  BY DEF OnlyJpegs, FindsFrame
<1> QED BY <1>1, OnlyJpegsAlways, ContentRefines, FrameFound, PTL

\* From the end of the scan on, the image has the size of a sound file.
SizeInv ==
  stage \in {"persist", "stored"} /\ file.kind = "whole" =>
    image = IF file.format = "webp" THEN Configured ELSE file.frame

LEMMA SizeNext ==
  TypeOK /\ OnlyJpegs /\ FindsFrame /\ SizeInv /\ [ContentNext]_contentVars => SizeInv'
<1> SUFFICES ASSUME TypeOK, OnlyJpegs, FindsFrame, SizeInv, [ContentNext]_contentVars,
                    stage' \in {"persist", "stored"}, file'.kind = "whole"
             PROVE  image' = IF file'.format = "webp" THEN Configured ELSE file'.frame
  BY DEF SizeInv
<1>1. file' = file
  BY DEF ContentNext, TextAccepted, TextRefused, ImageAccepted, ImageRefused, Scan, Scanned,
         Persist, PersistFails, Next, Skip, Mark, NoSegment, Segment, Frame, Stop, vars
<1>2. file \in Files /\ file.format \in {"png", "jpeg", "webp"}
  BY FilesAssumption DEF TypeOK
<1>3. CASE ImageAccepted
  <2>1. image' = IF file.format = "png" THEN PngSize ELSE Configured
    BY <1>3 DEF ImageAccepted
  <2>2. file.format = "png" => PngSize = file.frame
    BY <1>1, <1>2, PngAssumption DEF PngSize
  <2> QED BY <1>1, <1>2, <1>3, <2>1, <2>2 DEF ImageAccepted
<1>4. CASE Scanned
  <2>1. file.format = "jpeg" /\ size = file.frame
    BY <1>1, <1>4 DEF Scanned, OnlyJpegs, FindsFrame
  <2>2. file.frame # None
    <3>1. file.frame \in Sizes
      BY <1>1, <1>2, <2>1, JpegAssumption
    <3> QED BY <3>1, SizeIsThere
  <2> QED BY <1>1, <1>4, <2>1, <2>2 DEF Scanned
<1>5. CASE Persist
  BY <1>1, <1>5 DEF Persist, SizeInv
<1>6. CASE stage' = stage /\ image' = image
  BY <1>1, <1>6 DEF SizeInv
<1> QED
  BY <1>3, <1>4, <1>5, <1>6 DEF ContentNext, TextAccepted, TextRefused, ImageRefused, Scan,
     PersistFails, vars

\* The image of a sound file, of any format, is shown with the size it has.
THEOREM SizeShown == ContentSpec => []SizeIsTrue
<1>1. ContentInit => SizeInv
  BY DEF ContentInit, SizeInv
<1>2. SizeInv => SizeIsTrue
  BY DEF SizeInv, SizeIsTrue, Shown
<1>3. ContentSpec => []TypeOK
  BY ContentRefines, TypeCorrect
<1> QED BY <1>1, <1>2, <1>3, SizeNext, OnlyJpegsAlways, ContentFindsFrame, PTL DEF ContentSpec

\* A conforming payload can be inserted, but for its titles and some characters.
LEMMA ConformingIsStorable ==
  ASSUME ContentInv, stage = "persist", file.kind = "whole", ~Storable,
         NEW text \in Found, Conforms(text.payload)
  PROVE  \/ \E f \in Titles : text.payload[f].size > 255
         \/ \E f \in Within(text.payload) \cap Texts : text.payload[f].type \in Unstorable
<1> DEFINE p == text.payload
<1>1. recipe = Model(p) /\ p \in [Paths -> Values]
  BY FoundIsOne DEF ContentInv
<1>2. /\ \A f \in Fields : recipe[f] = Taken(f, p[f]) /\ recipe[f].size = p[f].size
      /\ Within(recipe) = Within(p)
  BY <1>1, ModelKeeps
<1>3. \A f \in Fields : p[f] \in Values /\ p[f].size \in Int
  BY <1>1 DEF Paths, Values
<1>4. CASE \E f \in Within(recipe) \cap Texts : recipe[f].type \in Unstorable
  BY <1>2, <1>3, <1>4, TakenKeeps DEF Fields
<1>5. CASE \E f \in Titles : ~(recipe[f].size <= 255)
  <2>1. Titles \subseteq Fields
    BY DEF Fields, Texts
  <2> QED BY <1>2, <1>3, <1>5, <2>1
<1>6. \A f \in Totals : recipe[f].size \in (-MaxInteger - 1)..MaxInteger
  <2>1. \A f \in Totals : f \in Fields /\ p[f].size \in 1..360
    BY TotalsInBounds DEF Fields, Numbers
  <2>2. \A n \in 1..360 : n \in (-MaxInteger - 1)..MaxInteger
    BY MaxIntegerAssumption
  <2>3. \A f \in Totals : recipe[f].size \in 1..360
    BY <1>2, <2>1
  <2> HIDE DEF p
  <2> QED BY <2>2, <2>3
<1>7. \A i \in DOMAIN image : image[i] <= MaxInteger
  BY DEF ContentInv
<1> QED BY <1>4, <1>5, <1>6, <1>7 DEF Storable, Row

\* What the schema allows is stored.
THEOREM ConformingStored == ContentSpec => []ConformingIsStored
<1>1. ContentInit => ConformingIsStored
  BY DEF ContentInit, ConformingIsStored
<1>2. TypeOK /\ ContentInv /\ ConformingIsStored /\ [ContentNext]_contentVars
        => ConformingIsStored'
  <2> SUFFICES ASSUME ContentInv, ConformingIsStored, [ContentNext]_contentVars,
                      stage' = "failed", answer'.image, file'.kind = "whole",
                      NEW text \in Found', text.kind = "json", Conforms(text.payload)
               PROVE  \/ \E f \in Titles : text.payload[f].size > 255
                      \/ \E f \in Within(text.payload) \cap Texts : text.payload[f].type \in Unstorable
    BY DEF ConformingIsStored
  <2>1. UNCHANGED <<answer, file>> /\ Found' = Found
    BY DEF ContentNext, TextAccepted, TextRefused, ImageAccepted, ImageRefused, Scan, Scanned,
           Persist, PersistFails, Next, Skip, Mark, NoSegment, Segment, Frame, Stop, vars, Found
  <2>2. CASE stage = "failed"
    BY <2>1, <2>2 DEF ConformingIsStored
  <2>3. CASE TextRefused
    BY <2>1, <2>3, ConformingIsValid DEF TextRefused, Readable
  <2>4. CASE ImageRefused
    <3>1. ~Sendable
      BY <2>1, <2>4 DEF ImageRefused
    <3>2. PICK f \in Within(recipe) \cap Texts : recipe[f].type \in Unstorable
      BY <3>1 DEF Sendable, Quoted, Unstorable, Texts, Strings, Titles, Brief
    <3>3. recipe = Model(text.payload) /\ text.payload \in [Paths -> Values]
      BY <2>1, <2>4, FoundIsOne DEF ImageRefused, ContentInv
    <3>4. Within(recipe) = Within(text.payload) /\ recipe[f] = Taken(f, text.payload[f])
      BY <3>2, <3>3, ModelKeeps DEF Fields
    <3>5. text.payload[f] \in Values
      BY <3>2, <3>3 DEF Paths, Fields
    <3> QED BY <3>2, <3>4, <3>5, TakenKeeps DEF Fields
  <2>5. CASE PersistFails
    BY <2>1, <2>5, ConformingIsStorable DEF PersistFails
  <2>6. stage = "failed" \/ TextRefused \/ ImageRefused \/ PersistFails
    BY DEF ContentNext, TextAccepted, ImageAccepted, Scan, Scanned, Persist
  <2> QED BY <2>2, <2>3, <2>4, <2>5, <2>6
<1> QED BY <1>1, <1>2, ContentInvariant, PTL DEF ContentSpec

\* What is stored can be shown and says what was answered.
THEOREM FieldsShown == ContentSpec => []FieldsAreAnswered
<1>1. ContentInv => FieldsAreAnswered
  <2> SUFFICES ASSUME ContentInv, stage = "stored", NEW text \in Found,
                      NEW fields \in {Detail, Summary}, NEW f \in fields \cap Within(recipe)
               PROVE  /\ Showable(f, Response(fields)[f])
                      /\ Response(fields)[f] = Taken(f, text.payload[f])
    BY DEF FieldsAreAnswered
  <2> DEFINE p == text.payload
  <2>1. recipe = Model(p) /\ p \in [Paths -> Values] /\ Valid(p)
    BY FoundIsOne DEF ContentInv, Readable
  <2>2. f \in Fields
    BY DEF Detail, Summary, Fields, Texts, Numbers, Strings, Lists
  <2>3. p[f] \in Values /\ recipe[f] = Taken(f, p[f]) /\ f \in Within(p)
    BY <2>1, <2>2, ModelKeeps DEF Paths
  <2>4. Response(fields)[f] = Taken(f, recipe[f])
    BY <2>2 DEF Response, Model
  <2>5. Accepts(f, p[f])
    BY <2>1, <2>3 DEF Valid
  <2> QED BY <2>2, <2>3, <2>4, <2>5, TakenKeeps
<1> QED BY <1>1, ContentInvariant, PTL

\* Whatever is stored is shown as it was answered: every field, and the size of a sound
\* image.
THEOREM ShownTrue == ContentSpec => []ShownAsAnswered
BY FieldsShown, SizeShown, PTL DEF ShownAsAnswered
=============================================================================
