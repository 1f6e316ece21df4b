---------------------------- MODULE MCRecipeContent ----------------------------
(***************************************************************************)
(* Files and answers for RecipeContent.  The files are put together as the *)
(* format has it: for a JPEG start of image, segments, a frame header, end *)
(* of image.  The answers differ from a good one at one path, or in their  *)
(* texts.                                                                  *)
(***************************************************************************)
EXTENDS RecipeContent, SequencesExt

Coded(code, payload) ==
  <<255, code, 0, Len(payload) + 2>> \o payload

\* A frame of one component, 258 wide and 3 high.
FrameOf(code) == Coded(code, <<8, 0, 3, 1, 2, 1, 1, 17, 0>>)
FrameSize == <<258, 3>>

\* Payloads that look like markers, and a thumbnail with a frame of its own.
Payloads ==
  BoundedSeq({192, 255}, 1) \cup {<<255, 192>>, <<255, 216>> \o Coded(192, <<8, 0, 9, 0, 9, 1>>)}

\* Application data and Huffman tables.
Segments == {Coded(code, p) : code \in {224, 196}, p \in Payloads}

Start == <<255, 216>>
End == <<0, 255, 217>>

\* Where the markers of the first n segments are, and the next one.
MarkersOf(s) == {2 + Len(FlattenSeq(SubSeq(s, 1, n))) : n \in 0..Len(s)}

\* A JPEG of segments s and a frame.
Jpeg(s, code) ==
  [bytes |-> Start \o FlattenSeq(s) \o FrameOf(code) \o End,
   markers |-> MarkersOf(s), header |-> 2 + Len(FlattenSeq(s))]

WholeJpegs == {Jpeg(s, code) : s \in BoundedSeq(Segments, 2), code \in {192, 207}}

Longest == Max({Len(j.bytes) : j \in WholeJpegs})

FileOf(s, n, what) ==
  [length |-> n, bytes |-> [i \in 0..(n - 1) |-> s[i + 1]], markers |-> {}, header |-> 0,
   format |-> "jpeg", kind |-> what, frame |-> FrameSize]

\* The first n bytes of j.
Prefix(j, n) ==
  [FileOf(j.bytes, n, IF n = Len(j.bytes) THEN "whole" ELSE "cut")
     EXCEPT !.markers = j.markers, !.header = j.header]

\* Every JPEG, every prefix of it, and every way to damage one byte of a file with
\* one segment.
Jpegs ==
  {Prefix(j, Min({n, Len(j.bytes)})) : j \in WholeJpegs, n \in 0..Longest}
    \cup UNION {{FileOf([s EXCEPT ![i] = b], Len(s), "any") : i \in 1..Len(s), b \in {0, 1, 255}} :
                  s \in {Jpeg(<<t>>, 192).bytes : t \in Segments}}

\* A PNG of 258 by 1024, its prefixes, one with a damaged signature, and one with a
\* size beyond the column, which no sound PNG has.
PngBytes == Signature \o <<0, 0, 0, 13, 73, 72, 68, 82, 0, 0, 1, 2, 0, 0, 4, 0, 8>>
PngOf(s, what) ==
  [FileOf(s, Len(s), what) EXCEPT !.format = "png", !.frame = <<258, 1024>>]
GoodPng == PngOf(PngBytes, "whole")
Pngs ==
  {GoodPng} \cup {PngOf(SubSeq(PngBytes, 1, n), "cut") : n \in {0, 8, 23, 24}}
    \cup {PngOf([PngBytes EXCEPT ![i] = 1], "any") : i \in {1, 8, 18}}

Webp == [FileOf(<<82, 73, 70, 70>>, 4, "whole") EXCEPT !.format = "webp"]

TestFiles == Jpegs \cup Pngs \cup {Webp}

OutputSize == <<1024, 1536>>

V(t, n) == [type |-> t, size |-> n]

\* A recipe that conforms to the schema.
Good ==
  [f \in Paths |->
     CASE f \in Texts -> V("string", 30)
       [] f \in Lists -> V("list", 4)
       [] f = <<"servings">> -> V("integer", 2)
       [] f = <<"preparation_time_minutes">> -> V("integer", 15)
       [] f = <<"cooking_time_minutes">> -> V("integer", 40)
       [] f = <<"steps", "step_number">> -> V("integer", 1)
       [] f = <<"steps", "duration_minutes">> -> V("integer", 10)
       [] f = Temperature -> V("integer", 180)
       [] f = Difficulty -> V("level", 4)
       [] f = Unknown -> Absent]

\* Both sides of every bound, and values of another type.
Variants ==
  [type : {"string"}, size : {0, 1, 2, 3, 9, 10, 19, 20, 255, 256}]
    \cup [type : {"integer"},
          size : {-70002, 0, 1, 12, 13, 29, 30, 180, 181, 240, 241, 350, 351, 360, 361, 70001}]
    \cup [type : {"list"}, size : {0, 1, 2, 3, 10, 11, 12, 13, 15, 16, 20, 21}]
    \cup {V("float", 12), V("digits", 12), V("fraction", 2), V("nul", 30), V("surrogate", 30),
          V("level", 4), Null, Absent}

Payloads1 == {[Good EXCEPT ![f] = v] : f \in Paths, v \in Variants}

\* A list without items, and what is said of its items.
EmptyLists ==
  {[Good EXCEPT ![f] = V("list", 0), ![g] = v] :
     f \in Lists, g \in {h \in Paths : Len(h) > 1}, v \in {Null, Absent, V("digits", 3)}}

Json(p) == [kind |-> "json", payload |-> p]
Cut     == [kind |-> "cut", payload |-> Good]
Empty   == [kind |-> "empty", payload |-> Good]
Other   == Json([Good EXCEPT ![<<"servings">>] = V("integer", 8)])

TestTexts ==
  {<<Json(p)>> : p \in Payloads1 \cup EmptyLists}
    \cup BoundedSeq({Empty, Cut, Json(Good), Other}, 3)

Answer(ts, b) == [texts |-> ts, image |-> b]

AllAnswers == {Answer(ts, b) : ts \in TestTexts, b \in BOOLEAN}
GoodAnswer == {Answer(<<Json(Good)>>, TRUE)}

TestAnswers(f) == IF f = GoodPng THEN AllAnswers ELSE GoodAnswer
=============================================================================
