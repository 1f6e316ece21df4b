----------------------------- MODULE RecipeContent -----------------------------
(***************************************************************************)
(* What becomes of the provider's answers in one generation: the text is   *)
(* read as JSON and validated, the image's size is found (JpegDimensions   *)
(* scans a JPEG), both are inserted, and read again for the clients.       *)
(*                                                                         *)
(* A payload has a value at every path: a field, the fields of a list's    *)
(* items (which are alike), or "item" for the strings in a list.  A value  *)
(* has a type and a size: the length of a text or a list, or the number.   *)
(*                                                                         *)
(* "Mutant" marks a plausible bug in the definition that follows.          *)
(***************************************************************************)
EXTENDS JpegDimensions, Sequences

CONSTANTS
  Answers(_),   \* what the providers may answer along with an image file
  Configured,   \* image_output_size, or None if it is not of the form WxH
  MaxInteger    \* the largest number of an Integer column

Titles  == {<<"title">>, <<"subtitle">>}
Brief   == <<"image_generation_brief">>
Strings == {"tools", "cooking_tips", "plating_tips", "style_tags"} \X {"item"}
Texts   ==
  Titles \cup {<<"story_or_intro">>, Brief} \cup Strings
    \cup {"ingredients"} \X {"name", "amount", "unit", "notes"}
    \cup {"steps"} \X {"title", "description"} \cup {<<"steps", "warnings", "item">>}

Totals      == {<<"servings">>, <<"preparation_time_minutes">>, <<"cooking_time_minutes">>}
Temperature == <<"steps", "temperature_celsius">>
Numbers     == Totals \cup {"steps"} \X {"step_number", "duration_minutes"} \cup {Temperature}

Warnings == <<"steps", "warnings">>
Lists    ==
  {<<"ingredients">>, <<"tools">>, <<"steps">>, <<"cooking_tips">>, <<"plating_tips">>,
   <<"style_tags">>, Warnings}

Difficulty == <<"difficulty_level">>
Unknown    == <<"unknown">>   \* any other key
Fields     == Texts \cup Numbers \cup Lists \cup {Difficulty}
Paths      == Fields \cup {Unknown}

\* What json.loads takes and PostgreSQL does not: "nul" is a text with a character
\* U+0000, "surrogate" one with half of a pair, which has no UTF-8.
Unstorable == {"nul", "surrogate"}
TextTypes  == {"string", "digits", "level"} \cup Unstorable

Absent    == [type |-> "absent", size |-> 0]
Null      == [type |-> "null", size |-> 0]
Values    == [type : TextTypes \cup {"integer", "float", "fraction", "list", "null", "absent"},
              size : Int]

\* An answer: its texts, output_text first and then those of the output items, and
\* whether it comes with an image.  A text is empty, JSON, or no JSON (cut short).
Text == [kind : {"empty", "json", "cut"}, payload : [Paths -> Values]]

ASSUME AnswersAssumption ==
  \A f \in Files : \A a \in Answers(f) : a \in [texts : Seq(Text), image : BOOLEAN]

Signature == <<137, 80, 78, 71, 13, 10, 26, 10>>
HasHeader(f) == f.length >= 24 /\ \A i \in 0..7 : f.bytes[i] = Signature[i + 1]

\* A number of four bytes.
Double(f, i) ==
  16777216 * f.bytes[i] + 65536 * f.bytes[i + 1] + 256 * f.bytes[i + 2] + f.bytes[i + 3]

HeaderSize(f) == <<Double(f, 16), Double(f, 20)>>

\* A sound PNG has a header, and no size beyond 2^31 - 1.
ASSUME PngAssumption ==
  \A f \in Files : f.format = "png" /\ f.kind = "whole" =>
    /\ HasHeader(f) /\ f.frame = HeaderSize(f)
    /\ HeaderSize(f) \in (0..MaxInteger) \X (0..MaxInteger)

ASSUME ConfiguredAssumption == Configured \in Sizes \cup {None}
ASSUME MaxIntegerAssumption == MaxInteger \in Nat /\ MaxInteger >= 65535

VARIABLES
  answer,   \* what the providers answer to this attempt
  stage,    \* where the attempt is: "text", "image", "scan", "persist", or its end
  recipe,   \* the validated payload, then the row in the database
  image     \* width and height of the image, then of its row

content == <<answer, stage, recipe, image>>
contentVars == <<vars, content>>

-----------------------------------------------------------------------------
(* The JSON schema that the provider is given *)

Least(n) == {m \in Nat : m >= n}

TextLength(f) ==
  CASE f \in Titles -> Least(3)
    [] f = <<"story_or_intro">> -> Least(20)
    [] f \in {Brief, <<"steps", "description">>} -> Least(10)
    [] f \in {"ingredients"} \X {"name", "amount", "unit"} -> Least(1)
    [] f \in {<<"tools", "item">>, <<"steps", "title">>} -> Least(1)
    [] OTHER -> Nat

Bounds(f) ==
  CASE f = <<"servings">> -> 1..12
    [] f = <<"preparation_time_minutes">> -> 1..240
    [] f = <<"cooking_time_minutes">> -> 1..360
    [] f = <<"steps", "step_number">> -> Least(1)
    [] f = <<"steps", "duration_minutes">> -> 1..180
    [] f = Temperature -> 30..350

Items(f) ==
  CASE f = <<"ingredients">> -> 3..20
    [] f = <<"tools">> -> 1..12
    [] f = <<"steps">> -> 3..15
    [] f = <<"style_tags">> -> 1..10
    [] OTHER -> Nat

Inside(f, g) == Len(g) < Len(f) /\ SubSeq(f, 1, Len(g)) = g

\* The items of an empty list are not looked at.
Within(p) == {f \in Paths : \A g \in Lists : Inside(f, g) => p[g].size > 0}

ConformsAt(f, v) ==
  \/ f \in Texts /\ v.type \in TextTypes /\ v.size \in TextLength(f)
  \/ f \in Numbers /\ v.type \in {"integer", "float"} /\ v.size \in Bounds(f)
  \/ f = Temperature /\ v = Null
  \/ f \in Lists /\ v.type = "list" /\ v.size \in Items(f)
  \/ f = Difficulty /\ v.type = "level"
  \/ f = Unknown /\ v = Absent

Conforms(p) == \A f \in Within(p) : ConformsAt(f, p[f])

-----------------------------------------------------------------------------
(* Validation by the models of entities.py *)

\* Mutant: the temperature is an int, not int | None.
AcceptsNoNull(f, v) ==
  \/ f \in Texts /\ v.type \in TextTypes
  \/ f \in Numbers /\ v.type \in {"integer", "float", "digits"}
  \/ f \in Lists /\ v.type = "list"
  \/ f = Difficulty /\ v.type = "level"
  \/ f \in {Temperature, Warnings, Unknown} /\ v = Absent

\* Types and keys, but no bounds.  Numbers are taken from texts of digits, too
\* ("float" is one without a fraction).
Accepts(f, v) ==
  \/ f \in Texts /\ v.type \in TextTypes
  \/ f \in Numbers /\ v.type \in {"integer", "float", "digits"}
  \/ f = Temperature /\ v = Null
  \/ f \in Lists /\ v.type = "list"
  \/ f = Difficulty /\ v.type = "level"
  \/ f \in {Temperature, Warnings, Unknown} /\ v = Absent

\* What the model has for the value: the number, or the default.
Taken(f, v) ==
  CASE f \in Numbers /\ v.type \in {"float", "digits"} -> [v EXCEPT !.type = "integer"]
    [] f = Temperature /\ v = Absent -> Null
    [] f = Warnings /\ v = Absent -> [type |-> "list", size |-> 0]
    [] OTHER -> v

Valid(p) == \A f \in Within(p) : Accepts(f, p[f])
Model(p) == [f \in Fields |-> Taken(f, p[f])]

-----------------------------------------------------------------------------
(* The attempt *)

ContentInit ==
  /\ Init
  /\ answer \in Answers(file)
  /\ stage = "text"
  /\ recipe = None
  /\ image = None

\* _extract_output_text: the first text that is not empty, if there is one.
Found ==
  {answer.texts[i] :
     i \in {k \in DOMAIN answer.texts :
              /\ answer.texts[k].kind # "empty"
              /\ \A j \in DOMAIN answer.texts : j < k => answer.texts[j].kind = "empty"}}

Readable(text) == text.kind = "json" /\ Valid(text.payload)

TextAccepted ==
  /\ stage = "text"
  /\ \E text \in Found : Readable(text) /\ recipe' = Model(text.payload)
  /\ stage' = "image"
  /\ UNCHANGED <<vars, answer, image>>

\* ExternalProviderError, StructuredOutputValidationError.
TextRefused ==
  /\ stage = "text"
  /\ \A text \in Found : ~Readable(text)
  /\ stage' = "failed"
  /\ UNCHANGED <<vars, answer, recipe, image>>

\* The header of a PNG is read if it is there.
PngSize == IF HasHeader(file) THEN HeaderSize(file) ELSE Configured

\* The image prompt quotes these, and the HTTP client encodes it as UTF-8.
Quoted   == Titles \cup {Brief, <<"style_tags", "item">>, <<"plating_tips", "item">>}
Sendable == \A f \in Within(recipe) \cap Quoted : recipe[f].type # "surrogate"

\* The first image of the answer, in the format that was asked for; a JPEG is scanned.
ImageAccepted ==
  /\ stage = "image"
  /\ Sendable
  /\ answer.image
  /\ IF file.format = "jpeg"
       THEN stage' = "scan" /\ UNCHANGED image
       ELSE stage' = "persist" /\ image' = IF file.format = "png" THEN PngSize ELSE Configured
  /\ UNCHANGED <<vars, answer, recipe>>

ImageRefused ==
  /\ stage = "image"
  /\ ~(Sendable /\ answer.image)
  /\ stage' = "failed"
  /\ UNCHANGED <<vars, answer, recipe, image>>

Scan ==
  /\ stage = "scan"
  /\ Next
  /\ UNCHANGED content

Scanned ==
  /\ stage = "scan"
  /\ pc = "done"
  /\ image' = IF size = None THEN Configured ELSE size
  /\ stage' = "persist"
  /\ UNCHANGED <<vars, answer, recipe>>

\* Mutant: the two times change places.
RowSwapped ==
  [recipe EXCEPT ![<<"cooking_time_minutes">>] = recipe[<<"preparation_time_minutes">>],
                 ![<<"preparation_time_minutes">>] = recipe[<<"cooking_time_minutes">>]]

\* create_recipe: a column for each field, but for the brief, which is a part of the
\* image prompt.
Row == recipe

\* What the driver and PostgreSQL take: texts, in columns or in JSON, of characters
\* they have, titles of a String(255), and numbers of an Integer column.
Storable ==
  /\ \A f \in Within(Row) \cap Texts : Row[f].type \notin Unstorable
  /\ \A f \in Titles : Row[f].size <= 255
  /\ \A f \in Totals : Row[f].size \in (-MaxInteger - 1)..MaxInteger
  /\ \A i \in DOMAIN image : image[i] <= MaxInteger

Persist ==
  /\ stage = "persist"
  /\ Storable
  /\ recipe' = Row
  /\ stage' = "stored"
  /\ UNCHANGED <<vars, answer, image>>

\* DatabaseOperationError, when both calls are paid and the image is uploaded.
PersistFails ==
  /\ stage = "persist"
  /\ ~Storable
  /\ stage' = "failed"
  /\ UNCHANGED <<vars, answer, recipe, image>>

ContentNext ==
  \/ TextAccepted \/ TextRefused \/ ImageAccepted \/ ImageRefused
  \/ Scan \/ Scanned \/ Persist \/ PersistFails

ContentSpec == ContentInit /\ [][ContentNext]_contentVars

-----------------------------------------------------------------------------
(* What the clients get *)

Detail == Fields \ {Brief}
Summary ==
  Titles \cup Totals
    \cup {<<"story_or_intro">>, Difficulty, <<"style_tags">>, <<"style_tags", "item">>}

\* The row as the mapper validates it, and of that the fields of a response, public or
\* for admins.
Response(fields) == [f \in fields |-> Model(recipe)[f]]

\* Width and height in a response with the image, public or for admins.
Shown == image

\* What the response models take: as the entities do, but warnings have no default.
Showable(f, v) == Accepts(f, v) /\ (f = Warnings => v.type = "list")

-----------------------------------------------------------------------------
(* Properties *)

\* An answer of the schema we give the provider, with a sound image, is stored, unless a
\* title is longer than its column, or a text has a U+0000 or half of a surrogate pair,
\* all of which the schema allows: neither validation nor any other column asks for more
\* than the schema.
ConformingIsStored ==
  stage = "failed" /\ answer.image /\ file.kind = "whole" =>
    \A text \in Found : text.kind = "json" /\ Conforms(text.payload) =>
      \/ \E f \in Titles : text.payload[f].size > 255
      \/ \E f \in Within(text.payload) \cap Texts : text.payload[f].type \in Unstorable

\* Whatever has been stored can be shown, and says in every field of every response what
\* the provider said there.
FieldsAreAnswered ==
  stage = "stored" =>
    \A text \in Found, fields \in {Detail, Summary} :
      \A f \in fields \cap Within(recipe) :
        /\ Showable(f, Response(fields)[f])
        /\ Response(fields)[f] = Taken(f, text.payload[f])

\* The image of a sound file has the size it has.
SizeIsTrue ==
  stage = "stored" /\ file.kind = "whole" =>
    Shown = IF file.format = "webp" THEN Configured ELSE file.frame

ShownAsAnswered == FieldsAreAnswered /\ SizeIsTrue
=============================================================================
