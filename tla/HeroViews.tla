------------------------------- MODULE HeroViews -------------------------------
(***************************************************************************)
(* The representations of a hero and the conversions between them: the v2  *)
(* and v1 bodies, their XML siblings, and the web form, filled in by the   *)
(* server and sent by the browser or by the page's script.                 *)
(*                                                                         *)
(* A text is the sequence of its comma-separated pieces, and a piece is    *)
(* one of a few that trimming and the length check tell apart.  A number   *)
(* is any integer where it is typed or sent, and within -Half..Half-1, the *)
(* i32 of the structs and the column, where it has been read.              *)
(***************************************************************************)
EXTENDS Integers, Sequences, SequencesExt, Functions

CONSTANTS
  Null,       (* None, and SQL's NULL                                      *)
  Blank,      (* an empty or blank power_level field                       *)
  Exponent,   (* a power_level only a script reads as a number (1e1)       *)
  Half        (* 2^31 of the code                                          *)

ASSUME ViewsAssumption ==
  /\ Null \notin Int /\ Blank \notin Int /\ Exponent \notin Int /\ Blank # Exponent
  /\ Half \in Nat /\ Half > 10

Pieces == {"", " ", "a", " a", "b", " b", "long"}

Text == Seq(Pieces) \ {<<>>}

ASSUME TextAssumption == Null \notin Text /\ Null \notin Seq(Text)

(* Option<i32>                                                             *)
Levels == (-Half .. Half - 1) \cup {Null}

(* The writable fields, as a row holds them (NULL where the column is      *)
(* nullable) and as an update carries them (None leaves a field alone).    *)
Content ==
  [name: Text \cup {Null}, powers: Seq(Text) \cup {Null}, level: Levels]

(* The bodies a client may send to v2 and to v1, a field that is left out  *)
(* being Null.                                                             *)
Body ==
  [name: Text \cup {Null}, powers: Seq(Text) \cup {Null}, level: Int \cup {Null}]

BodyV1 ==
  [name: Text \cup {Null}, superpower: Text \cup {Null}, level: Int \cup {Null}]

Contents(name, powers, level) == [name |-> name, powers |-> powers, level |-> level]

(* validate_text_field: 1 to 200 characters, blanks included.              *)
ValidText(text) == text # <<"">> /\ "long" \notin Range(text) /\ Len(text) <= 200

ValidPowers(powers) == powers # <<>> /\ \A p \in Range(powers) : ValidText(p)

(* HeroCreate::validate                                                    *)
ValidCreate(c) == ValidText(c.name) /\ ValidPowers(c.powers)

(* HeroUpdate::validate                                                    *)
ValidUpdate(u) ==
  /\ u.name # Null => ValidText(u.name)
  /\ u.powers # Null => ValidPowers(u.powers)

(* What the routes accept: a body that deserializes, with the fields that  *)
(* are no Option in it and a level within an i32, and that is valid.       *)
AcceptsCreate(body) ==
  /\ body.name # Null /\ body.powers # Null /\ body.level \in Levels
  /\ ValidCreate(body)

AcceptsUpdate(body) == body.level \in Levels /\ ValidUpdate(body)

(* apply_update of both repositories.                                      *)
ApplyUpdate(content, u) ==
  [field \in DOMAIN content |-> IF u[field] = Null THEN content[field] ELSE u[field]]

-----------------------------------------------------------------------------
(* The JSON and XML bodies of v2 and v1.                                   *)

ReadV2(content) == content

(* The first power, if there is one.                                       *)
FirstOf(powers) == IF powers \in {Null, <<>>} THEN Null ELSE Head(powers)

(* Variant of ReadV1: the last power.                                      *)
ReadV1Last(content) ==
  [name |-> content.name,
   superpower |-> IF content.powers \in {Null, <<>>} THEN Null ELSE Last(content.powers),
   level |-> content.level]

ReadV1(content) ==
  [name |-> content.name, superpower |-> FirstOf(content.powers), level |-> content.level]

CreateFromV1(v1) == Contents(v1.name, <<v1.superpower>>, v1.level)

UpdateFromV1(v1) ==
  Contents(v1.name, IF v1.superpower = Null THEN Null ELSE <<v1.superpower>>, v1.level)

ValidV1(v1) ==
  /\ v1.name # Null => ValidText(v1.name)
  /\ v1.superpower # Null => ValidText(v1.superpower)

AcceptsCreateV1(v1) ==
  /\ v1.name # Null /\ v1.superpower # Null /\ v1.level \in Levels
  /\ ValidV1(v1)

AcceptsUpdateV1(v1) == v1.level \in Levels /\ ValidV1(v1)

(* In XML a field that is None is left out, and one left out is None.  The *)
(* library is taken to read back the text it wrote, its blanks included.   *)
ToXml(view) == Restrict(view, {field \in DOMAIN view : view[field] # Null})

FromXml(document, fields) ==
  [field \in fields |-> IF field \in DOMAIN document THEN document[field] ELSE Null]

-----------------------------------------------------------------------------
(* The bodies the manifest announces: the JSON schemas of hero_descriptor. *)

PowerKey(version) == IF version = "v2" THEN "powers" ELSE "superpower"

(* Variant of BodySchema: a list of powers may be empty.                   *)
SchemaWithoutMinItems(version, required) ==
  [lengths |-> 1..200, minItems |-> 0, levels |-> Int \cup {Null},
   required |-> IF required THEN {"name", PowerKey(version)} ELSE {}]

BodySchema(version, required) ==
  [lengths |-> 1..200, minItems |-> 1, levels |-> Int \cup {Null},
   required |-> IF required THEN {"name", PowerKey(version)} ELSE {}]

LengthOf(text) == IF "long" \in Range(text) THEN 201 ELSE IF text = <<"">> THEN 0 ELSE Len(text)

(* The texts of a body, and the length of its list.                        *)
TextsOf(body) ==
  ({body.name} \cup
     (CASE "powers" \notin DOMAIN body -> {body.superpower}
        [] "powers" \in DOMAIN body /\ body.powers = Null -> {}
        [] "powers" \in DOMAIN body /\ body.powers # Null -> Range(body.powers))) \ {Null}

Conforms(body, schema) ==
  /\ body.level \in schema.levels
  /\ \A field \in schema.required : body[field] # Null
  /\ \A text \in TextsOf(body) : LengthOf(text) \in schema.lengths
  /\ "powers" \in DOMAIN body /\ body.powers # Null => Len(body.powers) >= schema.minItems

-----------------------------------------------------------------------------
(* The web form: three text inputs.                                        *)

Fields == [name: Text, powers: Text, level: Int \cup {Blank, Exponent}]

EmptyForm == [name |-> <<"">>, powers |-> <<"">>, level |-> Blank]

(* str::trim                                                               *)
Trim(piece) ==
  CASE piece = " " -> "" [] piece = " a" -> "a" [] piece = " b" -> "b" [] OTHER -> piece

(* A piece with a blank before it.                                         *)
Spaced(piece) ==
  CASE piece = "" -> " " [] piece = "a" -> " a" [] piece = "b" -> " b" [] OTHER -> piece

(* powers.join(", ")                                                       *)
Join(powers) ==
  FlattenSeq([k \in 1..Len(powers) |->
    IF k = 1 THEN powers[k] ELSE <<Spaced(Head(powers[k]))>> \o Tail(powers[k])])

(* hero_row_html                                                           *)
FormOf(content) ==
  [name |-> IF content.name = Null THEN <<"">> ELSE content.name,
   powers |-> IF content.powers \in {Null, <<>>} THEN <<"">> ELSE Join(content.powers),
   level |-> IF content.level = Null THEN Blank ELSE content.level]

(* A piece makes one power, or none.                                       *)
Word(piece) == IF Trim(piece) = "" THEN <<>> ELSE <<<<Trim(piece)>>>>

(* Variant of ParsePowers: the pieces are kept as they were typed.         *)
SplitPowers(text) ==
  FlattenSeq([k \in 1..Len(text) |-> IF Trim(text[k]) = "" THEN <<>> ELSE <<<<text[k]>>>>])

(* parse_powers, and payloadFrom of the script: split, trim, drop empties. *)
ParsePowers(text) == FlattenSeq([k \in 1..Len(text) |-> Word(text[k])])

(* parse_power_level: an i32 in digits, or nothing.                        *)
FormLevelParses(fields) == fields.level \in (Levels \ {Null}) \cup {Blank}

(* Variant of FormLevel: the blank is handed on.                           *)
FormLevelAsTyped(fields) == fields.level

FormLevel(fields) == IF fields.level = Blank THEN Null ELSE fields.level

(* Variant of ScriptLevel: Number("") is 0.                                *)
ScriptNumber(fields) ==
  CASE fields.level = Blank -> 0 [] fields.level = Exponent -> 10 [] OTHER -> fields.level

ScriptLevel(fields) ==
  CASE fields.level = Blank -> Null [] fields.level = Exponent -> 10 [] OTHER -> fields.level

(* into_hero_create and into_hero_update: what they build, and whether     *)
(* they accept it.  The name goes as it was typed.                         *)
FromForm(fields) == Contents(fields.name, ParsePowers(fields.powers), FormLevel(fields))

FormAccepted(fields) == FormLevelParses(fields) /\ ValidCreate(FromForm(fields))

(* payloadFrom: the body the script sends to the v2 JSON route.            *)
FromScript(fields) == Contents(fields.name, ParsePowers(fields.powers), ScriptLevel(fields))
=============================================================================
