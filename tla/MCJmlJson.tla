------------------------------- MODULE MCJmlJson -------------------------------
(***************************************************************************)
(* std.json.  JmlJson is the structure of a text, with a letter for every  *)
(* string and word; JmlJsonText is one string or number, character by      *)
(* character.  A run is of one of the two; the other stays where it starts.*)
(***************************************************************************)
EXTENDS JmlJson

VARIABLES
    part,       \* "structure" or "literal"
    kind, json5, text
literal == <<kind, json5, text>>

Literal == INSTANCE JmlJsonText WITH MaxString <- 8, MaxNumber <- 5
ASSUME Literal!TextAssumption

MCInit ==
    /\ part \in {"structure", "literal"}
    /\ Init /\ (part = "literal" => mode = CHOOSE m \in Modes : TRUE)
    /\ Literal!Init /\ (part = "structure" => kind = "string" /\ json5 /\ text = <<"'">>)
(* Bound: a text of MaxLength characters has no numbers. *)
Bounded == Len(src) = MaxLength => \A i \in 1..Len(src) : src[i] \notin {"1", "-", "I"}
Structure == part = "structure" /\ Next /\ Bounded' /\ UNCHANGED <<part, literal>>
Spells == part = "literal" /\ Literal!Next /\ UNCHANGED <<part, vars>>

MCNext == Structure \/ Spells
MCSpec == MCInit /\ [][MCNext]_<<part, literal, vars>> /\ WF_vars(Structure)

(* Every text is accepted or refused: no mode makes a loop of the parser   *)
(* (jml_json_object_size, jml_json_array_size) go round without reading.   *)
(* Texts with a digit glued to Infinity are left out.                      *)
StructureEnds == <>(part = "literal" \/ Glued \/ pass \in {"done", "error"})

(* The second pass reads, in the structure and within literals, what the   *)
(* first did, and fills no more than the first counted                     *)
(* (jml_json_value_size, jml_json_value_parse, jml_json_string_parse); but *)
(* for what is glued to Infinity or NaN.                                   *)
PassesAgree == /\ TypeOK /\ PassesReadTheSame /\ BufferSuffices
               /\ Literal!SameText
(* What strict mode takes is JSON: structure, strings and numbers          *)
(* (jml_json_value_size, jml_json_string_size, jml_json_number_size); but  *)
(* for a sign that ends the text and control characters within strings.    *)
StrictTextsAreJson == StrictIsJson /\ Literal!StringIsJson /\ Literal!NumberIsJson
================================================================================
