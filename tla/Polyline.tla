-------------------------------- MODULE Polyline --------------------------------
(***************************************************************************)
(* geometric::Polyline and tool::io::to_escaped: points as a text of       *)
(* differences, in chunks of five bits.  A text is a sequence of character *)
(* codes; a place being a number, there is one difference for a point.     *)
(***************************************************************************)
EXTENDS Integers, Sequences
LOCAL INSTANCE SequencesExt

\* what the sign bit is moved to the end for
ZigZag(delta) == IF delta < 0 THEN -2 * delta - 1 ELSE 2 * delta

UnZigZag(value) == IF value % 2 = 1 THEN -((value + 1) \div 2) ELSE value \div 2

\* the chunks of a value, all but the last one marked
Chunks(value) ==
    LET length == CHOOSE n \in 1 .. 7 : value < 32 ^ n /\ \A m \in 1 .. n - 1 : value >= 32 ^ m
    IN  [ i \in 1 .. length |->
            63 + ((value \div 32 ^ (i - 1)) % 32) + (IF i < length THEN 32 ELSE 0) ]

Deltas(points) ==
    [ i \in DOMAIN points |-> points[i] - (IF i = 1 THEN 0 ELSE points[i - 1]) ]

Encode(points) ==
    FlattenSeq([ i \in DOMAIN points |-> Chunks(ZigZag(Deltas(points)[i])) ])

\* decode_polyline_integer again and again; the state is [points, value, shift]
DecodeChar(state, char) ==
    LET chunk == char - 63
        value == state.value + (chunk % 32) * 2 ^ state.shift
        last  == IF state.points = << >> THEN 0 ELSE state.points[Len(state.points)]
    IN  IF chunk >= 32
        THEN [state EXCEPT !.value = value, !.shift = @ + 5]
        ELSE [points |-> Append(state.points, last + UnZigZag(value)), value |-> 0, shift |-> 0]

Decode(text) ==
    FoldLeft(DecodeChar, [points |-> << >>, value |-> 0, shift |-> 0], text).points

-----------------------------------------------------------------------------

Backslash == 92

\* a quote, a slash, a backslash or a control character
RequiresEscape(char) == char \in {34, 47, Backslash} \/ char < 32 \/ char = 127

ToEscaped(text) ==
    FlattenSeq([ i \in DOMAIN text |->
                   IF RequiresEscape(text[i]) THEN << Backslash, text[i] >> ELSE << text[i] >> ])

\* what a reader of JSON makes of it: a backslash stands for the character behind it
Unescaped(text) ==
    FoldLeft(LAMBDA state, char :
                 IF char = Backslash /\ ~ state.escape
                 THEN [state EXCEPT !.escape = TRUE]
                 ELSE [escape |-> FALSE, text |-> Append(state.text, char)],
             [escape |-> FALSE, text |-> << >>], text).text
================================================================================
