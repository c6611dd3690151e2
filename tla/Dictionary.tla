------------------------------- MODULE Dictionary -------------------------------
(***************************************************************************)
(* tool::container::Dictionary, and the message in which it becomes a      *)
(* string table.  A dictionary is a record                                 *)
(*   id_look_up   a function from the strings to their ids                 *)
(*   strings      the strings by id                                        *)
(* Strings of a category are added by nobody.                              *)
(***************************************************************************)
EXTENDS Naturals, Sequences, FiniteSets, Functions

EmptyDictionary == [id_look_up |-> [ value \in {} |-> 0 ], strings |-> << >>]

Knows(dictionary, value) == value \in DOMAIN dictionary.id_look_up

\* get_id(value)
StringID(dictionary, value) == dictionary.id_look_up[value]

AddString(dictionary, value) ==
    LET new_id == Len(dictionary.strings)
    IN  [ id_look_up |-> [ other \in DOMAIN dictionary.id_look_up \cup {value} |->
                             IF other = value THEN new_id ELSE dictionary.id_look_up[other] ],
          strings    |-> Append(dictionary.strings, value) ]

\* DictionaryConverter: what the dictionary is after it has converted the string
Convert(dictionary, value) ==
    IF Knows(dictionary, value) THEN dictionary ELSE AddString(dictionary, value)

\* adaptor::Dictionary::encode: an entry for every string in the order of the ids, with
\* the key if it is not the string itself
EncodeStrings(dictionary) ==
    LET look_up == dictionary.id_look_up
        KeyAt(i) == CHOOSE key \in DOMAIN look_up :
                        Cardinality({ other \in DOMAIN look_up : look_up[other] < look_up[key] }) = i - 1
        Display(i) == dictionary.strings[look_up[KeyAt(i)] + 1]
    IN  [ i \in 1 .. Cardinality(DOMAIN look_up) |->
            [ id          |-> look_up[KeyAt(i)],
              display     |-> Display(i),
              categorized |-> {KeyAt(i)} \ {Display(i)} ] ]

\* decode_into a string table
DecodeStrings(message) ==
    [ i \in DOMAIN message |-> (CHOOSE entry \in Range(message) : entry.id = i - 1).display ]

\* StringTable::get_string
GetString(table, id) == table[id + 1]
================================================================================
