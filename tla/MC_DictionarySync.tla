------------------------- MODULE MC_DictionarySync -------------------------
(* DictionarySync with a word SQLite and JavaScript fold alike and two        *)
(* spellings that only toLowerCase takes for one word.                        *)
EXTENDS DictionarySync

CONSTANTS plain, upper, lower

KeyMap == [w \in Word |-> IF w = upper THEN lower ELSE w]

\* Bound: behaviours with every event allowed use the plain word only, the
\* others have one event less.
WordsInUse == {rows[i].word : i \in {i \in Id : Exists(rows[i])}}
              \cup {cloud[n].word : n \in {n \in Ident : cloud[n].life # "none"}}
Bounded == acts + faults + crossed = MaxEvents => WordsInUse \subseteq {plain}
=============================================================================
