--------------------------- MODULE KeystoreFormat ---------------------------
(***************************************************************************)
(* The text format of the option keystore: to_file() prints one key=value  *)
(* line per entry in the order of the keys, to_db() cracks the text back   *)
(* with tokenize().  A text is a sequence of character codes.              *)
(*                                                                         *)
(* The state machine runs the updates that go through the format from      *)
(* end to end, set and del, each with a Keystore object of its own, and    *)
(* remembers beside the text what the user asked for.  On the console the  *)
(* user types a line, which Commander::tokenize() cracks into words and    *)
(* cmd_cb_set() puts together again.                                       *)
(***************************************************************************)
EXTENDS Integers, FiniteSets, SequencesExt

CONSTANTS KeyTexts,   \* the keys a user may set: texts
          ValTexts,   \* the values: texts
          MaxEntries  \* bound: entries in the store

Newline == 10
Space   == 32
Equals  == 61

ASSUME FormatAssumption == MaxEntries \in Nat

VARIABLES file,  \* the text of the keystore file
          want   \* what the user asked for: a function from keys to values

textVars == <<file, want>>

NoEntries == [k \in {} |-> <<>>]

\* the std::map _mapdb after _mapdb[key] = val and after erase(key)
Put(db, key, val) == [k \in DOMAIN db \cup {key} |-> IF k = key THEN val ELSE db[k]]
Del(db, key)      == Restrict(db, DOMAIN db \ {key})

\* the pieces between the delimiters: one more piece than there are delimiters
tokenize(text, token) ==
    FoldLeft(LAMBDA pieces, c : IF c = token
                                THEN Append(pieces, <<>>)
                                ELSE [pieces EXCEPT ![Len(pieces)] = Append(@, c)],
             << <<>> >>, text)

\* vlines of to_db()
Lines(text) == tokenize(text, Newline)

\* values[1] of keystore.cpp:274 exists on every line that is not empty
Readable(text) == \A i \in DOMAIN Lines(text) :
                     Lines(text)[i] # <<>> => Len(tokenize(Lines(text)[i], Equals)) > 1

\* mutant: the last piece is taken for the value
to_db_last(text) ==
    FoldLeft(LAMBDA db, line : LET values == tokenize(line, Equals)
                               IN  IF line = <<>> THEN db
                                   ELSE Put(db, values[1], values[Len(values)]),
             NoEntries, Lines(text))

\* a later line wins; whatever follows a second '=' is dropped
to_db(text) ==
    FoldLeft(LAMBDA db, line : LET values == tokenize(line, Equals)
                               IN  IF line = <<>> THEN db ELSE Put(db, values[1], values[2]),
             NoEntries, Lines(text))

\* the order of std::string, in which std::map walks its keys
Before(s, t) ==
    \/ IsStrictPrefix(s, t)
    \/ \E i \in 1..Len(s) : /\ i <= Len(t)
                            /\ SubSeq(s, 1, i - 1) = SubSeq(t, 1, i - 1)
                            /\ s[i] < t[i]

keys(db) == CHOOSE s \in [1 .. Cardinality(DOMAIN db) -> DOMAIN db] :
               \A i, j \in DOMAIN s : i < j => Before(s[i], s[j])

\* mutant: no '=' for an empty value
to_file_bare(db) ==
    FoldLeft(LAMBDA text, k : text \o k \o (IF db[k] = <<>> THEN <<>> ELSE <<Equals>>)
                              \o db[k] \o <<Newline>>, <<>>, keys(db))

\* mutant: no end of line
to_file_joined(db) == FoldLeft(LAMBDA text, k : text \o k \o <<Equals>> \o db[k], <<>>, keys(db))

to_file(db) ==
    FoldLeft(LAMBDA text, k : text \o k \o <<Equals>> \o db[k] \o <<Newline>>, <<>>, keys(db))

-----------------------------------------------------------------------------
TextInit == file = <<>> /\ want = NoEntries

\* the line on which the user sets a key: the rest of the line is the value
SetLine(key, val) == <<115, Space>> \o key \o <<Space>> \o val

\* mutant: a space before the first word as well
rejoined_all(params) ==
    FoldLeft(LAMBDA strvalue, word : strvalue \o <<Space>> \o word, <<>>, SubSeq(params, 3, Len(params)))

\* the value cmd_cb_set() makes of the words from the third one on
rejoined(params) ==
    FoldLeft(LAMBDA strvalue, word : strvalue \o <<Space>> \o word,
             params[3], SubSeq(params, 4, Len(params)))

\* open(), set() of what comes in, write(), for one that asks for val
Set(key, val, strkey, strvalue) ==
    /\ Readable(file)
    /\ key \in DOMAIN want \/ MaxEntries > Len(keys(want))
    /\ file' = to_file(Put(to_db(file), strkey, strvalue))
    /\ want' = Put(want, key, val)

\* Commander::process() and cmd_cb_set()
cmd_cb_set(key, val) == LET params == tokenize(SetLine(key, val), Space)
                        IN  Set(key, val, params[2], rejoined(params))

\* a PUT handler takes the value as it comes, unless it is empty
handle_put(key, val) == val # <<>> /\ Set(key, val, key, val)

\* cmd_cb_del: open(), del(), write()
Delete(key) == /\ Readable(file)
               /\ file' = to_file(Del(to_db(file), key))
               /\ want' = Del(want, key)

TextNext == \E key \in KeyTexts : Delete(key) \/ \E val \in ValTexts : cmd_cb_set(key, val) \/ handle_put(key, val)

TextSpec == TextInit /\ [][TextNext]_textVars

-----------------------------------------------------------------------------
(* Properties *)

\* Every text write() produces can be read back: each line has its '='
\* (keystore.h:245 "file ready storage format that can be read by to_db").
AlwaysReadable == Readable(file)

Clean(text) == \A i \in DOMAIN text : text[i] \notin {Newline, Equals}

\* An entry whose value has no delimiter in it reads back as it was sent, or as it was
\* typed, with every space in it (main.cpp:1316-1327), whatever the other entries hold,
\* and no key appears or disappears.
CleanEntriesKept ==
    /\ DOMAIN to_db(file) = DOMAIN want
    /\ \A k \in DOMAIN want : Clean(want[k]) => to_db(file)[k] = want[k]

\* What an '=' does to a value: the entry holds exactly what comes before the first
\* one (keystore.cpp:271-274), the whole value if there is none.
CutAtEquals ==
    \A k \in DOMAIN want :
       LET left == to_db(file)[k]
       IN  /\ IsPrefix(left, want[k]) /\ Clean(left)
           /\ Len(left) < Len(want[k]) => want[k][Len(left) + 1] = Equals
=============================================================================
