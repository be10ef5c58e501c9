----------------------------- MODULE DataSource -----------------------------
(***************************************************************************)
(* How a PDO connection is made: php_pdo_parse_data_source takes the data  *)
(* source "name=value; name2=value2" apart, and create puts what it finds  *)
(* into a connection string, whose values libpq reads back between quotes. *)
(* A text is a sequence of characters; a character only matters when the   *)
(* code or libpq looks for it.                                             *)
(***************************************************************************)
EXTENDS Integers, FiniteSets, Sequences, SequencesExt

CONSTANTS
  Chars,       \* the characters of a text; of white space the space only
  Options,     \* the options the driver knows, as the connection string has them
  OptionName,  \* their names, as texts
  Default,     \* the value of an option that is not in the data source
  OtherNames,  \* names that no option has
  Values,      \* values a script gives to options
  MaxPairs,    \* bound: options in a data source
  Absent       \* is no text

Keys == ToSet(Options)

Names == {OptionName[k] : k \in Keys} \cup OtherNames

\* What ends a value.
Space == " "
Semicolon == ";"

\* The documented form: a name ends at "=", and the space before it is not part
\* of it; a value ends at a space or a semicolon.
ASSUME DataSourceAssumption ==
  /\ MaxPairs \in Nat
  /\ Options \in Seq(Keys) /\ IsInjective(Options) /\ Absent \notin Seq(Chars)
  /\ {"=", Space, Semicolon} \subseteq Chars
  /\ \A k, l \in Keys : OptionName[k] = OptionName[l] => k = l
  /\ \A k \in Keys : OptionName[k] \notin OtherNames /\ Default[k] \in Seq(Chars)
  /\ \A name \in Names :
       name \in Seq(Chars \ {"="}) /\ (name # <<>> => Head(name) # Space)
  /\ Values \subseteq Seq(Chars \ {Space, Semicolon})

VARIABLES
  pairs,        \* what the author of the data source meant
  data_source,
  i,            \* the character that is looked at next
  optstart,     \* where the name begins
  optval,       \* value found for each option
  n_matches,
  pc,
  conninfo      \* characters, and each option's name and "=" as one

vars == <<pairs, data_source, i, optstart, optval, n_matches, pc, conninfo>>

Separators == {<<Semicolon>>, <<Semicolon, Space>>, <<Space>>}

Pair == [name : Names, value : Values, separator : Separators]

\* The separator of the last pair is left out.
Text(ps) ==
  FlattenSeq([k \in DOMAIN ps |->
    ps[k].name \o <<"=">> \o ps[k].value
      \o (IF k < Len(ps) THEN ps[k].separator ELSE <<>>)])

Init ==
  /\ pairs \in BoundedSeq(Pair, MaxPairs)
  /\ data_source = Text(pairs)
  /\ i = 1
  /\ optstart = 1
  /\ optval = [k \in Keys |-> Absent]
  /\ n_matches = 0
  /\ pc = "parse"
  /\ conninfo = <<>>

-----------------------------------------------------------------------------
(* php_pdo_parse_data_source *)

\* The first of some characters from a place on, or the end.
FirstFrom(from, chars) ==
  LET k == SelectInSubSeq(data_source, from, Len(data_source), LAMBDA c : c \in chars)
  IN  IF k = 0 THEN Len(data_source) + 1 ELSE k

\* Mutant: the end of the option's name is not tested for.
MutantMatches(k, name) == IsPrefix(name, OptionName[k])

Matches(k, name) == name = OptionName[k]

\* One turn of the loop from an "=" on.
TakeOption ==
  LET valstart == FirstFrom(i, {"="}) + 1
      delim    == FirstFrom(valstart, {Space, Semicolon})
      name     == SubSeq(data_source, optstart, valstart - 2)
      value    == SubSeq(data_source, valstart, delim - 1)
      next     == FirstFrom(delim + 1, ToSet(data_source) \ {Space})
  IN  /\ pc = "parse"
      /\ Contains(SubSeq(data_source, i, Len(data_source)), "=")
      /\ \/ \E k \in Keys :
              /\ Matches(k, name)
              /\ optval' = [optval EXCEPT ![k] = value]
              /\ n_matches' = n_matches + 1
         \/ /\ \A k \in Keys : ~Matches(k, name)
            /\ UNCHANGED <<optval, n_matches>>
      /\ i' = next
      /\ optstart' = next
      /\ UNCHANGED <<pairs, data_source, pc, conninfo>>

\* No "=" is left.
EndOfSource ==
  /\ pc = "parse"
  /\ ~Contains(SubSeq(data_source, i, Len(data_source)), "=")
  /\ i' = Len(data_source) + 1
  /\ pc' = "assemble"
  /\ UNCHANGED <<pairs, data_source, optstart, optval, n_matches, conninfo>>

-----------------------------------------------------------------------------
(* create *)

ReplaceStringInPlace(subject, search, replace) ==
  FlattenSeq([k \in DOMAIN subject |->
    IF subject[k] = search THEN replace ELSE <<subject[k]>>])

\* Mutant: the backslashes of the second replacement are replaced too.
MutantQuoted(value) ==
  ReplaceStringInPlace(
    ReplaceStringInPlace(value, "'", <<"\\", "'">>), "\\", <<"\\", "\\">>)

Quoted(value) ==
  ReplaceStringInPlace(
    ReplaceStringInPlace(value, "\\", <<"\\", "\\">>), "'", <<"\\", "'">>)

ValueOf(k) == IF optval[k] = Absent THEN Default[k] ELSE optval[k]

Assemble ==
  /\ pc = "assemble"
  /\ conninfo' =
       FlattenSeq([n \in DOMAIN Options |->
         <<Options[n], "'">> \o Quoted(ValueOf(Options[n])) \o <<"'">>])
  /\ pc' = "done"
  /\ UNCHANGED <<pairs, data_source, i, optstart, optval, n_matches>>

Next == TakeOption \/ EndOfSource \/ Assemble

Spec == Init /\ [][Next]_vars

-----------------------------------------------------------------------------
(* How libpq reads a connection string: an option's name and "=", and a value *)
(* in quotes, in which a backslash takes the next character as it is.         *)

ReadNext(state, c) ==
  CASE state.mode = "name" /\ c \in Keys ->
         [state EXCEPT !.mode = "open", !.key = c, !.read[c] = <<>>]
    [] state.mode = "open" /\ c = "'"    -> [state EXCEPT !.mode = "value"]
    [] state.mode = "value" /\ c = "\\"  -> [state EXCEPT !.mode = "escaped"]
    [] state.mode = "value" /\ c = "'"   -> [state EXCEPT !.mode = "name"]
    [] state.mode = "escaped" \/ (state.mode = "value" /\ c \notin {"\\", "'"}) ->
         [state EXCEPT !.mode = "value", !.read[state.key] = Append(@, c)]
    [] OTHER                             -> [state EXCEPT !.mode = "error"]

NothingRead == [mode |-> "name", key |-> Absent, read |-> [k \in Keys |-> Absent]]

conninfo_parse(text) ==
  LET state[n \in 0..Len(text)] ==
        IF n = 0 THEN NothingRead ELSE ReadNext(state[n-1], text[n])
  IN  state[Len(text)]

-----------------------------------------------------------------------------
(* Safety *)

\* ParsesDocumentedForm: of a data source of the documented form, each option gets
\* the last value given under its name, and no option that of a name that merely
\* begins like its own.
ParsesDocumentedForm ==
  pc # "parse" =>
    /\ \A k \in Keys :
         LET given == {n \in DOMAIN pairs : pairs[n].name = OptionName[k]}
         IN  optval[k] = IF given = {} THEN Absent ELSE pairs[Max(given)].value
    /\ n_matches = Cardinality({n \in DOMAIN pairs : pairs[n].name \notin OtherNames})

\* ConninfoReadsBack: libpq reads from the connection string the values that went
\* into it, whatever quotes and backslashes a password contains.
ConninfoReadsBack ==
  pc = "done" =>
    LET end == conninfo_parse(conninfo)
    IN  end.mode = "name" /\ end.read = [k \in Keys |-> ValueOf(k)]

=============================================================================
