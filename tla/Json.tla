-------------------------------- MODULE Json --------------------------------
(***************************************************************************)
(* What the frontend asks of its JSON library (json.hpp): the parser, an   *)
(* explicit stack of open arrays and objects driven by one token at a      *)
(* time, the members of the object it builds, and value(), which throws    *)
(* when a member has another type than its default.                        *)
(*                                                                         *)
(* Text is a sequence of tokens, as the lexer cuts it.  A string stands    *)
(* for itself, without its quotes; "{", "}", "[", "]", ":", "," for the    *)
(* punctuation; a token in none of these sets is one the lexer rejects.    *)
(***************************************************************************)
EXTENDS Integers, Sequences, SequencesExt

CONSTANTS Word, Number, Boolean  \* string, number and boolean tokens

Null == "null"
Scalar == Word \cup Number \cup Boolean \cup {Null}
Composite == {"object", "array"}

ASSUME JsonAssumption ==
  Scalar \cap ({"{", "}", "[", "]", ":", ","} \cup Composite) = {}

(* A parse: `at' says what the next token may be, `open' holds the kinds of  *)
(* the values under construction, `name' and `members' are the current key   *)
(* and the members of the outermost object, `root' is the kind of the text.  *)
Start == [at |-> "value", open |-> <<>>, name |-> Null, members |-> <<>>, root |-> Null]

Failed(s) == [s EXCEPT !.at = "error"]

With(members, name, v) ==
  [n \in DOMAIN members \cup {name} |-> IF n = name THEN v ELSE members[n]]

\* A value is complete: the text, an element, or the member under the last key.
Completed(s, v) ==
  CASE s.open = <<>>         -> [s EXCEPT !.at = "end", !.root = v]
    [] s.open = <<"object">> -> [s EXCEPT !.at = "after",
                                          !.members = With(@, s.name, v)]
    [] OTHER                 -> [s EXCEPT !.at = "after"]

Opened(s, kind) ==
  [s EXCEPT !.open = Append(@, kind),
            !.at = IF kind = "object" THEN "key or }" ELSE "value or ]"]

Closed(s) == Completed([s EXCEPT !.open = Front(@)], Last(s.open))

OnValue(s, t) ==
  CASE t = "{"       -> Opened(s, "object")
    [] t = "["       -> Opened(s, "array")
    [] t \in Scalar  -> Completed(s, t)
    [] OTHER         -> Failed(s)

\* Mutant: an object may end in a comma.
OnKeyOrEnd(s, t) ==
  CASE t = "}"     -> Closed(s)
    [] t \in Word  -> [s EXCEPT !.at = "colon", !.name = t]
    [] OTHER       -> Failed(s)

OnKey(s, t) ==
  IF t \in Word
  THEN [s EXCEPT !.at = "colon", !.name = IF Len(s.open) = 1 THEN t ELSE @]
  ELSE Failed(s)

\* After an element or a member: a comma, or the end of the innermost value.
AfterValue(s, t) ==
  LET kind == Last(s.open) IN
    CASE t = "," -> [s EXCEPT !.at = IF kind = "object" THEN "key" ELSE "value"]
      [] t = "]" /\ kind = "array"  -> Closed(s)
      [] t = "}" /\ kind = "object" -> Closed(s)
      [] OTHER -> Failed(s)

\* sax_parse_internal, one token on.  Past the end, strict mode allows none.
Feed(s, t) ==
  CASE s.at = "value"      -> OnValue(s, t)
    [] s.at = "value or ]" -> IF t = "]" THEN Closed(s) ELSE OnValue(s, t)
    [] s.at = "key or }"   -> IF t = "}" THEN Closed(s) ELSE OnKey(s, t)
    [] s.at = "key"        -> OnKey(s, t)
    [] s.at = "colon"      -> IF t = ":" THEN [s EXCEPT !.at = "value"] ELSE Failed(s)
    [] s.at = "after"      -> AfterValue(s, t)
    [] OTHER               -> Failed(s)

Parse(text) ==
  LET state[n \in 0 .. Len(text)] ==
        IF n = 0 THEN Start ELSE Feed(state[n - 1], text[n])
  IN state[Len(text)]

\* The value is not `discarded'.
Accepted(s) == s.at = "end"

\* Mutant: what is missing at the end is not missed.
IsObjectUnclosed(s) == s.at = "after" \/ (Accepted(s) /\ s.root = "object")

IsObject(s) == Accepted(s) /\ s.root = "object"

HasMember(s, n) == n \in DOMAIN s.members

\* value(n, ""): a member of another type throws.
Throws(s, n, types) == HasMember(s, n) /\ s.members[n] \notin types

Value(s, n, default) == IF HasMember(s, n) THEN s.members[n] ELSE default
=============================================================================
