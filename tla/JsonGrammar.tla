----------------------------- MODULE JsonGrammar ----------------------------
(***************************************************************************)
(* The reference for Json: which token sequences are JSON texts, by the    *)
(* grammar of RFC 8259, and what a name of the outermost object is bound   *)
(* to, by position.  A span of a text is given by its first and last       *)
(* position; lists holds for the spans that are the elements of an array   *)
(* or the members of an object, and is a recursive function of them.       *)
(***************************************************************************)
EXTENDS Json, FiniteSets

Opening(kind) == IF kind = "object" THEN "{" ELSE "["
Closing(kind) == IF kind = "object" THEN "}" ELSE "]"

IsValue(s, lists, i, j) ==
  \/ i = j /\ s[i] \in Scalar
  \/ \E kind \in Composite :
       /\ i < j /\ s[i] = Opening(kind) /\ s[j] = Closing(kind)
       /\ j = i + 1 \/ lists[<<kind, i + 1, j - 1>>]

\* An element or a name and a value from i on; then nothing, or a comma and the rest.
IsList(s, lists, kind, i, j) ==
  LET first == IF kind = "object" THEN i + 2 ELSE i IN
    /\ kind = "object" => i < j /\ s[i] \in Word /\ s[i + 1] = ":"
    /\ \E k \in first .. j :
         /\ IsValue(s, lists, first, k)
         /\ k = j \/ (k + 1 < j /\ s[k + 1] = "," /\ lists[<<kind, k + 2, j>>])

Span(s) == Composite \X (1 .. Len(s)) \X (1 .. Len(s))

Lists(s) ==
  LET lists[x \in Span(s)] == IsList(s, lists, x[1], x[2], x[3]) IN lists

IsText(s) == s # <<>> /\ IsValue(s, Lists(s), 1, Len(s))

Depth(s, i) ==
  Cardinality({j \in 1 .. i : s[j] \in {"{", "["}})
    - Cardinality({j \in 1 .. i : s[j] \in {"}", "]"}})

\* Where n is a name of the outermost object.
Named(s, n) == {i \in 1 .. Len(s) - 2 : s[i] = n /\ s[i + 1] = ":" /\ Depth(s, i) = 1}

KindOf(t) == CASE t = "{" -> "object" [] t = "[" -> "array" [] OTHER -> t

\* The last of several members of one name counts.
Bound(s, n) ==
  LET i == CHOOSE i \in Named(s, n) : \A j \in Named(s, n) : j =< i
  IN KindOf(s[i + 2])

-----------------------------------------------------------------------------
\* The parser accepts exactly the JSON texts and binds a name to its last value.
AgreesOn(text) ==
  LET s == Parse(text) IN
    /\ Accepted(s) = IsText(text)
    /\ IsObject(s) =>
         \A n \in Word : /\ HasMember(s, n) = (Named(text, n) # {})
                         /\ HasMember(s, n) => s.members[n] = Bound(text, n)
=============================================================================
