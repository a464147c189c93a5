----------------------------- MODULE Json_proofs -----------------------------
(***************************************************************************)
(* The parser of Json against the grammar of JsonGrammar, for every text:  *)
(* what it accepts, and what it binds the names of an object to.           *)
(*                                                                         *)
(* Induction over a text is by the least counterexample (Least).           *)
(***************************************************************************)
EXTENDS JsonGrammar, SequenceTheorems, FiniteSetTheorems, WellFoundedInduction, TLAPS

LEMMA Least ==
  ASSUME NEW T \in SUBSET Nat, T # {}
  PROVE  \E n \in T : \A m \in T : n =< m
<1> DEFINE R == OpToRel(<, Nat)
<1>1. IsWellFoundedOn(R, Nat)
  BY NatLessThanWellFounded
<1>2. \A n \in Nat, m \in Nat : <<m, n>> \in R <=> m < n
  BY DEF OpToRel
<1> HIDE DEF R
<1>3. PICK n \in T : \A m \in T : ~ (<<m, n>> \in R)
  BY <1>1, WFMin
<1>4. ASSUME NEW m \in T PROVE n =< m
  <2>1. n \in Nat /\ m \in Nat /\ ~ (m < n)
    BY <1>2, <1>3
  <2> QED
    BY <2>1
<1> QED
  BY <1>4

-----------------------------------------------------------------------------
(* The parser takes one step per token. *)

\* f gives the parser's state after each of the first n tokens of text.
States(f, text, n) ==
  f = [i \in 0 .. n |-> IF i = 0 THEN Start ELSE Feed(f[i - 1], text[i])]

LEMMA StatesExist ==
  ASSUME NEW text, NEW k \in Nat
  PROVE  \E f : States(f, text, k)
<1> DEFINE T == {n \in Nat : ~ \E f : States(f, text, n)}
<1> SUFFICES ASSUME T # {} PROVE FALSE
  OBVIOUS
<1>1. PICK n \in T : \A m \in T : n =< m
  BY Least
<1>2. n # 0
  <2>1. States([i \in 0 .. 0 |-> Start], text, 0)
    BY DEF States
  <2> QED
    BY <2>1
<1>3. n - 1 \in Nat /\ n - 1 \notin T
  BY <1>1, <1>2
<1>4. PICK f : States(f, text, n - 1)
  BY <1>3
<1> DEFINE g == [i \in 0 .. n |-> IF i = n THEN Feed(f[n - 1], text[n]) ELSE f[i]]
<1>5. States(g, text, n)
  <2>1. ASSUME NEW i \in 0 .. n
        PROVE  g[i] = IF i = 0 THEN Start ELSE Feed(g[i - 1], text[i])
    <3>1. CASE i = n
      BY <1>2, <3>1
    <3>2. CASE i # n
      <4>1. i \in 0 .. n - 1 /\ g[i] = f[i] /\ (i # 0 => g[i - 1] = f[i - 1])
        BY <1>2, <3>2
      <4>2. f[i] = IF i = 0 THEN Start ELSE Feed(f[i - 1], text[i])
        BY <1>4, <4>1 DEF States
      <4> QED
        BY <4>1, <4>2
    <3> QED
      BY <3>1, <3>2
  <2>2. g = [i \in 0 .. n |-> g[i]]
    OBVIOUS
  <2> HIDE DEF g
  <2> QED
    BY <2>1, <2>2 DEF States
<1> QED
  BY <1>5

LEMMA ParseStates ==
  ASSUME NEW text, Len(text) \in Nat
  PROVE  \E f : States(f, text, Len(text)) /\ Parse(text) = f[Len(text)]
<1> DEFINE f == CHOOSE f : States(f, text, Len(text))
<1>1. States(f, text, Len(text))
  BY StatesExist
<1>2. Parse(text) = f[Len(text)]
  BY DEF Parse, States
<1> QED
  BY <1>1, <1>2

\* The states of a text pass through the result of parsing each beginning of it.
LEMMA ParseBeginning ==
  ASSUME NEW p, NEW text, NEW k \in Nat, NEW m \in Nat, k =< m, Len(p) = k, Len(text) = m,
         \A i \in 1 .. k : p[i] = text[i]
  PROVE  \E g : States(g, text, m) /\ Parse(text) = g[m] /\ Parse(p) = g[k]
<1>1. PICK f : States(f, p, k) /\ Parse(p) = f[k]
  BY ParseStates
<1>2. PICK g : States(g, text, m) /\ Parse(text) = g[m]
  BY ParseStates
<1> DEFINE T == {n \in 0 .. k : f[n] # g[n]}
<1>3. ASSUME T # {} PROVE FALSE
  <2>1. T \in SUBSET Nat
    OBVIOUS
  <2>2. PICK n \in T : \A i \in T : n =< i
    BY <1>3, <2>1, Least
  <2>3. n \in 0 .. k /\ n \in 0 .. m /\ (n # 0 => n \in 1 .. k)
    OBVIOUS
  <2>4. f[n] = (IF n = 0 THEN Start ELSE Feed(f[n - 1], p[n]))
    BY <1>1, <2>3 DEF States
  <2>5. g[n] = (IF n = 0 THEN Start ELSE Feed(g[n - 1], text[n]))
    BY <1>2, <2>3 DEF States
  <2>6. n # 0
    BY <2>4, <2>5
  <2>7. n - 1 \in 0 .. k /\ n - 1 \notin T /\ p[n] = text[n]
    BY <2>2, <2>3, <2>6
  <2> QED
    BY <2>4, <2>5, <2>6, <2>7
<1>4. f[k] = g[k]
  BY <1>3
<1> QED
  BY <1>1, <1>2, <1>4

-----------------------------------------------------------------------------
(* Half a text is none: past an accepted text the parser takes no token.   *)

Fielded(s) == DOMAIN s = {"at", "open", "name", "members", "root"}

LEMMA FeedFields ==
  ASSUME NEW s, NEW t, Fielded(s)
  PROVE  /\ Fielded(Feed(s, t))
         /\ s.at \in {"end", "error"} => Feed(s, t).at = "error"
<1>1. Fielded(Failed(s)) /\ Failed(s).at = "error"
  BY DEF Fielded, Failed
<1>2. \A r, v : Fielded(r) => Fielded(Completed(r, v))
  BY DEF Fielded, Completed
<1>3. Fielded(Closed(s))
  <2>1. Fielded([s EXCEPT !.open = Front(s.open)])
    BY DEF Fielded
  <2> QED
    BY <1>2, <2>1 DEF Closed
<1>4. Fielded(OnValue(s, t)) /\ Fielded(OnKey(s, t)) /\ Fielded(AfterValue(s, t))
  BY <1>1, <1>2, <1>3 DEF Fielded, OnValue, Opened, OnKey, AfterValue
<1>5. Fielded([s EXCEPT !.at = "value"])
  BY DEF Fielded
<1> QED
  BY <1>1, <1>3, <1>4, <1>5 DEF Feed

LEMMA StatesFielded ==
  ASSUME NEW text, NEW k \in Nat, NEW f, States(f, text, k), NEW i \in 0 .. k
  PROVE  Fielded(f[i])
<1> DEFINE T == {n \in 0 .. k : ~ Fielded(f[n])}
<1> SUFFICES ASSUME T # {} PROVE FALSE
  OBVIOUS
<1>1. PICK n \in T : \A m \in T : n =< m
  <2>1. T \in SUBSET Nat
    OBVIOUS
  <2> QED
    BY <2>1, Least
<1>2. f[n] = (IF n = 0 THEN Start ELSE Feed(f[n - 1], text[n]))
  BY DEF States
<1>3. n # 0
  BY <1>2 DEF Fielded, Start
<1>4. n - 1 \in 0 .. k /\ n - 1 \notin T
  BY <1>1, <1>3
<1> QED
  BY <1>2, <1>3, <1>4, FeedFields

\* A text that is accepted has no shorter beginning that is: whatever reply is cut
\* short, what is left of it is no value (json.hpp sax_parse_internal, strict).
THEOREM NoHalfText ==
  ASSUME NEW S, NEW text \in Seq(S), Accepted(Parse(text)), NEW k \in 0 .. Len(text) - 1
  PROVE  ~ Accepted(Parse(SubSeq(text, 1, k)))
<1> DEFINE p == SubSeq(text, 1, k)
           m == Len(text)
<1>1. m \in Nat /\ k \in Nat /\ k < m /\ k \in 0 .. m
  OBVIOUS
<1>2. Len(p) = k /\ \A i \in 1 .. k : p[i] = text[i]
  BY <1>1, ElementOfSeq, SubSeqProperties
<1> HIDE DEF p
<1> HIDE DEF m
<1>3. PICK g : States(g, text, m) /\ Parse(text) = g[m] /\ Parse(p) = g[k]
  <2>1. Len(text) = m
    BY DEF m
  <2> QED
    BY <1>1, <1>2, <2>1, ParseBeginning
<1> SUFFICES ASSUME g[k].at = "end" PROVE FALSE
  BY <1>3 DEF Accepted, p
<1>6. g[m].at = "end"
  BY <1>3 DEF Accepted
<1> DEFINE T == {n \in k + 1 .. m : g[n].at # "error"}
<1>7. T \in SUBSET Nat /\ m \in T
  BY <1>1, <1>6
<1>8. PICK n \in T : \A i \in T : n =< i
  BY <1>7, Least
<1>9. n - 1 \in k .. m /\ n \in 0 .. m /\ n - 1 \in 0 .. m /\ n # 0 /\ n - 1 \notin T
  BY <1>1, <1>8
<1>10. g[n - 1].at \in {"end", "error"}
  BY <1>1, <1>9
<1>11. g[n] = Feed(g[n - 1], text[n])
  BY <1>3, <1>9 DEF States
<1>12. Fielded(g[n - 1])
  BY <1>1, <1>3, <1>9, StatesFielded
<1> QED
  BY <1>8, <1>10, <1>11, <1>12, FeedFields

-----------------------------------------------------------------------------
(* One token. *)

\* What may be read first in an array or an object, and after a value.
Expecting(kind) == IF kind = "object" THEN "key or }" ELSE "value or ]"
After(open) == IF open = << >> THEN "end" ELSE "after"

\* The innermost value under construction is of the kind the parser is in.
Shaped(s) ==
  /\ Fielded(s) /\ s.open \in Seq(Composite)
  /\ s.at \in {"value or ]", "key or }", "key", "colon", "after"} => s.open # << >>
  /\ s.at = "value or ]" => Last(s.open) = "array"
  /\ s.at \in {"key or }", "key", "colon"} => Last(s.open) = "object"
  /\ s.at = "end" => s.open = << >>

LEMMA Tokens ==
  /\ \A t \in Scalar : t \notin {"{", "}", "[", "]", ":", ","} \cup Composite
  /\ Word \subseteq Scalar /\ Number \subseteq Scalar
BY JsonAssumption DEF Scalar

LEMMA Stack ==
  ASSUME NEW o \in Seq(Composite)
  PROVE  /\ \A k \in Composite : /\ Append(o, k) \in Seq(Composite) /\ Append(o, k) # << >>
                                 /\ Front(Append(o, k)) = o /\ Last(Append(o, k)) = k
                                 /\ Len(Append(o, k)) = Len(o) + 1
         /\ o # << >> => /\ Front(o) \in Seq(Composite) /\ Last(o) \in Composite
                         /\ o = Append(Front(o), Last(o))
<1>1. ASSUME NEW k \in Composite
      PROVE  /\ Append(o, k) \in Seq(Composite) /\ Append(o, k) # << >>
             /\ Front(Append(o, k)) = o /\ Last(Append(o, k)) = k
             /\ Len(Append(o, k)) = Len(o) + 1
  <2> DEFINE p == Append(o, k)
  <2>1. /\ p \in Seq(Composite) /\ p # << >> /\ Len(p) = Len(o) + 1 /\ p[Len(o) + 1] = k
        /\ \A i \in 1 .. Len(o) : p[i] = o[i]
    BY AppendProperties
  <2>2. Len(o) \in Nat
    BY LenProperties
  <2> HIDE DEF p
  <2>3. SubSeq(p, 1, Len(o)) \in Seq(Composite) /\ Len(SubSeq(p, 1, Len(o))) = Len(o)
        /\ \A i \in 1 .. Len(o) : SubSeq(p, 1, Len(o))[i] = o[i]
    <3>1. \A i \in 1 .. Len(o) : p[i] \in Composite
      BY <2>1, ElementOfSeq
    <3> QED
      BY <2>1, <2>2, <3>1, SubSeqProperties
  <2>4. SubSeq(p, 1, Len(o)) = o
    BY <2>3, SeqEqual
  <2> QED
    BY <2>1, <2>2, <2>4 DEF Front, Last, p
<1>2. ASSUME o # << >>
      PROVE  /\ Front(o) \in Seq(Composite) /\ Last(o) \in Composite
             /\ o = Append(Front(o), Last(o))
  <2>1. Len(o) \in Nat \ {0} /\ Last(o) \in Composite
    BY <1>2, EmptySeq, ElementOfSeq DEF Last
  <2>2. Front(o) \in Seq(Composite) /\ Len(Front(o)) = Len(o) - 1
        /\ \A i \in 1 .. Len(o) - 1 : Front(o)[i] = o[i]
    <3>1. \A i \in 1 .. Len(o) - 1 : o[i] \in Composite
      BY <2>1, ElementOfSeq
    <3>2. PICK n \in Nat : Len(o) - 1 = n
      BY <2>1
    <3> DEFINE q == SubSeq(o, 1, n)
    <3>3. \A i \in 1 .. n : o[i] \in Composite
      BY <3>1, <3>2
    <3>4. q \in Seq(Composite) /\ Len(q) = n /\ \A i \in 1 .. n : q[i] = o[i]
      BY <3>3, SubSeqProperties
    <3>5. Front(o) = q
      BY <3>2 DEF Front
    <3> QED
      BY <3>2, <3>4, <3>5
  <2> DEFINE q == Append(Front(o), Last(o))
  <2>3. q \in Seq(Composite) /\ Len(q) = Len(o) /\ \A i \in 1 .. Len(o) : q[i] = o[i]
    <3>1. q \in Seq(Composite) /\ Len(q) = Len(Front(o)) + 1 /\ q[Len(Front(o)) + 1] = Last(o)
          /\ \A i \in 1 .. Len(Front(o)) : q[i] = Front(o)[i]
      BY <2>1, <2>2, AppendProperties
    <3> QED
      BY <2>1, <2>2, <3>1 DEF Last
  <2> HIDE DEF q
  <2>4. q = o
    BY <2>3, SeqEqual
  <2> QED
    BY <2>1, <2>2, <2>4 DEF q
<1> QED
  BY <1>1, <1>2

\* What a token does in a state s that takes it, r being the next state.
Completes(s, r, open, v) ==
  /\ Fielded(r) /\ r.open = open /\ r.at = After(open) /\ r.name = s.name
  /\ r.root = IF open = << >> THEN v ELSE s.root
  /\ r.members = IF open = <<"object">> THEN With(s.members, s.name, v) ELSE s.members

Passes(s, r, at) ==
  /\ Fielded(r) /\ r.open = s.open /\ r.at = at /\ r.root = s.root /\ r.members = s.members

TakesScalar(s, t, r) ==
  s.at \in {"value", "value or ]"} /\ t \in Scalar /\ Completes(s, r, s.open, t)

Opens(s, t, r, kind) ==
  /\ s.at \in {"value", "value or ]"} /\ t = Opening(kind)
  /\ Fielded(r) /\ r.open = Append(s.open, kind) /\ r.at = Expecting(kind)
  /\ r.name = s.name /\ r.root = s.root /\ r.members = s.members

Closes(s, t, r, kind, o) ==
  /\ s.open = Append(o, kind) /\ t = Closing(kind) /\ s.at \in {Expecting(kind), "after"}
  /\ Completes(s, r, o, kind)

Names(s, t, r) ==
  /\ s.at \in {"key", "key or }"} /\ t \in Word /\ Passes(s, r, "colon")
  /\ r.name = IF Len(s.open) = 1 THEN t ELSE s.name

TakesColon(s, t, r) == s.at = "colon" /\ t = ":" /\ Passes(s, r, "value") /\ r.name = s.name

TakesComma(s, t, r) ==
  /\ s.at = "after" /\ t = ","
  /\ Passes(s, r, IF Last(s.open) = "object" THEN "key" ELSE "value") /\ r.name = s.name

LEMMA Marks ==
  /\ \A kind \in Composite :
       /\ Opening(kind) \in {"{", "["} /\ Closing(kind) \in {"}", "]"}
       /\ Closing(kind) = "}" <=> kind = "object"
       /\ Closing(kind) = "]" <=> kind = "array"
       /\ Expecting(kind) = "key or }" <=> kind = "object"
       /\ Expecting(kind) = "value or ]" <=> kind = "array"
BY DEF Opening, Closing, Expecting, Composite

LEMMA CompletedIs ==
  ASSUME NEW s, NEW v, Fielded(s)
  PROVE  Completes(s, Completed(s, v), s.open, v)
<1>0. <<"object">> # << >>
  OBVIOUS
<1>1. CASE s.open = << >>
  BY <1>0, <1>1 DEF Completed, Completes, Fielded, After
<1>2. CASE s.open = <<"object">>
  BY <1>0, <1>2 DEF Completed, Completes, Fielded, After
<1>3. CASE s.open # << >> /\ s.open # <<"object">>
  BY <1>3 DEF Completed, Completes, Fielded, After
<1> QED
  BY <1>1, <1>2, <1>3

LEMMA ClosedIs ==
  ASSUME NEW s, NEW kind \in Composite, NEW o \in Seq(Composite), Fielded(s),
         s.open = Append(o, kind)
  PROVE  Completes(s, Closed(s), o, kind)
<1> DEFINE q == [s EXCEPT !.open = Front(s.open)]
<1>1. Front(s.open) = o /\ Last(s.open) = kind
  BY Stack
<1>2. /\ Fielded(q) /\ q.open = o /\ q.name = s.name /\ q.root = s.root
      /\ q.members = s.members
  BY <1>1 DEF Fielded
<1>3. Closed(s) = Completed(q, kind)
  BY <1>1 DEF Closed
<1> HIDE DEF q
<1>4. Completes(q, Completed(q, kind), o, kind)
  BY <1>2, CompletedIs
<1> QED
  BY <1>2, <1>3, <1>4 DEF Completes

\* The tokens a state takes, and what each does.
LEMMA FeedIs ==
  ASSUME NEW s, NEW t, Shaped(s)
  PROVE  /\ s.at = "value" \/ (s.at = "value or ]" /\ t # "]") =>
              Feed(s, t) = OnValue(s, t)
         /\ s.at = "value or ]" /\ t = "]" => Feed(s, t) = Closed(s)
         /\ s.at = "key" \/ (s.at = "key or }" /\ t # "}") => Feed(s, t) = OnKey(s, t)
         /\ s.at = "key or }" /\ t = "}" => Feed(s, t) = Closed(s)
         /\ s.at = "colon" =>
              Feed(s, t) = IF t = ":" THEN [s EXCEPT !.at = "value"] ELSE Failed(s)
         /\ s.at = "after" => Feed(s, t) = AfterValue(s, t)
         /\ s.at \notin {"value", "value or ]", "key", "key or }", "colon", "after"} =>
              Feed(s, t) = Failed(s)
BY DEF Feed

LEMMA OnValueIs ==
  ASSUME NEW s, NEW t
  PROVE  /\ t \in Scalar => OnValue(s, t) = Completed(s, t)
         /\ \A kind \in Composite : t = Opening(kind) => OnValue(s, t) = Opened(s, kind)
         /\ t \notin Scalar /\ t # "{" /\ t # "[" => OnValue(s, t) = Failed(s)
BY Tokens DEF OnValue, Opening, Composite

LEMMA AfterValueIs ==
  ASSUME NEW s, NEW t
  PROVE  /\ t = "," => AfterValue(s, t) =
              [s EXCEPT !.at = IF Last(s.open) = "object" THEN "key" ELSE "value"]
         /\ \A kind \in Composite :
              Last(s.open) = kind /\ t = Closing(kind) => AfterValue(s, t) = Closed(s)
         /\ t # "," /\ (\A kind \in Composite : ~ (Last(s.open) = kind /\ t = Closing(kind)))
              => AfterValue(s, t) = Failed(s)
BY DEF AfterValue, Closing, Composite

LEMMA ScalarTaken ==
  ASSUME NEW s, NEW t \in Scalar, Shaped(s), s.at \in {"value", "value or ]"}
  PROVE  TakesScalar(s, t, Feed(s, t))
<1>1. Feed(s, t) = Completed(s, t)
  BY FeedIs, OnValueIs, Tokens
<1>2. Completes(s, Completed(s, t), s.open, t)
  BY CompletedIs DEF Shaped
<1> QED
  BY <1>1, <1>2 DEF TakesScalar

LEMMA OpeningTaken ==
  ASSUME NEW s, NEW kind \in Composite, Shaped(s), s.at \in {"value", "value or ]"}
  PROVE  Opens(s, Opening(kind), Feed(s, Opening(kind)), kind)
<1>1. Opening(kind) # "]"
  BY Marks
<1>2. Feed(s, Opening(kind)) = OnValue(s, Opening(kind))
  BY <1>1, FeedIs
<1>3. OnValue(s, Opening(kind)) = Opened(s, kind)
  BY OnValueIs
<1>4. Opens(s, Opening(kind), Opened(s, kind), kind)
  BY DEF Opens, Opened, Shaped, Fielded, Expecting
<1> QED
  BY <1>2, <1>3, <1>4

LEMMA ClosingTaken ==
  ASSUME NEW s, NEW kind \in Composite, NEW o \in Seq(Composite), Shaped(s),
         s.open = Append(o, kind), s.at \in {Expecting(kind), "after"}
  PROVE  Closes(s, Closing(kind), Feed(s, Closing(kind)), kind, o)
<1>1. Last(s.open) = kind /\ Fielded(s)
  BY Stack DEF Shaped
<1>2. ASSUME s.at = "after" PROVE Feed(s, Closing(kind)) = Closed(s)
  <2>1. Feed(s, Closing(kind)) = AfterValue(s, Closing(kind))
    BY <1>2, FeedIs
  <2>2. AfterValue(s, Closing(kind)) = Closed(s)
    BY <1>1, AfterValueIs
  <2> QED
    BY <2>1, <2>2
<1>3. ASSUME s.at = Expecting(kind) PROVE Feed(s, Closing(kind)) = Closed(s)
  BY <1>3, FeedIs DEF Expecting, Closing, Composite
<1>4. Feed(s, Closing(kind)) = Closed(s)
  BY <1>2, <1>3
<1>5. Completes(s, Closed(s), o, kind)
  BY <1>1, ClosedIs
<1> QED
  BY <1>4, <1>5 DEF Closes

LEMMA NameTaken ==
  ASSUME NEW s, NEW t \in Word, Shaped(s), s.at \in {"key", "key or }"}
  PROVE  Names(s, t, Feed(s, t))
<1>1. Feed(s, t) = [s EXCEPT !.at = "colon", !.name = IF Len(s.open) = 1 THEN t ELSE s.name]
  <2>1. Feed(s, t) = OnKey(s, t)
    BY FeedIs, Tokens
  <2> QED
    BY <2>1 DEF OnKey
<1> QED
  BY <1>1 DEF Names, Passes, Shaped, Fielded

LEMMA ColonTaken ==
  ASSUME NEW s, Shaped(s), s.at = "colon"
  PROVE  TakesColon(s, ":", Feed(s, ":"))
<1>1. Feed(s, ":") = [s EXCEPT !.at = "value"]
  BY FeedIs
<1> QED
  BY <1>1 DEF TakesColon, Passes, Shaped, Fielded

LEMMA CommaTaken ==
  ASSUME NEW s, Shaped(s), s.at = "after"
  PROVE  TakesComma(s, ",", Feed(s, ","))
<1> DEFINE at == IF Last(s.open) = "object" THEN "key" ELSE "value"
<1>1. Feed(s, ",") = [s EXCEPT !.at = at]
  <2>1. Feed(s, ",") = AfterValue(s, ",")
    BY FeedIs
  <2> QED
    BY <2>1, AfterValueIs
<1> HIDE DEF at
<1>2. LET r == [s EXCEPT !.at = at] IN Passes(s, r, at) /\ r.name = s.name
  BY DEF Passes, Shaped, Fielded
<1> QED
  BY <1>1, <1>2 DEF TakesComma, at

\* Any token either is taken in one of these ways or ends in an error.
Stepped(s, t, r) ==
  \/ r.at = "error" /\ Shaped(r)
  \/ TakesScalar(s, t, r)
  \/ \E kind \in Composite : Opens(s, t, r, kind)
  \/ \E kind \in Composite, o \in Seq(Composite) : Closes(s, t, r, kind, o)
  \/ Names(s, t, r)
  \/ TakesColon(s, t, r)
  \/ TakesComma(s, t, r)

LEMMA Steps ==
  ASSUME NEW s, NEW t, Shaped(s)
  PROVE  Stepped(s, t, Feed(s, t))
<1> USE DEF Stepped
<1>1. Failed(s).at = "error" /\ Shaped(Failed(s))
  BY DEF Failed, Shaped, Fielded
<1>2. ASSUME s.open # << >>
      PROVE  /\ Front(s.open) \in Seq(Composite) /\ Last(s.open) \in Composite
             /\ s.open = Append(Front(s.open), Last(s.open))
  BY <1>2, Stack DEF Shaped
<1>3. CASE s.at \in {"value", "value or ]"} /\ (s.at = "value or ]" => t # "]")
  <2>1. CASE t \in Scalar
    BY <1>3, <2>1, ScalarTaken
  <2>2. CASE \E kind \in Composite : t = Opening(kind)
    BY <1>3, <2>2, OpeningTaken
  <2>3. CASE t \notin Scalar /\ ~ \E kind \in Composite : t = Opening(kind)
    <3>1. t # "{" /\ t # "["
      BY <2>3 DEF Opening, Composite
    <3>2. Feed(s, t) = OnValue(s, t)
      BY <1>3, FeedIs
    <3>3. OnValue(s, t) = Failed(s)
      BY <2>3, <3>1, OnValueIs
    <3> QED
      BY <1>1, <3>2, <3>3
  <2> QED
    BY <2>1, <2>2, <2>3
<1>4. CASE s.at = "value or ]" /\ t = "]"
  <2>1. s.open = Append(Front(s.open), "array") /\ Front(s.open) \in Seq(Composite)
    BY <1>2, <1>4 DEF Shaped
  <2>2. "array" \in Composite /\ t = Closing("array") /\ s.at = Expecting("array")
    BY <1>4 DEF Composite, Closing, Expecting
  <2> QED
    BY <2>1, <2>2, ClosingTaken
<1>5. CASE s.at = "key or }" /\ t = "}"
  <2>1. s.open = Append(Front(s.open), "object") /\ Front(s.open) \in Seq(Composite)
    BY <1>2, <1>5 DEF Shaped
  <2>2. "object" \in Composite /\ t = Closing("object") /\ s.at = Expecting("object")
    BY <1>5 DEF Composite, Closing, Expecting
  <2> QED
    BY <2>1, <2>2, ClosingTaken
<1>6. CASE s.at \in {"key", "key or }"} /\ (s.at = "key or }" => t # "}")
  <2>1. CASE t \in Word
    BY <1>6, <2>1, NameTaken
  <2>2. CASE t \notin Word
    <3>1. Feed(s, t) = OnKey(s, t) /\ OnKey(s, t) = Failed(s)
      BY <1>6, <2>2, FeedIs DEF OnKey
    <3> QED
      BY <1>1, <3>1
  <2> QED
    BY <2>1, <2>2
<1>7. CASE s.at = "colon"
  BY <1>1, <1>7, FeedIs, ColonTaken
<1>8. CASE s.at = "after"
  <2>1. CASE t = ","
    BY <1>8, <2>1, CommaTaken
  <2>2. CASE t = Closing(Last(s.open))
    BY <1>2, <1>8, <2>2, ClosingTaken DEF Shaped
  <2>3. CASE t # "," /\ t # Closing(Last(s.open))
    <3>1. Feed(s, t) = AfterValue(s, t)
      BY <1>8, FeedIs
    <3>2. AfterValue(s, t) = Failed(s)
      BY <2>3, AfterValueIs
    <3> QED
      BY <1>1, <3>1, <3>2
  <2> QED
    BY <2>1, <2>2, <2>3
<1>9. CASE s.at \notin {"value", "value or ]", "key", "key or }", "colon", "after"}
  BY <1>1, <1>9, FeedIs
<1> QED
  BY <1>3, <1>4, <1>5, <1>6, <1>7, <1>8, <1>9

LEMMA ShapedStep ==
  ASSUME NEW s, NEW t, Shaped(s)
  PROVE  Shaped(Feed(s, t))
<1> DEFINE r == Feed(s, t)
<1>1. Stepped(s, t, r)
  BY Steps
<1> SUFFICES Shaped(r)
  OBVIOUS
<1> HIDE DEF r
<1>2. /\ s.open \in Seq(Composite)
      /\ \A k \in Composite : /\ Append(s.open, k) \in Seq(Composite)
                              /\ Append(s.open, k) # << >> /\ Last(Append(s.open, k)) = k
  BY Stack DEF Shaped
<1>3. CASE TakesScalar(s, t, r)
  BY <1>2, <1>3 DEF TakesScalar, Completes, After, Shaped
<1>4. CASE \E kind \in Composite : Opens(s, t, r, kind)
  BY <1>2, <1>4 DEF Opens, Expecting, Shaped, Composite
<1>5. CASE \E kind \in Composite, o \in Seq(Composite) : Closes(s, t, r, kind, o)
  BY <1>5 DEF Closes, Completes, After, Shaped
<1>6. CASE Names(s, t, r)
  BY <1>2, <1>6 DEF Names, Passes, Shaped
<1>7. CASE TakesColon(s, t, r)
  BY <1>2, <1>7 DEF TakesColon, Passes, Shaped
<1>8. CASE TakesComma(s, t, r)
  BY <1>2, <1>8 DEF TakesComma, Passes, Shaped
<1> QED
  BY <1>1, <1>3, <1>4, <1>5, <1>6, <1>7, <1>8 DEF Stepped

\* A parse of a text, state by state.
Parses(g, text) ==
  States(g, text, Len(text))

LEMMA StatesShaped ==
  ASSUME NEW S, NEW text \in Seq(S), NEW g, Parses(g, text)
  PROVE  /\ g[0] = Start
         /\ \A i \in 1 .. Len(text) : g[i] = Feed(g[i - 1], text[i])
         /\ \A i \in 0 .. Len(text) : Shaped(g[i])
<1> DEFINE T == {n \in 0 .. Len(text) : ~ Shaped(g[n])}
<1>1. Len(text) \in Nat
  OBVIOUS
<1>2. g[0] = Start
  BY <1>1 DEF Parses, States
<1>3. ASSUME NEW i \in 1 .. Len(text) PROVE g[i] = Feed(g[i - 1], text[i])
  BY <1>1, <1>3 DEF Parses, States
<1>4. Shaped(Start)
  BY EmptySeq DEF Shaped, Start, Fielded
<1>5. ASSUME T # {} PROVE FALSE
  <2>1. T \in SUBSET Nat
    BY <1>1
  <2>2. PICK n \in T : \A m \in T : n =< m
    BY <1>5, <2>1, Least
  <2>3. n # 0 /\ n \in 1 .. Len(text)
    BY <1>1, <1>2, <1>4
  <2>4. n - 1 \in 0 .. Len(text) /\ n - 1 \notin T
    BY <1>1, <2>2, <2>3
  <2> QED
    BY <1>3, <2>3, <2>4, ShapedStep
<1> QED
  BY <1>2, <1>3, <1>5

\* After the end of the text or an error every token is one.
LEMMA EndIsLast ==
  ASSUME NEW S, NEW text \in Seq(S), NEW g, Parses(g, text),
         NEW i \in 1 .. Len(text), g[i - 1].at \in {"end", "error"}
  PROVE  g[Len(text)].at = "error"
<1> DEFINE T == {n \in i .. Len(text) : g[n].at # "error"}
<1>1. Len(text) \in Nat
  OBVIOUS
<1> SUFFICES ASSUME T # {} PROVE FALSE
  BY <1>1
<1>2. PICK n \in T : \A m \in T : n =< m
  <2>1. T \in SUBSET Nat
    BY <1>1
  <2> QED
    BY <2>1, Least
<1>3. n \in i .. Len(text) /\ n - 1 \in 0 .. Len(text) /\ n - 1 \notin T
  BY <1>1, <1>2
<1>4. g[n - 1].at \in {"end", "error"}
  BY <1>1, <1>3
<1>5. g[n] = Feed(g[n - 1], text[n]) /\ Shaped(g[n - 1])
  BY <1>1, <1>3, StatesShaped
<1>6. Feed(g[n - 1], text[n]).at = "error"
  BY <1>4, <1>5, FeedFields DEF Shaped
<1> QED
  BY <1>5, <1>6

-----------------------------------------------------------------------------
(* The grammar's spans are those its rules give. *)

LEMMA SameValue ==
  ASSUME NEW S, NEW text \in Seq(S), NEW f, NEW h,
         NEW i \in 1 .. Len(text), NEW j \in 1 .. Len(text),
         \A y \in Span(text) : y[3] - y[2] < j - i => f[y] = h[y]
  PROVE  IsValue(text, f, i, j) <=> IsValue(text, h, i, j)
<1>1. ASSUME NEW kind \in Composite, i < j, j # i + 1
      PROVE  f[<<kind, i + 1, j - 1>>] = h[<<kind, i + 1, j - 1>>]
  <2> DEFINE y == <<kind, i + 1, j - 1>>
  <2>1. Len(text) \in Nat
    OBVIOUS
  <2>2. y \in Span(text) /\ y[3] - y[2] < j - i
    BY <1>1, <2>1 DEF Span
  <2> QED
    BY <2>2
<1> QED
  BY <1>1 DEF IsValue

LEMMA SameList ==
  ASSUME NEW S, NEW text \in Seq(S), NEW f, NEW h,
         NEW kind \in Composite, NEW i \in 1 .. Len(text), NEW j \in 1 .. Len(text),
         \A y \in Span(text) : y[3] - y[2] < j - i => f[y] = h[y]
  PROVE  IsList(text, f, kind, i, j) = IsList(text, h, kind, i, j)
<1> DEFINE first == IF kind = "object" THEN i + 2 ELSE i
<1>1. Len(text) \in Nat /\ first \in Nat /\ i =< first
  OBVIOUS
<1>2. ASSUME NEW k \in first .. j
      PROVE  IsValue(text, f, first, k) <=> IsValue(text, h, first, k)
  <2>1. first \in 1 .. Len(text) /\ k \in 1 .. Len(text)
    BY <1>1, <1>2
  <2>2. \A y \in Span(text) : y[3] - y[2] < k - first => f[y] = h[y]
    <3>1. ASSUME NEW y \in Span(text), y[3] - y[2] < k - first PROVE f[y] = h[y]
      <4>1. y[3] \in Nat /\ y[2] \in Nat
        BY <1>1 DEF Span
      <4>2. y[3] - y[2] < j - i
        BY <1>1, <1>2, <3>1, <4>1
      <4> QED
        BY <4>2
    <3> QED
      BY <3>1
  <2> HIDE DEF first
  <2> QED
    BY <2>1, <2>2, SameValue
<1>3. ASSUME NEW k \in first .. j, k + 1 < j
      PROVE  f[<<kind, k + 2, j>>] = h[<<kind, k + 2, j>>]
  <2> DEFINE y == <<kind, k + 2, j>>
  <2>2. y \in Span(text) /\ y[3] - y[2] < j - i
    BY <1>1, <1>3 DEF Span
  <2> QED
    BY <2>2
<1>4. IsList(text, f, kind, i, j) <=> IsList(text, h, kind, i, j)
  BY <1>2, <1>3 DEF IsList
<1>5. IsList(text, f, kind, i, j) \in BOOLEAN /\ IsList(text, h, kind, i, j) \in BOOLEAN
  BY DEF IsList
<1> QED
  BY <1>4, <1>5

LEMMA ListsAre ==
  ASSUME NEW S, NEW text \in Seq(S), NEW kind \in Composite,
         NEW i \in 1 .. Len(text), NEW j \in 1 .. Len(text)
  PROVE  Lists(text)[<<kind, i, j>>] <=> IsList(text, Lists(text), kind, i, j)
<1> DEFINE m == Len(text)
           Upto(f, n) == \A x \in Span(text) : x[3] - x[2] + m < n =>
                            f[x] = IsList(text, f, x[1], x[2], x[3])
           T == {n \in Nat : ~ \E f : Upto(f, n)}
<1>1. m \in Nat /\ \A x \in Span(text) :
        x = <<x[1], x[2], x[3]>> /\ x[1] \in Composite /\ x[2] \in 1 .. m /\ x[3] \in 1 .. m
  BY DEF Span
<1> HIDE DEF m
<1>2. ASSUME NEW f, NEW h, NEW x \in Span(text),
             \A y \in Span(text) : y[3] - y[2] < x[3] - x[2] => f[y] = h[y]
      PROVE  IsList(text, f, x[1], x[2], x[3]) = IsList(text, h, x[1], x[2], x[3])
  <2>1. PICK a \in Composite, b \in 1 .. Len(text), c \in 1 .. Len(text) :
           a = x[1] /\ b = x[2] /\ c = x[3]
    BY <1>1 DEF m
  <2>2. \A y \in Span(text) : y[3] - y[2] < c - b => f[y] = h[y]
    BY <1>2, <2>1
  <2>3. IsList(text, f, a, b, c) = IsList(text, h, a, b, c)
    BY <2>2, SameList
  <2> QED
    BY <2>1, <2>3
<1>3. ASSUME T # {} PROVE FALSE
  <2>1. T \in SUBSET Nat
    OBVIOUS
  <2>2. PICK n \in T : \A k \in T : n =< k
    BY <1>3, <2>1, Least
  <2>3. n # 0
    <3>1. ASSUME NEW f PROVE Upto(f, 0)
      <4>1. ASSUME NEW x \in Span(text) PROVE ~ (x[3] - x[2] + m < 0)
        <5>1. x[2] \in 1 .. m /\ x[3] \in 1 .. m
          BY <1>1
        <5>2. \A a \in 1 .. m, b \in 1 .. m : ~ (b - a + m < 0)
          BY <1>1
        <5> QED
          BY <5>1, <5>2
      <4> QED
        BY <4>1
    <3> QED
      BY <3>1
  <2>4. n - 1 \in Nat /\ n - 1 \notin T
    BY <2>2, <2>3
  <2>5. PICK f : Upto(f, n - 1)
    BY <2>4
  <2> DEFINE h == [x \in Span(text) |-> IsList(text, f, x[1], x[2], x[3])]
  <2>6. ASSUME NEW x \in Span(text), x[3] - x[2] + m < n
        PROVE  h[x] = IsList(text, h, x[1], x[2], x[3])
    <3>1. ASSUME NEW y \in Span(text), y[3] - y[2] < x[3] - x[2] PROVE f[y] = h[y]
      <4>1. y[3] - y[2] + m < n - 1
        <5>1. /\ x[2] \in 1 .. m /\ x[3] \in 1 .. m /\ y[2] \in 1 .. m /\ y[3] \in 1 .. m
              /\ n \in Nat /\ m \in Nat
          BY <1>1
        <5>2. x[3] - x[2] + m < n /\ y[3] - y[2] < x[3] - x[2]
          BY <2>6, <3>1
        <5> QED
          BY <5>1, <5>2
      <4> QED
        BY <2>5, <4>1
    <3>2. h[x] = IsList(text, f, x[1], x[2], x[3])
      OBVIOUS
    <3> HIDE DEF h
    <3> QED
      BY <1>2, <3>1, <3>2
  <2>7. Upto(h, n)
    BY <2>6
  <2> QED
    BY <2>7
<1>4. PICK f : Upto(f, 2 * m)
  <2>1. 2 * m \in Nat /\ 2 * m \notin T
    BY <1>1, <1>3
  <2> QED
    BY <2>1
<1>5. ASSUME NEW x \in Span(text) PROVE f[x] = IsList(text, f, x[1], x[2], x[3])
  <2>1. x[3] - x[2] + m < 2 * m
    BY <1>1
  <2> QED
    BY <1>4, <2>1
<1> DEFINE h == [x \in Span(text) |-> f[x]]
           Fix(l) == l = [x \in Span(text) |-> IsList(text, l, x[1], x[2], x[3])]
<1>6. Fix(h)
  <2>1. ASSUME NEW x \in Span(text)
        PROVE  h[x] = IsList(text, h, x[1], x[2], x[3])
    <3>1. \A y \in Span(text) : f[y] = h[y]
      OBVIOUS
    <3> HIDE DEF h
    <3> QED
      BY <1>2, <1>5, <3>1
  <2>2. h = [x \in Span(text) |-> h[x]]
    OBVIOUS
  <2> HIDE DEF h
  <2> QED
    BY <2>1, <2>2
<1> HIDE DEF h
<1> DEFINE l == CHOOSE l : Fix(l)
<1>7. Fix(l)
  BY <1>6
<1>8. Lists(text) = l
  BY DEF Lists
<1> HIDE DEF l
<1>9. <<kind, i, j>> \in Span(text)
  BY DEF Span
<1>10. l[<<kind, i, j>>] = IsList(text, l, kind, i, j)
  BY <1>7, <1>9
<1> QED
  BY <1>8, <1>10

-----------------------------------------------------------------------------
(* What the grammar has is accepted. *)

At(s, at, open) == s.at \in at /\ s.open = open

Values == {"value", "value or ]"}

\* Ready for an element or a member of the innermost value under construction.
Readies(kind) == IF kind = "object" THEN {"key", "key or }"} ELSE Values
ReadyFor(s, kind, o) == At(s, Readies(kind), Append(o, kind))

\* From such a state the span is read, and the value still open.
ListRead(g, kind, i, j) ==
  \A o \in Seq(Composite) :
    ReadyFor(g[i - 1], kind, o) => At(g[j], {"after"}, Append(o, kind))

LEMMA ScalarRead ==
  ASSUME NEW s, NEW t \in Scalar, NEW o, Shaped(s), At(s, Values, o)
  PROVE  At(Feed(s, t), {After(o)}, o)
BY ScalarTaken DEF TakesScalar, Completes, At, Values

LEMMA OpeningRead ==
  ASSUME NEW s, NEW kind \in Composite, NEW o, Shaped(s), At(s, Values, o)
  PROVE  At(Feed(s, Opening(kind)), {Expecting(kind)}, Append(o, kind))
BY OpeningTaken DEF Opens, At, Values

LEMMA ClosingRead ==
  ASSUME NEW s, NEW kind \in Composite, NEW o \in Seq(Composite), Shaped(s),
         At(s, {Expecting(kind), "after"}, Append(o, kind))
  PROVE  At(Feed(s, Closing(kind)), {After(o)}, o)
BY ClosingTaken DEF Closes, Completes, At

LEMMA NameRead ==
  ASSUME NEW s, NEW t \in Word, NEW o, Shaped(s), At(s, {"key", "key or }"}, o)
  PROVE  At(Feed(s, t), {"colon"}, o)
BY NameTaken DEF Names, Passes, At

LEMMA ColonRead ==
  ASSUME NEW s, NEW o, Shaped(s), At(s, {"colon"}, o)
  PROVE  At(Feed(s, ":"), Values, o)
BY ColonTaken DEF TakesColon, Passes, At, Values

LEMMA CommaRead ==
  ASSUME NEW s, NEW kind \in Composite, NEW o \in Seq(Composite), Shaped(s),
         At(s, {"after"}, Append(o, kind))
  PROVE  ReadyFor(Feed(s, ","), kind, o)
<1>1. TakesComma(s, ",", Feed(s, ",")) /\ Last(s.open) = kind
  BY CommaTaken, Stack DEF At
<1> QED
  BY <1>1 DEF TakesComma, Passes, ReadyFor, Readies, Values, At

LEMMA ValueRead ==
  ASSUME NEW S, NEW text \in Seq(S), NEW g, Parses(g, text), NEW lists,
         NEW i \in 1 .. Len(text), NEW j \in 1 .. Len(text), NEW o \in Seq(Composite),
         IsValue(text, lists, i, j), At(g[i - 1], Values, o),
         \A kind \in Composite : i + 1 =< j - 1 /\ lists[<<kind, i + 1, j - 1>>]
                                   => ListRead(g, kind, i + 1, j - 1)
  PROVE  At(g[j], {After(o)}, o)
<1>1. /\ Len(text) \in Nat /\ i - 1 \in 0 .. Len(text) /\ j - 1 \in 0 .. Len(text)
      /\ i \in 0 .. Len(text)
  OBVIOUS
<1>2. /\ g[i] = Feed(g[i - 1], text[i]) /\ g[j] = Feed(g[j - 1], text[j])
      /\ Shaped(g[i - 1]) /\ Shaped(g[i]) /\ Shaped(g[j - 1])
  BY <1>1, StatesShaped
<1>3. CASE i = j /\ text[i] \in Scalar
  BY <1>2, <1>3, ScalarRead
<1>4. ASSUME NEW kind \in Composite, i < j, text[i] = Opening(kind), text[j] = Closing(kind),
             j = i + 1 \/ lists[<<kind, i + 1, j - 1>>]
      PROVE  At(g[j], {After(o)}, o)
  <2>1. At(g[i], {Expecting(kind)}, Append(o, kind))
    BY <1>2, <1>4, OpeningRead
  <2>2. At(g[j - 1], {Expecting(kind), "after"}, Append(o, kind))
    <3>1. CASE j = i + 1
      <4>1. j - 1 = i
        BY <1>1, <3>1
      <4> QED
        BY <2>1, <4>1 DEF At
    <3>2. CASE j # i + 1
      <4>1. i + 1 =< j - 1 /\ (i + 1) - 1 = i
        BY <1>1, <1>4, <3>2
      <4>2. ListRead(g, kind, i + 1, j - 1)
        BY <1>4, <3>2, <4>1
      <4>3. ReadyFor(g[i], kind, o)
        BY <2>1 DEF ReadyFor, Readies, Expecting, At, Values
      <4>4. At(g[j - 1], {"after"}, Append(o, kind))
        BY <4>1, <4>2, <4>3 DEF ListRead
      <4> QED
        BY <4>4 DEF At
    <3> QED
      BY <3>1, <3>2
  <2> QED
    BY <1>2, <1>4, <2>2, ClosingRead
<1> QED
  BY <1>3, <1>4 DEF IsValue

LEMMA FirstRead ==
  ASSUME NEW S, NEW text \in Seq(S), NEW g, Parses(g, text), NEW kind \in Composite,
         NEW o \in Seq(Composite), NEW i \in 1 .. Len(text), ReadyFor(g[i - 1], kind, o),
         kind = "object" => i + 1 \in 1 .. Len(text) /\ text[i] \in Word /\ text[i + 1] = ":"
  PROVE  At(g[(IF kind = "object" THEN i + 2 ELSE i) - 1], Values, Append(o, kind))
<1>1. Len(text) \in Nat /\ i - 1 \in 0 .. Len(text) /\ i \in 0 .. Len(text)
  OBVIOUS
<1>2. CASE kind # "object"
  BY <1>2 DEF ReadyFor, Readies
<1>3. CASE kind = "object"
  <2>1. /\ g[i] = Feed(g[i - 1], text[i]) /\ g[i + 1] = Feed(g[(i + 1) - 1], text[i + 1])
        /\ Shaped(g[i - 1]) /\ Shaped(g[i]) /\ (i + 1) - 1 = i /\ (i + 2) - 1 = i + 1
    BY <1>1, <1>3, StatesShaped
  <2>2. At(g[i - 1], {"key", "key or }"}, Append(o, kind))
    BY <1>3 DEF ReadyFor, Readies
  <2>3. At(g[i], {"colon"}, Append(o, kind))
    BY <1>3, <2>1, <2>2, NameRead
  <2>4. At(g[i + 1], Values, Append(o, kind))
    BY <1>3, <2>1, <2>3, ColonRead
  <2> QED
    BY <1>3, <2>1, <2>4
<1> QED
  BY <1>2, <1>3

LEMMA ListsRead ==
  ASSUME NEW S, NEW text \in Seq(S), NEW g, Parses(g, text), NEW kind \in Composite,
         NEW i \in 1 .. Len(text), NEW j \in 1 .. Len(text), Lists(text)[<<kind, i, j>>]
  PROVE  ListRead(g, kind, i, j)
<1> DEFINE L == Lists(text)
           m == Len(text)
           Bad(n, k, a, b) == b - a = n /\ L[<<k, a, b>>] /\ ~ ListRead(g, k, a, b)
           Some(n) == \E k \in Composite, a \in 1 .. m, b \in 1 .. m : Bad(n, k, a, b)
           T == {n \in Nat : Some(n)}
<1>1. m \in Nat /\ Len(text) = m /\ i \in 1 .. m /\ j \in 1 .. m
  OBVIOUS
<1> HIDE DEF m
<1>2. ASSUME NEW k \in Composite, NEW a \in 1 .. m, NEW b \in 1 .. m, L[<<k, a, b>>]
      PROVE  IsList(text, L, k, a, b) /\ b - a \in Nat
  <2>1. IsList(text, L, k, a, b)
    BY <1>1, <1>2, ListsAre
  <2>2. a =< b
    <3>1. a \in Nat /\ b \in Nat
      BY <1>1
    <3>2. \E e \in (IF k = "object" THEN a + 2 ELSE a) .. b : TRUE
      BY <2>1 DEF IsList
    <3> QED
      BY <3>1, <3>2
  <2> QED
    BY <1>1, <2>1, <2>2
<1> HIDE DEF L
<1> HIDE DEF Some
<1>3. ASSUME T # {} PROVE FALSE
  <2>1. PICK n \in T : \A l \in T : n =< l
    <3>1. T \in SUBSET Nat
      OBVIOUS
    <3> QED
      BY <1>3, <3>1, Least
  <2>2. PICK k \in Composite, a \in 1 .. m, b \in 1 .. m : Bad(n, k, a, b)
    BY <2>1 DEF Some
  <2>3. PICK o \in Seq(Composite) :
           ReadyFor(g[a - 1], k, o) /\ ~ At(g[b], {"after"}, Append(o, k))
    BY <2>2 DEF ListRead
  <2>4. ASSUME NEW l \in Composite, NEW c \in 1 .. m, NEW d \in 1 .. m, L[<<l, c, d>>],
               d - c < b - a
        PROVE  ListRead(g, l, c, d)
    <3>1. d - c \in Nat /\ b - a = n /\ n \in Nat
      BY <1>2, <2>1, <2>2, <2>4
    <3>2. ~ Some(d - c)
      BY <2>1, <2>4, <3>1
    <3> QED
      BY <2>4, <3>2 DEF Some
  <2>5. IsList(text, L, k, a, b)
    BY <1>2, <2>2
  <2>6. n \in Nat /\ a \in Nat /\ b \in Nat /\ b =< m
    BY <1>1
  <2> HIDE DEF T, Bad
  <2> DEFINE first == IF k = "object" THEN a + 2 ELSE a
  <2>7. PICK e \in first .. b : /\ IsValue(text, L, first, e)
                                /\ e = b \/ (e + 1 < b /\ text[e + 1] = "," /\ L[<<k, e + 2, b>>])
    BY <2>5 DEF IsList
  <2>8. At(g[first - 1], Values, Append(o, k))
    <3>1. k = "object" => a < b /\ text[a] \in Word /\ text[a + 1] = ":"
      BY <2>5 DEF IsList
    <3>2. a < b => a + 1 \in 1 .. m
      BY <1>1
    <3> QED
      BY <1>1, <2>3, <3>1, <3>2, FirstRead
  <2>9. first \in 1 .. m /\ e \in 1 .. m /\ a =< first /\ first =< e /\ e =< b /\ e \in Nat
    <3>1. first \in Nat /\ a =< first
      BY <2>6
    <3> HIDE DEF first
    <3> QED
      BY <1>1, <2>6, <3>1
  <2> HIDE DEF first
  <2>10. ASSUME NEW l \in Composite, first + 1 =< e - 1, L[<<l, first + 1, e - 1>>]
         PROVE  ListRead(g, l, first + 1, e - 1)
    <3>1. first + 1 \in 1 .. m /\ e - 1 \in 1 .. m /\ (e - 1) - (first + 1) < b - a
      BY <1>1, <2>6, <2>9, <2>10
    <3> QED
      BY <2>4, <2>10, <3>1
  <2>11. At(g[e], {"after"}, Append(o, k))
    <3>1. first \in 1 .. Len(text) /\ e \in 1 .. Len(text)
      BY <1>1, <2>9
    <3>2. \A l \in Composite : first + 1 =< e - 1 /\ L[<<l, first + 1, e - 1>>]
                                 => ListRead(g, l, first + 1, e - 1)
      BY <2>10
    <3>3. Append(o, k) \in Seq(Composite) /\ After(Append(o, k)) = "after"
      BY Stack DEF After
    <3>4. At(g[e], {After(Append(o, k))}, Append(o, k))
      BY <2>7, <2>8, <3>1, <3>2, <3>3, ValueRead
    <3> QED
      BY <3>3, <3>4
  <2>12. CASE e = b
    BY <2>3, <2>11, <2>12
  <2>13. CASE e + 1 < b /\ text[e + 1] = "," /\ L[<<k, e + 2, b>>]
    <3>1. e + 1 \in 1 .. m /\ e + 2 \in 1 .. m /\ (e + 1) - 1 = e /\ (e + 2) - 1 = e + 1
          /\ e \in 0 .. m /\ b - (e + 2) < b - a
      <4>1. e + 1 < b
        BY <2>13
      <4> QED
        BY <1>1, <2>6, <2>9, <4>1
    <3>2. g[e + 1] = Feed(g[e], ",") /\ Shaped(g[e])
      <4>1. e + 1 \in 1 .. Len(text) /\ e \in 0 .. Len(text)
        BY <1>1, <3>1
      <4>2. g[e + 1] = Feed(g[(e + 1) - 1], text[e + 1]) /\ Shaped(g[e])
        BY <4>1, StatesShaped
      <4> QED
        BY <2>13, <3>1, <4>2
    <3>3. ReadyFor(g[e + 1], k, o)
      BY <2>11, <3>2, CommaRead
    <3>4. ListRead(g, k, e + 2, b)
      BY <2>4, <2>13, <3>1
    <3> QED
      BY <2>3, <3>1, <3>3, <3>4 DEF ListRead
  <2> QED
    BY <2>7, <2>12, <2>13
<1>4. j - i \in Nat /\ j - i \notin T
  BY <1>1, <1>2, <1>3 DEF L
<1>5. ~ Some(j - i)
  BY <1>4
<1> QED
  BY <1>1, <1>5 DEF L, Some

-----------------------------------------------------------------------------
(* What is accepted the grammar has. *)

\* The state takes the token, and not as the end of an empty array or object.
Starts(s, t, o) == At(s, Values, o) /\ (s.at = "value or ]" => t # "]")

MayStart(s, t, kind, o) ==
  ReadyFor(s, kind, o) /\ (s.at = Expecting(kind) => t # Closing(kind))

ListFound(g, text, kind, i, o) ==
  \E j \in i .. Len(text) - 1 :
    /\ Lists(text)[<<kind, i, j>>] /\ At(g[j], {"after"}, Append(o, kind))
    /\ text[j + 1] = Closing(kind)

Goes(s) == s.at \notin {"end", "error"}

LEMMA NotFailed ==
  ASSUME NEW S, NEW text \in Seq(S), NEW g, Parses(g, text), Accepted(g[Len(text)]),
         NEW i \in 0 .. Len(text) - 1
  PROVE  Goes(g[i])
<1>1. i + 1 \in 1 .. Len(text) /\ (i + 1) - 1 = i
  OBVIOUS
<1> SUFFICES ASSUME g[i].at \in {"end", "error"} PROVE FALSE
  BY DEF Goes
<1>2. g[Len(text)].at = "error"
  BY <1>1, EndIsLast
<1> QED
  BY <1>2 DEF Accepted

LEMMA NoError ==
  ASSUME NEW S, NEW text \in Seq(S), NEW g, Parses(g, text), Accepted(g[Len(text)]),
         NEW i \in 0 .. Len(text)
  PROVE  g[i].at # "error"
<1>1. CASE i = Len(text)
  BY <1>1 DEF Accepted
<1>2. CASE i # Len(text)
  <2>1. i \in 0 .. Len(text) - 1
    BY <1>2
  <2> QED
    BY <2>1, NotFailed DEF Goes
<1> QED
  BY <1>1, <1>2

LEMMA FailedAt == ASSUME NEW s, Shaped(s) PROVE Failed(s).at = "error"
BY DEF Failed, Shaped, Fielded

LEMMA ValueStarts ==
  ASSUME NEW s, NEW t, NEW o, Shaped(s), Starts(s, t, o), Feed(s, t).at # "error"
  PROVE  t \in Scalar \/ \E kind \in Composite : t = Opening(kind)
<1> SUFFICES ASSUME t \notin Scalar, \A kind \in Composite : t # Opening(kind) PROVE FALSE
  OBVIOUS
<1>1. t # "{" /\ t # "["
  BY DEF Opening, Composite
<1>2. Feed(s, t) = OnValue(s, t)
  BY FeedIs DEF Starts, At, Values
<1>3. OnValue(s, t) = Failed(s)
  BY <1>1, OnValueIs
<1> QED
  BY <1>2, <1>3, FailedAt

LEMMA ListGoesOn ==
  ASSUME NEW s, NEW t, NEW kind \in Composite, NEW o \in Seq(Composite), Shaped(s),
         At(s, {"after"}, Append(o, kind)), Feed(s, t).at # "error"
  PROVE  t = "," \/ t = Closing(kind)
<1> SUFFICES ASSUME t # ",", t # Closing(kind) PROVE FALSE
  OBVIOUS
<1>1. Last(s.open) = kind
  BY Stack DEF At
<1>2. Feed(s, t) = AfterValue(s, t)
  BY FeedIs DEF At
<1>3. AfterValue(s, t) = Failed(s)
  BY <1>1, AfterValueIs
<1> QED
  BY <1>2, <1>3, FailedAt

LEMMA MemberStarts ==
  ASSUME NEW s, NEW t, NEW o, Shaped(s), MayStart(s, t, "object", o), Feed(s, t).at # "error"
  PROVE  t \in Word
<1> SUFFICES ASSUME t \notin Word PROVE FALSE
  OBVIOUS
<1>1. s.at = "key" \/ (s.at = "key or }" /\ t # "}")
  BY DEF MayStart, ReadyFor, Readies, At, Expecting, Closing
<1>2. Feed(s, t) = OnKey(s, t)
  BY <1>1, FeedIs
<1>3. OnKey(s, t) = Failed(s)
  BY DEF OnKey
<1> QED
  BY <1>2, <1>3, FailedAt

LEMMA ColonFollows ==
  ASSUME NEW s, NEW t, NEW o, Shaped(s), At(s, {"colon"}, o), Feed(s, t).at # "error"
  PROVE  t = ":" /\ At(Feed(s, t), {"value"}, o)
<1>1. ASSUME t # ":" PROVE FALSE
  <2>1. s.at = "colon"
    BY DEF At
  <2>2. Feed(s, t) = Failed(s)
    BY <1>1, <2>1, FeedIs
  <2> QED
    BY <2>2, FailedAt
<1>2. TakesColon(s, ":", Feed(s, ":"))
  BY ColonTaken DEF At
<1> QED
  BY <1>1, <1>2 DEF TakesColon, Passes, At

LEMMA CommaStarts ==
  ASSUME NEW s, NEW t, NEW kind \in Composite, NEW o \in Seq(Composite), Shaped(s),
         At(s, {"after"}, Append(o, kind))
  PROVE  MayStart(Feed(s, ","), t, kind, o)
<1>1. TakesComma(s, ",", Feed(s, ",")) /\ Last(s.open) = kind
  BY CommaTaken, Stack DEF At
<1>2. ReadyFor(Feed(s, ","), kind, o)
  BY CommaRead
<1> QED
  BY <1>1, <1>2 DEF TakesComma, Passes, MayStart, Expecting

LEMMA ValueFound ==
  ASSUME NEW S, NEW text \in Seq(S), NEW g, Parses(g, text), Accepted(g[Len(text)]),
         NEW i \in 1 .. Len(text), NEW o \in Seq(Composite), Starts(g[i - 1], text[i], o),
         \A kind \in Composite :
           i + 1 \in 1 .. Len(text) /\ MayStart(g[i], text[i + 1], kind, o)
             => ListFound(g, text, kind, i + 1, o)
  PROVE  \E j \in i .. Len(text) :
           IsValue(text, Lists(text), i, j) /\ At(g[j], {After(o)}, o)
<1> DEFINE m == Len(text)
           L == Lists(text)
<1>1. /\ m \in Nat /\ Len(text) = m /\ i - 1 \in 0 .. m /\ i \in 0 .. m /\ i \in 1 .. m
      /\ i \in Nat /\ i =< m
  OBVIOUS
<1> HIDE DEF m
<1>2. /\ g[i] = Feed(g[i - 1], text[i]) /\ Shaped(g[i - 1]) /\ Shaped(g[i])
      /\ g[i].at # "error"
  BY <1>1, StatesShaped, NoError
<1>3. CASE text[i] \in Scalar
  <2>1. At(g[i], {After(o)}, o)
    BY <1>2, <1>3, ScalarRead DEF Starts
  <2>2. IsValue(text, L, i, i)
    BY <1>3 DEF IsValue
  <2>3. i \in i .. m
    BY <1>1
  <2> QED
    BY <1>1, <2>1, <2>2, <2>3
<1>4. ASSUME NEW kind \in Composite, text[i] = Opening(kind)
      PROVE  \E j \in i .. m : IsValue(text, L, i, j) /\ At(g[j], {After(o)}, o)
  <2>1. At(g[i], {Expecting(kind)}, Append(o, kind))
    BY <1>2, <1>4, OpeningRead DEF Starts
  <2>2. i < m
    <3>1. ~ Accepted(g[i])
      BY <2>1 DEF At, Accepted, Expecting
    <3>2. i # m
      BY <1>1, <3>1
    <3> QED
      BY <1>1, <3>2
  <2>3. CASE text[i + 1] = Closing(kind)
    <3>1. i + 1 \in 1 .. m /\ i + 1 \in i .. m /\ (i + 1) - 1 = i /\ i < i + 1
      BY <1>1, <2>2
    <3>2. g[i + 1] = Feed(g[(i + 1) - 1], text[i + 1])
      BY <1>1, <3>1, StatesShaped
    <3>3. At(g[i], {Expecting(kind), "after"}, Append(o, kind))
      BY <2>1 DEF At
    <3>4. At(g[i + 1], {After(o)}, o)
      BY <1>2, <2>3, <3>1, <3>2, <3>3, ClosingRead
    <3>5. IsValue(text, L, i, i + 1)
      BY <1>4, <2>3, <3>1 DEF IsValue
    <3> QED
      BY <3>1, <3>4, <3>5
  <2>4. CASE text[i + 1] # Closing(kind)
    <3>1. i + 1 \in 1 .. m
      BY <1>1, <2>2
    <3>2. MayStart(g[i], text[i + 1], kind, o)
      BY <2>1, <2>4 DEF MayStart, ReadyFor, Readies, Expecting, At, Values
    <3>3. PICK j \in i + 1 .. m - 1 :
             /\ L[<<kind, i + 1, j>>] /\ At(g[j], {"after"}, Append(o, kind))
             /\ text[j + 1] = Closing(kind)
      BY <1>1, <3>1, <3>2 DEF ListFound
    <3>4. /\ j + 1 \in 1 .. m /\ j + 1 \in i .. m /\ (j + 1) - 1 = j /\ i < j + 1
          /\ j \in 0 .. m
      BY <1>1, <2>2
    <3>5. g[j + 1] = Feed(g[(j + 1) - 1], text[j + 1]) /\ Shaped(g[j])
      BY <1>1, <3>4, StatesShaped
    <3>6. At(g[j], {Expecting(kind), "after"}, Append(o, kind))
      BY <3>3 DEF At
    <3>7. At(g[j + 1], {After(o)}, o)
      BY <3>3, <3>4, <3>5, <3>6, ClosingRead
    <3>8. IsValue(text, L, i, j + 1)
      BY <1>4, <3>3, <3>4 DEF IsValue
    <3> QED
      BY <3>4, <3>7, <3>8
  <2> QED
    BY <2>3, <2>4
<1>5. text[i] \in Scalar \/ \E kind \in Composite : text[i] = Opening(kind)
  BY <1>2, ValueStarts
<1> QED
  BY <1>1, <1>3, <1>4, <1>5

LEMMA FirstFound ==
  ASSUME NEW S, NEW text \in Seq(S), NEW g, Parses(g, text), Accepted(g[Len(text)]),
         NEW i \in 1 .. Len(text), NEW kind \in Composite, NEW o \in Seq(Composite),
         MayStart(g[i - 1], text[i], kind, o)
  PROVE  \E first \in 1 .. Len(text) :
           /\ first = IF kind = "object" THEN i + 2 ELSE i
           /\ Starts(g[first - 1], text[first], Append(o, kind))
           /\ kind = "object" => text[i] \in Word /\ text[i + 1] = ":"
<1>1. Len(text) \in Nat /\ i - 1 \in 0 .. Len(text) /\ i \in 0 .. Len(text)
  OBVIOUS
<1>2. /\ g[i] = Feed(g[i - 1], text[i]) /\ Shaped(g[i - 1]) /\ Shaped(g[i])
      /\ g[i].at # "error"
  BY <1>1, StatesShaped, NoError
<1>3. CASE kind = "array"
  <2>1. Starts(g[i - 1], text[i], Append(o, kind))
    BY <1>3 DEF MayStart, ReadyFor, Readies, Expecting, Closing, Starts
  <2> QED
    BY <1>3, <2>1
<1>4. CASE kind = "object"
  <2>1. text[i] \in Word
    BY <1>2, <1>4, MemberStarts
  <2>2. At(g[i - 1], {"key", "key or }"}, Append(o, kind))
    BY <1>4 DEF MayStart, ReadyFor, Readies
  <2>3. At(g[i], {"colon"}, Append(o, kind))
    BY <1>2, <2>1, <2>2, NameRead
  <2>4. i # Len(text)
    BY <2>3 DEF At, Accepted
  <2>5. i + 1 \in 1 .. Len(text) /\ (i + 1) - 1 = i /\ i + 1 \in 0 .. Len(text)
    BY <1>1, <2>4
  <2>6. g[i + 1] = Feed(g[(i + 1) - 1], text[i + 1]) /\ g[i + 1].at # "error"
    BY <2>5, StatesShaped, NoError
  <2>7. text[i + 1] = ":" /\ At(g[i + 1], {"value"}, Append(o, kind))
    BY <1>2, <2>3, <2>5, <2>6, ColonFollows
  <2>8. i + 1 # Len(text)
    BY <2>7 DEF At, Accepted
  <2>9. i + 2 \in 1 .. Len(text) /\ (i + 2) - 1 = i + 1
    BY <1>1, <2>4, <2>8
  <2>10. Starts(g[i + 1], text[i + 2], Append(o, kind))
    BY <2>7 DEF Starts, At, Values
  <2> QED
    BY <1>4, <2>1, <2>7, <2>9, <2>10
<1> QED
  BY <1>3, <1>4 DEF Composite

LEMMA ListsFound ==
  ASSUME NEW S, NEW text \in Seq(S), NEW g, Parses(g, text), Accepted(g[Len(text)]),
         NEW i \in 1 .. Len(text), NEW kind \in Composite, NEW o \in Seq(Composite),
         MayStart(g[i - 1], text[i], kind, o)
  PROVE  ListFound(g, text, kind, i, o)
<1> DEFINE m == Len(text)
           L == Lists(text)
           Bad(n, k, a, p) ==
             n = m - a /\ MayStart(g[a - 1], text[a], k, p) /\ ~ ListFound(g, text, k, a, p)
           Some(n) == \E k \in Composite, a \in 1 .. m, p \in Seq(Composite) : Bad(n, k, a, p)
           T == {n \in Nat : Some(n)}
<1>1. m \in Nat /\ Len(text) = m /\ i \in 1 .. m
  OBVIOUS
<1> HIDE DEF m
<1>2. \A a \in 1 .. m : m - a \in Nat
  BY <1>1
<1> HIDE DEF Some
<1>3. ASSUME T # {} PROVE FALSE
  <2>1. PICK n \in T : \A l \in T : n =< l
    <3>1. T \in SUBSET Nat
      OBVIOUS
    <3> QED
      BY <1>3, <3>1, Least
  <2>2. PICK k \in Composite, a \in 1 .. m, p \in Seq(Composite) : Bad(n, k, a, p)
    BY <2>1 DEF Some
  <2>3. a \in Nat /\ a =< m /\ n = m - a /\ n \in Nat
    BY <1>1, <2>2
  <2>4. ASSUME NEW l \in Composite, NEW c \in 1 .. m, NEW q \in Seq(Composite), a < c,
               MayStart(g[c - 1], text[c], l, q)
        PROVE  ListFound(g, text, l, c, q)
    <3>1. m - c \in Nat /\ m - c < n
      BY <1>1, <2>3, <2>4
    <3>2. ~ Some(m - c)
      BY <2>1, <2>3, <3>1
    <3> QED
      BY <2>4, <3>2 DEF Some
  <2>5. MayStart(g[a - 1], text[a], k, p) /\ ~ ListFound(g, text, k, a, p)
    BY <2>2
  <2> HIDE DEF T, Bad
  <2>6. PICK first \in 1 .. m :
           /\ first = IF k = "object" THEN a + 2 ELSE a
           /\ Starts(g[first - 1], text[first], Append(p, k))
           /\ k = "object" => text[a] \in Word /\ text[a + 1] = ":"
    BY <1>1, <2>5, FirstFound
  <2>7. first \in Nat /\ a =< first /\ first =< m /\ (k = "object" => first = a + 2)
        /\ first \in 0 .. m /\ first - 1 \in 0 .. m
    BY <1>1, <2>3, <2>6
  <2>8. Append(p, k) \in Seq(Composite) /\ After(Append(p, k)) = "after"
    BY Stack DEF After
  <2>9. ASSUME NEW l \in Composite,
               first + 1 \in 1 .. m /\ MayStart(g[first], text[first + 1], l, Append(p, k))
        PROVE  ListFound(g, text, l, first + 1, Append(p, k))
    <3>1. a < first + 1 /\ (first + 1) - 1 = first
      BY <2>3, <2>7
    <3> QED
      BY <2>4, <2>8, <2>9, <3>1
  <2>10. PICK e \in first .. m :
           IsValue(text, L, first, e) /\ At(g[e], {"after"}, Append(p, k))
    <3>1. \A l \in Composite :
             first + 1 \in 1 .. Len(text) /\ MayStart(g[first], text[first + 1], l, Append(p, k))
               => ListFound(g, text, l, first + 1, Append(p, k))
      BY <1>1, <2>9
    <3>2. first \in 1 .. Len(text) /\ Starts(g[first - 1], text[first], Append(p, k))
      BY <1>1, <2>6
    <3> HIDE DEF L
    <3>3. \E e \in first .. Len(text) :
             IsValue(text, Lists(text), first, e)
               /\ At(g[e], {After(Append(p, k))}, Append(p, k))
      BY <2>8, <3>1, <3>2, ValueFound
    <3> QED
      BY <1>1, <2>8, <3>3 DEF L
  <2> HIDE DEF L
  <2>11. e \in Nat /\ first =< e /\ a =< e /\ e =< m /\ e \in 0 .. m
    BY <1>1, <2>3, <2>7
  <2>12. e # m
    <3>1. g[e].at = "after" /\ g[m].at = "end"
      BY <1>1, <2>10 DEF At, Accepted
    <3> QED
      BY <3>1
  <2>13. e + 1 \in 1 .. m /\ (e + 1) - 1 = e /\ e + 1 \in 0 .. m /\ e \in a .. m - 1
         /\ e \in 1 .. m
    BY <1>1, <2>11, <2>12
  <2>14. g[e + 1] = Feed(g[e], text[e + 1]) /\ Shaped(g[e]) /\ g[e + 1].at # "error"
    <3>1. e + 1 \in 1 .. Len(text) /\ e + 1 \in 0 .. Len(text) /\ e \in 0 .. Len(text)
      BY <1>1, <2>11, <2>13
    <3>2. g[e + 1] = Feed(g[(e + 1) - 1], text[e + 1]) /\ Shaped(g[e])
      BY <3>1, StatesShaped
    <3>3. g[e + 1].at # "error"
      BY <3>1, NoError
    <3> QED
      BY <2>13, <3>2, <3>3
  <2>15. ASSUME NEW j \in 1 .. m, e =< j,
                j = e \/ (e + 1 < j /\ text[e + 1] = "," /\ L[<<k, e + 2, j>>])
         PROVE  L[<<k, a, j>>]
    <3>1. j \in Nat /\ e \in first .. j /\ (k = "object" => a < j)
      <4>1. e =< j
        BY <2>15
      <4>2. j \in Nat
        BY <1>1
      <4> QED
        BY <2>3, <2>7, <2>11, <4>1, <4>2
    <3>2. IsList(text, L, k, a, j)
      BY <2>6, <2>10, <2>15, <3>1 DEF IsList
    <3>3. a \in 1 .. Len(text) /\ j \in 1 .. Len(text)
      BY <1>1
    <3> QED
      BY <3>2, <3>3, ListsAre DEF L
  <2>16. CASE text[e + 1] = Closing(k)
    <3>1. L[<<k, a, e>>]
      <4>1. e \in 1 .. m /\ e =< e
        BY <2>11, <2>13
      <4> QED
        BY <2>15, <4>1
    <3>2. e \in a .. Len(text) - 1
      BY <1>1, <2>13
    <3>3. ListFound(g, text, k, a, p)
      BY <2>10, <2>16, <3>1, <3>2 DEF ListFound, L
    <3> QED
      BY <2>5, <3>3
  <2>17. CASE text[e + 1] = ","
    <3>1. MayStart(g[e + 1], text[e + 2], k, p)
      BY <2>10, <2>14, <2>17, CommaStarts
    <3>2. e + 1 # m
      <4>1. g[e + 1].at # "end"
        BY <3>1 DEF MayStart, ReadyFor, At, Readies, Values
      <4>2. g[m].at = "end"
        BY <1>1 DEF Accepted
      <4> QED
        BY <4>1, <4>2
    <3>3. e + 2 \in 1 .. m /\ a < e + 2 /\ (e + 2) - 1 = e + 1
      BY <1>1, <2>3, <2>11, <2>13, <3>2
    <3>4. ListFound(g, text, k, e + 2, p)
      BY <2>4, <3>1, <3>3
    <3>5. PICK j \in e + 2 .. m - 1 :
             /\ L[<<k, e + 2, j>>] /\ At(g[j], {"after"}, Append(p, k))
             /\ text[j + 1] = Closing(k)
      BY <1>1, <3>4 DEF ListFound, L
    <3>6. j \in 1 .. m /\ e =< j /\ e + 1 < j /\ j \in a .. m - 1
      BY <1>1, <2>11, <2>3
    <3>7. L[<<k, a, j>>]
      BY <2>15, <2>17, <3>5, <3>6
    <3>8. j \in a .. Len(text) - 1
      BY <1>1, <3>6
    <3>9. ListFound(g, text, k, a, p)
      BY <3>5, <3>7, <3>8 DEF ListFound, L
    <3> QED
      BY <2>5, <3>9
  <2>18. text[e + 1] = "," \/ text[e + 1] = Closing(k)
    BY <2>10, <2>14, ListGoesOn
  <2> QED
    BY <2>16, <2>17, <2>18
<1>4. ~ Some(m - i)
  BY <1>2, <1>1, <1>3
<1> QED
  BY <1>1, <1>4 DEF Some

-----------------------------------------------------------------------------
(* A parse of an accepted text, and of a text of the grammar. *)

LEMMA Beginning ==
  ASSUME NEW t
  PROVE  /\ At(Start, Values, << >>) /\ Starts(Start, t, << >>)
         /\ << >> \in Seq(Composite) /\ After(<< >>) = "end"
BY EmptySeq DEF At, Start, Values, Starts, After

LEMMA AcceptedIsText ==
  ASSUME NEW S, NEW text \in Seq(S), NEW g, Parses(g, text), Accepted(g[Len(text)])
  PROVE  IsText(text)
<1>1. Len(text) \in Nat /\ g[0] = Start
  BY StatesShaped
<1>2. Len(text) # 0
  BY <1>1 DEF Accepted, Start
<1>3. 1 \in 1 .. Len(text) /\ 1 - 1 = 0 /\ text # << >>
  BY <1>1, <1>2, EmptySeq
<1>4. Starts(g[1 - 1], text[1], << >>) /\ << >> \in Seq(Composite) /\ After(<< >>) = "end"
  BY <1>1, <1>3, Beginning
<1>5. ASSUME NEW kind \in Composite,
             1 + 1 \in 1 .. Len(text) /\ MayStart(g[1], text[1 + 1], kind, << >>)
      PROVE  ListFound(g, text, kind, 1 + 1, << >>)
  <2>1. (1 + 1) - 1 = 1
    OBVIOUS
  <2> QED
    BY <1>4, <1>5, <2>1, ListsFound
<1>6. \E j \in 1 .. Len(text) :
         IsValue(text, Lists(text), 1, j) /\ At(g[j], {After(<< >>)}, << >>)
  <2>1. \A kind \in Composite :
           1 + 1 \in 1 .. Len(text) /\ MayStart(g[1], text[1 + 1], kind, << >>)
             => ListFound(g, text, kind, 1 + 1, << >>)
    BY <1>5
  <2> QED
    BY <1>3, <1>4, <2>1, ValueFound
<1>7. PICK j \in 1 .. Len(text) : IsValue(text, Lists(text), 1, j) /\ At(g[j], {"end"}, << >>)
  BY <1>4, <1>6
<1>8. j = Len(text)
  <2> SUFFICES ASSUME j # Len(text) PROVE FALSE
    OBVIOUS
  <2>1. j \in 0 .. Len(text) - 1
    BY <1>1
  <2>2. Goes(g[j])
    BY <2>1, NotFailed
  <2> QED
    BY <1>7, <2>2 DEF Goes, At
<1> QED
  BY <1>3, <1>7, <1>8 DEF IsText

LEMMA TextIsAccepted ==
  ASSUME NEW S, NEW text \in Seq(S), NEW g, Parses(g, text), IsText(text)
  PROVE  Accepted(g[Len(text)])
<1>1. Len(text) \in Nat /\ g[0] = Start
  BY StatesShaped
<1>2. 1 \in 1 .. Len(text) /\ 1 - 1 = 0 /\ Len(text) \in 1 .. Len(text)
  BY <1>1, EmptySeq DEF IsText
<1>3. At(g[1 - 1], Values, << >>) /\ << >> \in Seq(Composite) /\ After(<< >>) = "end"
  BY <1>1, <1>2, Beginning
<1>4. IsValue(text, Lists(text), 1, Len(text))
  BY DEF IsText
<1>5. ASSUME NEW kind \in Composite, 1 + 1 =< Len(text) - 1,
             Lists(text)[<<kind, 1 + 1, Len(text) - 1>>]
      PROVE  ListRead(g, kind, 1 + 1, Len(text) - 1)
  <2>1. 1 + 1 \in 1 .. Len(text) /\ Len(text) - 1 \in 1 .. Len(text)
    BY <1>1, <1>5
  <2> QED
    BY <1>5, <2>1, ListsRead
<1>6. At(g[Len(text)], {After(<< >>)}, << >>)
  <2>1. \A kind \in Composite :
           1 + 1 =< Len(text) - 1 /\ Lists(text)[<<kind, 1 + 1, Len(text) - 1>>]
             => ListRead(g, kind, 1 + 1, Len(text) - 1)
    BY <1>5
  <2> QED
    BY <1>2, <1>3, <1>4, <2>1, ValueRead
<1> QED
  BY <1>3, <1>6 DEF At, Accepted

\* The parser accepts exactly the JSON texts: every text of RFC 8259's grammar, and
\* nothing else (json.hpp, sax_parse_internal with strict).
THEOREM ParserExact ==
  ASSUME NEW S, NEW text \in Seq(S)
  PROVE  Accepted(Parse(text)) <=> IsText(text)
<1>1. PICK g : States(g, text, Len(text)) /\ Parse(text) = g[Len(text)]
  <2>1. Len(text) \in Nat
    OBVIOUS
  <2> QED
    BY <2>1, ParseStates
<1>2. Parses(g, text)
  BY <1>1 DEF Parses
<1> QED
  BY <1>1, <1>2, AcceptedIsText, TextIsAccepted

-----------------------------------------------------------------------------
(* How deep a position lies, and how many values are open there. *)

Count(text, M, n) == Cardinality({j \in 1 .. n : text[j] \in M})

LEMMA Counted ==
  ASSUME NEW text, NEW M, NEW n \in Nat
  PROVE  /\ Count(text, M, 0) = 0 /\ Count(text, M, n) \in Nat
         /\ Count(text, M, n + 1) = Count(text, M, n) + IF text[n + 1] \in M THEN 1 ELSE 0
<1> DEFINE Of(k) == {j \in 1 .. k : text[j] \in M}
<1>1. Of(0) = {} /\ Cardinality({}) = 0
  BY FS_EmptySet
<1>2. IsFiniteSet(Of(n)) /\ Cardinality(Of(n)) \in Nat
  <2>1. IsFiniteSet(1 .. n)
    BY FS_Interval
  <2>2. Of(n) \in SUBSET (1 .. n)
    OBVIOUS
  <2> HIDE DEF Of
  <2>3. IsFiniteSet(Of(n))
    BY <2>1, <2>2, FS_Subset
  <2> QED
    BY <2>3, FS_CardinalityType
<1>3. Cardinality(Of(n + 1)) = Cardinality(Of(n)) + IF text[n + 1] \in M THEN 1 ELSE 0
  <2>1. CASE text[n + 1] \in M
    <3>1. Of(n + 1) = Of(n) \cup {n + 1} /\ n + 1 \notin Of(n)
      BY <2>1
    <3> HIDE DEF Of
    <3> QED
      BY <1>2, <2>1, <3>1, FS_AddElement
  <2>2. CASE text[n + 1] \notin M
    <3>1. Of(n + 1) = Of(n)
      BY <2>2
    <3> HIDE DEF Of
    <3> QED
      BY <1>2, <2>2, <3>1
  <2> QED
    BY <2>1, <2>2
<1>4. \A k : Count(text, M, k) = Cardinality(Of(k))
  BY DEF Count
<1> HIDE DEF Of
<1>5. Count(text, M, 0) = 0 /\ Count(text, M, n) \in Nat
  BY <1>1, <1>2, <1>4
<1>6. Count(text, M, n + 1) = Count(text, M, n) + IF text[n + 1] \in M THEN 1 ELSE 0
  BY <1>3, <1>4
<1> QED
  BY <1>5, <1>6

Openers == {"{", "["}
Closers == {"}", "]"}
Nests(t) == IF t \in Openers THEN 1 ELSE IF t \in Closers THEN 0 - 1 ELSE 0

LEMMA NestsIs ==
  /\ \A t \in Openers : Nests(t) = 1
  /\ \A t \in Closers : Nests(t) = 0 - 1
  /\ \A t : t \notin Openers /\ t \notin Closers => Nests(t) = 0
  /\ \A kind \in Composite : Opening(kind) \in Openers /\ Closing(kind) \in Closers
  /\ \A t \in Scalar \cup {":", ","} : t \notin Openers /\ t \notin Closers
<1>1. \A t : ~ (t \in Openers /\ t \in Closers)
  BY DEF Openers, Closers
<1>2. \A kind \in Composite : Opening(kind) \in Openers /\ Closing(kind) \in Closers
  BY DEF Opening, Closing, Openers, Closers
<1>3. \A t \in Scalar \cup {":", ","} : t \notin Openers /\ t \notin Closers
  BY Tokens DEF Openers, Closers
<1> QED
  BY <1>1, <1>2, <1>3 DEF Nests

LEMMA DepthStep ==
  ASSUME NEW text, NEW n \in Nat
  PROVE  /\ Depth(text, 0) = 0 /\ Depth(text, n) \in Int
         /\ Depth(text, n + 1) = Depth(text, n) + Nests(text[n + 1])
<1> DEFINE A(k) == Count(text, Openers, k)
           B(k) == Count(text, Closers, k)
           t == text[n + 1]
<1>1. Depth(text, 0) = A(0) - B(0) /\ Depth(text, n) = A(n) - B(n)
      /\ Depth(text, n + 1) = A(n + 1) - B(n + 1)
  BY DEF Depth, Count, Openers, Closers
<1>2. A(0) = 0 /\ A(n) \in Nat /\ A(n + 1) = A(n) + IF t \in Openers THEN 1 ELSE 0
  <2> HIDE DEF A
  <2> QED
    BY Counted DEF A
<1>3. B(0) = 0 /\ B(n) \in Nat /\ B(n + 1) = B(n) + IF t \in Closers THEN 1 ELSE 0
  <2> HIDE DEF B
  <2> QED
    BY Counted DEF B
<1> HIDE DEF A, B, t
<1>4. ~ (t \in Openers /\ t \in Closers)
  BY DEF Openers, Closers
<1>5. Nests(t) = (IF t \in Openers THEN 1 ELSE 0) - (IF t \in Closers THEN 1 ELSE 0)
  BY <1>4 DEF Nests
<1>6. Depth(text, n + 1) = Depth(text, n) + Nests(t)
  BY <1>1, <1>2, <1>3, <1>5
<1> QED
  BY <1>1, <1>2, <1>3, <1>6 DEF t

LEMMA OpenStep ==
  ASSUME NEW s, NEW t, NEW r, Shaped(s), Stepped(s, t, r), r.at # "error"
  PROVE  Len(r.open) = Len(s.open) + Nests(t)
<1>1. s.open \in Seq(Composite)
  BY DEF Shaped
<1>2. Len(s.open) \in Nat
  BY <1>1, LenProperties
<1>3. ASSUME r.open = s.open, Nests(t) = 0 PROVE Len(r.open) = Len(s.open) + Nests(t)
  BY <1>2, <1>3
<1>4. CASE TakesScalar(s, t, r)
  BY <1>3, <1>4, NestsIs DEF TakesScalar, Completes
<1>5. ASSUME NEW kind \in Composite, Opens(s, t, r, kind)
      PROVE  Len(r.open) = Len(s.open) + Nests(t)
  <2>1. t = Opening(kind) /\ r.open = Append(s.open, kind)
    BY <1>5 DEF Opens
  <2>2. Nests(t) = 1 /\ Len(r.open) = Len(s.open) + 1
    BY <1>1, <2>1, NestsIs, Stack
  <2> QED
    BY <2>2
<1>6. ASSUME NEW kind \in Composite, NEW o \in Seq(Composite), Closes(s, t, r, kind, o)
      PROVE  Len(r.open) = Len(s.open) + Nests(t)
  <2>1. t = Closing(kind) /\ r.open = o /\ s.open = Append(o, kind)
    BY <1>6 DEF Closes, Completes
  <2>2. Nests(t) = 0 - 1 /\ Len(s.open) = Len(o) + 1
    BY <2>1, NestsIs, Stack
  <2>3. Len(o) \in Nat
    BY LenProperties
  <2> QED
    BY <2>1, <2>2, <2>3
<1>7. CASE Names(s, t, r)
  BY <1>3, <1>7, NestsIs, Tokens DEF Names, Passes
<1>8. CASE TakesColon(s, t, r) \/ TakesComma(s, t, r)
  BY <1>3, <1>8, NestsIs DEF TakesColon, TakesComma, Passes
<1> QED
  BY <1>4, <1>5, <1>6, <1>7, <1>8 DEF Stepped

\* The steps of the parse of an accepted text.
LEMMA Stepping ==
  ASSUME NEW S, NEW text \in Seq(S), NEW g, Parses(g, text), Accepted(g[Len(text)]),
         NEW i \in 0 .. Len(text) - 1
  PROVE  /\ Shaped(g[i]) /\ Stepped(g[i], text[i + 1], g[i + 1]) /\ Goes(g[i])
         /\ g[i + 1].at # "error"
<1>1. /\ i + 1 \in 1 .. Len(text) /\ (i + 1) - 1 = i /\ i \in 0 .. Len(text)
      /\ i + 1 \in 0 .. Len(text)
  OBVIOUS
<1>2. g[i + 1] = Feed(g[i], text[i + 1]) /\ Shaped(g[i])
  <2>1. g[i + 1] = Feed(g[(i + 1) - 1], text[i + 1]) /\ Shaped(g[i])
    BY <1>1, StatesShaped
  <2> QED
    BY <1>1, <2>1
<1>3. g[i + 1].at # "error"
  BY <1>1, NoError
<1> QED
  BY <1>2, <1>3, Steps, NotFailed

LEMMA DepthIs ==
  ASSUME NEW S, NEW text \in Seq(S), NEW g, Parses(g, text), Accepted(g[Len(text)]),
         NEW i \in 0 .. Len(text)
  PROVE  Len(g[i].open) = Depth(text, i)
<1> DEFINE m == Len(text)
           Fits(n) == Len(g[n].open) = Depth(text, n)
           T == {n \in 0 .. m : ~ Fits(n)}
<1>1. m \in Nat
  OBVIOUS
<1>2. Fits(0)
  <2>1. g[0] = Start /\ Depth(text, 0) = 0
    BY StatesShaped, DepthStep
  <2> QED
    BY <2>1, EmptySeq DEF Start
<1>3. ASSUME NEW n \in 0 .. m - 1, Fits(n) PROVE Fits(n + 1)
  <2>1. Shaped(g[n]) /\ Stepped(g[n], text[n + 1], g[n + 1]) /\ g[n + 1].at # "error"
    BY Stepping
  <2>2. Len(g[n + 1].open) = Len(g[n].open) + Nests(text[n + 1])
    BY <2>1, OpenStep
  <2>3. n \in Nat
    BY <1>1
  <2>4. Depth(text, n + 1) = Depth(text, n) + Nests(text[n + 1])
    BY <2>3, DepthStep
  <2> QED
    BY <1>3, <2>2, <2>4
<1> HIDE DEF m, Fits
<1>4. ASSUME T # {} PROVE FALSE
  <2>1. T \in SUBSET Nat
    BY <1>1
  <2>2. PICK n \in T : \A l \in T : n =< l
    BY <1>4, <2>1, Least
  <2>3. n - 1 \in 0 .. m - 1 /\ (n - 1) + 1 = n /\ n - 1 \notin T
    BY <1>1, <1>2, <2>2
  <2>4. Fits(n - 1)
    BY <1>1, <2>3
  <2>5. Fits((n - 1) + 1)
    BY <1>3, <2>3, <2>4
  <2> QED
    BY <2>2, <2>3, <2>5
<1>5. i \in 0 .. m
  BY DEF m
<1>6. Fits(i)
  BY <1>4, <1>5
<1> QED
  BY <1>6 DEF Fits

-----------------------------------------------------------------------------
(* The members of the outermost object. *)

Ended(s) == s.at = "end" /\ s.root = "object"
AtRoot(s) == s.open = <<"object">>

\* In a member of the outermost object that is itself an array or an object.
Deeper(s, kind) == Len(s.open) > 1 /\ s.open[1] = "object" /\ s.open[2] = kind

Kept(s, r) == r.name = s.name /\ r.members = s.members

LEMMA Sizes ==
  ASSUME NEW o \in Seq(Composite)
  PROVE  /\ o = << >> \/ Len(o) = 1 \/ Len(o) > 1
         /\ o = << >> => Len(o) = 0
         /\ o = <<"object">> <=> Len(o) = 1 /\ o[1] = "object"
<1>1. Len(o) \in Nat /\ (o = << >> <=> Len(o) = 0)
  BY EmptySeq, LenProperties
<1>2. <<"object">> \in Seq(Composite) /\ Len(<<"object">>) = 1 /\ <<"object">>[1] = "object"
  BY DEF Composite
<1> DEFINE p == <<"object">>
<1> HIDE DEF p
<1>3. p \in Seq(Composite) /\ Len(p) = 1 /\ p[1] = "object"
  BY <1>2 DEF p
<1>4. ASSUME Len(o) = 1, o[1] = "object" PROVE o = p
  <2>1. \A i \in 1 .. Len(o) : o[i] = p[i]
    BY <1>3, <1>4
  <2> QED
    BY <1>3, <1>4, <2>1, SeqEqual
<1>5. o = p <=> Len(o) = 1 /\ o[1] = "object"
  BY <1>3, <1>4
<1>6. o = << >> \/ Len(o) = 1 \/ Len(o) > 1
  <2>1. \A n \in Nat : n = 0 \/ n = 1 \/ n > 1
    OBVIOUS
  <2> QED
    BY <1>1, <2>1
<1> QED
  BY <1>1, <1>5, <1>6 DEF p

LEMMA Bottom ==
  ASSUME NEW o \in Seq(Composite), NEW kind \in Composite
  PROVE  /\ Append(o, kind) \in Seq(Composite)
         /\ o = << >> => Len(Append(o, kind)) = 1 /\ Append(o, kind)[1] = kind
         /\ Len(o) = 1 => /\ Len(Append(o, kind)) > 1
                          /\ Append(o, kind)[1] = o[1] /\ Append(o, kind)[2] = kind
         /\ Len(o) > 1 => /\ Len(Append(o, kind)) > 1
                          /\ Append(o, kind)[1] = o[1] /\ Append(o, kind)[2] = o[2]
<1> DEFINE p == Append(o, kind)
<1>1. Len(o) \in Nat /\ (o = << >> => Len(o) = 0)
  BY EmptySeq, LenProperties
<1>2. /\ p \in Seq(Composite) /\ Len(p) = Len(o) + 1 /\ p[Len(o) + 1] = kind
      /\ \A i \in 1 .. Len(o) : p[i] = o[i]
  BY AppendProperties
<1> HIDE DEF p
<1>3. o = << >> => Len(p) = 1 /\ p[1] = kind
  BY <1>1, <1>2
<1>4. Len(o) = 1 => Len(p) > 1 /\ p[1] = o[1] /\ p[2] = kind
  BY <1>1, <1>2
<1>5. Len(o) > 1 => Len(p) > 1 /\ p[1] = o[1] /\ p[2] = o[2]
  BY <1>1, <1>2
<1> QED
  BY <1>2, <1>3, <1>4, <1>5 DEF p

\* Where a stack is: below the outermost object, in it, or in a member of it.
LEMMA Levels ==
  ASSUME NEW s, s.open \in Seq(Composite)
  PROVE  /\ AtRoot(s) <=> Len(s.open) = 1 /\ s.open[1] = "object"
         /\ AtRoot(s) => s.open # << >> /\ Last(s.open) = "object"
         /\ Len(s.open) > 1 => s.open # << >> /\ ~ AtRoot(s)
         /\ Len(s.open) = 1 => s.open # << >> /\ \A kind : ~ Deeper(s, kind)
         /\ s.open = << >> => ~ AtRoot(s) /\ \A kind : ~ Deeper(s, kind)
<1>1. AtRoot(s) <=> Len(s.open) = 1 /\ s.open[1] = "object"
  BY Sizes DEF AtRoot
<1>2. Last(<<"object">>) = "object"
  BY DEF Last
<1>3. s.open = << >> => Len(s.open) = 0
  BY Sizes
<1>4. ~ (Len(s.open) = 1 /\ Len(s.open) > 1) /\ ~ (Len(s.open) = 0 /\ Len(s.open) > 1)
      /\ ~ (Len(s.open) = 0 /\ Len(s.open) = 1)
  <2>1. \A n \in Nat : ~ (n = 1 /\ n > 1) /\ ~ (n = 0 /\ n > 1) /\ ~ (n = 0 /\ n = 1)
    OBVIOUS
  <2> QED
    BY <2>1, LenProperties
<1> QED
  BY <1>1, <1>2, <1>3, <1>4 DEF AtRoot, Deeper

\* How the parser came to be at the end, in the outermost object, or below it.
EndedBy(s, r) == AtRoot(s) /\ s.at \in {"key or }", "after"} /\ r.members = s.members

BeginsObject(s, r) == s.open = << >> /\ s.at = "value" /\ r.at = "key or }" /\ Kept(s, r)

Binds(s, t, r) ==
  /\ r.at = "after"
  /\ \E v : /\ r.members = With(s.members, s.name, v)
            /\ \/ AtRoot(s) /\ s.at = "value" /\ v = KindOf(t)
               \/ Deeper(s, v)

Knows(s, t, r) ==
  /\ AtRoot(s) /\ s.at \in {"key", "key or }"} /\ r.at = "colon"
  /\ r.name = t /\ r.members = s.members

Moved(s, t, r) ==
  /\ Ended(r) => EndedBy(s, r)
  /\ AtRoot(r) => \/ BeginsObject(s, r) \/ Binds(s, t, r) \/ Knows(s, t, r)
                  \/ AtRoot(s) /\ s.at = "colon" /\ r.at = "value" /\ Kept(s, r)
                  \/ AtRoot(s) /\ s.at = "after" /\ r.at = "key" /\ Kept(s, r)
  /\ \A kind : Deeper(r, kind) =>
       /\ Kept(s, r)
       /\ Deeper(s, kind) \/ (AtRoot(s) /\ s.at = "value" /\ kind = KindOf(t))

LEMMA Kinds ==
  /\ \A t \in Scalar : KindOf(t) = t /\ t # "object"
  /\ \A kind \in Composite : KindOf(Opening(kind)) = kind
BY Tokens DEF KindOf, Opening, Composite

LEMMA Moves ==
  ASSUME NEW s, NEW t, NEW r, Shaped(s), Stepped(s, t, r), r.at # "error"
  PROVE  Moved(s, t, r)
<1>1. s.open \in Seq(Composite)
  BY DEF Shaped
<1>2. AtRoot(s) => s.at # "value or ]"
  BY <1>1, Levels DEF Shaped
<1>3. CASE TakesScalar(s, t, r)
  <2>1. s.open = r.open /\ r.at = After(s.open) /\ r.name = s.name /\ KindOf(t) = t
        /\ s.at \in {"value", "value or ]"} /\ t # "object"
        /\ r.root = (IF s.open = << >> THEN t ELSE s.root)
        /\ r.members = IF s.open = <<"object">> THEN With(s.members, s.name, t) ELSE s.members
    BY <1>3, Kinds DEF TakesScalar, Completes
  <2>2. ~ Ended(r)
    BY <2>1 DEF Ended, After
  <2>3. ASSUME AtRoot(r) PROVE Binds(s, t, r)
    <3>1. AtRoot(s)
      BY <2>1, <2>3 DEF AtRoot
    <3>2. r.at = "after"
      BY <1>1, <2>1, <3>1, Levels DEF After
    <3>3. r.members = With(s.members, s.name, t)
      BY <2>1, <3>1 DEF AtRoot
    <3> QED
      BY <1>2, <2>1, <3>1, <3>2, <3>3 DEF Binds
  <2>4. ASSUME NEW kind, Deeper(r, kind) PROVE Deeper(s, kind) /\ Kept(s, r)
    <3>1. Deeper(s, kind)
      BY <2>1, <2>4 DEF Deeper
    <3>2. ~ AtRoot(s)
      BY <1>1, <3>1, Levels DEF Deeper
    <3> QED
      BY <2>1, <3>1, <3>2 DEF AtRoot, Kept
  <2> QED
    BY <2>2, <2>3, <2>4 DEF Moved
<1>4. ASSUME NEW k \in Composite, Opens(s, t, r, k)
      PROVE  Moved(s, t, r)
  <2>0. r.open = Append(s.open, k)
    BY <1>4 DEF Opens
  <2>1. r.at = Expecting(k) /\ Kept(s, r) /\ KindOf(t) = k
        /\ s.at \in {"value", "value or ]"}
    BY <1>4, Kinds DEF Opens, Kept
  <2>2. ~ Ended(r)
    BY <2>1 DEF Ended, Expecting
  <2>3. r.open \in Seq(Composite)
    BY <1>1, <2>0, Bottom
  <2>4. CASE s.open = << >>
    <3>1. Len(r.open) = 1 /\ r.open[1] = k
      BY <1>1, <2>0, <2>4, Bottom
    <3>2. \A kind : ~ Deeper(r, kind)
      BY <2>3, <3>1, Levels
    <3>3. AtRoot(r) => k = "object"
      BY <2>3, <3>1, Levels
    <3>4. s.at = "value"
      BY <2>1, <2>4 DEF Shaped
    <3>5. AtRoot(r) => BeginsObject(s, r)
      BY <2>1, <2>4, <3>3, <3>4 DEF BeginsObject, Expecting
    <3> QED
      BY <2>2, <3>2, <3>5 DEF Moved
  <2>5. CASE Len(s.open) > 1
    <3>1. Len(r.open) > 1 /\ r.open[1] = s.open[1] /\ r.open[2] = s.open[2]
      BY <1>1, <2>0, <2>5, Bottom
    <3>2. ~ AtRoot(r)
      BY <2>3, <3>1, Levels
    <3>3. \A kind : Deeper(r, kind) => Deeper(s, kind)
      BY <2>5, <3>1 DEF Deeper
    <3> QED
      BY <2>1, <2>2, <3>2, <3>3 DEF Moved
  <2>6. CASE Len(s.open) = 1
    <3>1. Len(r.open) > 1 /\ r.open[1] = s.open[1] /\ r.open[2] = k
      BY <1>1, <2>0, <2>6, Bottom
    <3>2. ~ AtRoot(r)
      BY <2>3, <3>1, Levels
    <3>3. ASSUME NEW kind, Deeper(r, kind) PROVE AtRoot(s) /\ s.at = "value" /\ kind = k
      <4>1. s.open[1] = "object" /\ kind = k
        BY <3>1, <3>3 DEF Deeper
      <4>2. AtRoot(s)
        BY <1>1, <2>6, <4>1, Levels
      <4> QED
        BY <1>2, <2>1, <4>1, <4>2
    <3> QED
      BY <2>1, <2>2, <3>2, <3>3 DEF Moved
  <2> QED
    BY <1>1, <2>4, <2>5, <2>6, Sizes
<1>5. ASSUME NEW k \in Composite, NEW o \in Seq(Composite), Closes(s, t, r, k, o)
      PROVE  Moved(s, t, r)
  <2>1. s.open = Append(o, k) /\ r.open = o /\ r.at = After(o) /\ r.name = s.name
        /\ s.at \in {Expecting(k), "after"}
        /\ r.root = (IF o = << >> THEN k ELSE s.root)
        /\ r.members = IF o = <<"object">> THEN With(s.members, s.name, k) ELSE s.members
    BY <1>5 DEF Closes, Completes
  <2>2. CASE o = << >>
    <3>1. Len(s.open) = 1 /\ s.open[1] = k
      BY <2>1, <2>2, Bottom
    <3>2. ~ AtRoot(r) /\ \A kind : ~ Deeper(r, kind)
      BY <2>1, <2>2, Levels
    <3>3. r.members = s.members /\ r.root = k
      BY <2>1, <2>2, <3>2 DEF AtRoot
    <3>4. ASSUME Ended(r) PROVE EndedBy(s, r)
      <4>1. k = "object"
        BY <3>3, <3>4 DEF Ended
      <4>2. AtRoot(s)
        BY <1>1, <3>1, <4>1, Levels
      <4> QED
        BY <2>1, <3>3, <4>1, <4>2 DEF EndedBy, Expecting
    <3> QED
      BY <3>2, <3>4 DEF Moved
  <2>3. CASE Len(o) > 1
    <3>1. o # << >> /\ ~ AtRoot(r)
      BY <2>1, <2>3, Levels
    <3>2. ~ Ended(r) /\ Kept(s, r)
      BY <2>1, <3>1 DEF Ended, AtRoot, Kept, After
    <3>3. Len(s.open) > 1 /\ s.open[1] = o[1] /\ s.open[2] = o[2]
      BY <2>1, <2>3, Bottom
    <3>4. \A kind : Deeper(r, kind) => Deeper(s, kind)
      BY <2>1, <3>3 DEF Deeper
    <3> QED
      BY <3>1, <3>2, <3>4 DEF Moved
  <2>4. CASE Len(o) = 1
    <3>1. o # << >> /\ \A kind : ~ Deeper(r, kind)
      BY <2>1, <2>4, Levels
    <3>2. r.at = "after" /\ ~ Ended(r)
      BY <2>1, <3>1 DEF Ended, After
    <3>3. ASSUME AtRoot(r) PROVE Binds(s, t, r)
      <4>1. o[1] = "object"
        BY <2>1, <3>3, Levels
      <4>2. Len(s.open) > 1 /\ s.open[1] = o[1] /\ s.open[2] = k
        BY <2>1, <2>4, Bottom
      <4>3. Deeper(s, k)
        BY <4>1, <4>2 DEF Deeper
      <4>4. r.members = With(s.members, s.name, k)
        BY <2>1, <3>3 DEF AtRoot
      <4> QED
        BY <3>2, <4>3, <4>4 DEF Binds
    <3> QED
      BY <3>1, <3>2, <3>3 DEF Moved
  <2> QED
    BY <2>2, <2>3, <2>4, Sizes
<1>6. CASE Names(s, t, r)
  <2>1. r.open = s.open /\ r.at = "colon" /\ r.members = s.members
        /\ s.at \in {"key", "key or }"}
    BY <1>6 DEF Names, Passes
  <2>2. ~ Ended(r)
    BY <2>1 DEF Ended
  <2>3. ASSUME AtRoot(r) PROVE Knows(s, t, r)
    <3>1. AtRoot(s)
      BY <2>1, <2>3 DEF AtRoot
    <3>2. Len(s.open) = 1
      BY <1>1, <3>1, Levels
    <3>3. r.name = t
      BY <1>6, <3>2 DEF Names
    <3> QED
      BY <2>1, <3>1, <3>3 DEF Knows
  <2>4. ASSUME NEW kind, Deeper(r, kind) PROVE Kept(s, r) /\ Deeper(s, kind)
    <3>1. Len(s.open) # 1
      BY <1>1, <2>1, <2>4, Levels
    <3>2. r.name = s.name
      BY <1>6, <3>1 DEF Names
    <3> QED
      BY <2>1, <2>4, <3>2 DEF Deeper, Kept
  <2> QED
    BY <2>2, <2>3, <2>4 DEF Moved
<1>7. CASE TakesColon(s, t, r)
  BY <1>7 DEF TakesColon, Passes, Moved, Ended, AtRoot, Deeper, Kept
<1>8. CASE TakesComma(s, t, r)
  <2>1. r.open = s.open /\ s.at = "after" /\ Kept(s, r)
        /\ r.at = IF Last(s.open) = "object" THEN "key" ELSE "value"
    BY <1>8 DEF TakesComma, Passes, Kept
  <2>2. AtRoot(s) => r.at = "key"
    BY <1>1, <2>1, Levels
  <2> QED
    BY <2>1, <2>2 DEF Moved, Ended, AtRoot, Deeper
<1> QED
  BY <1>3, <1>4, <1>5, <1>6, <1>7, <1>8 DEF Stepped

-----------------------------------------------------------------------------
(* What the outermost object's members are bound to. *)

\* After position j stands a name of the outermost object; the name is n.
Key(g, j) == g[j].at = "colon" /\ AtRoot(g[j])
KeyOf(g, text, n, j) == Key(g, j) /\ text[j] = n

LastKey(g, text, n, j, h) ==
  KeyOf(g, text, n, j) /\ \A l \in j + 1 .. h : ~ KeyOf(g, text, n, l)

\* The members are the names up to position h, each with what stands after it.
Holds(g, text, members, h) ==
  \A n \in Word :
    /\ n \in DOMAIN members =>
         \E j \in 1 .. h : LastKey(g, text, n, j, h) /\ members[n] = KindOf(text[j + 2])
    /\ n \notin DOMAIN members => \A j \in 1 .. h : ~ KeyOf(g, text, n, j)

\* The member whose name stands at b is the last up to i, and without its value.
Unfinished(g, text, i, b) ==
  /\ b \in 1 .. i /\ Key(g, b) /\ \A l \in b + 1 .. i : ~ Key(g, l)
  /\ g[i].name = text[b] /\ Holds(g, text, g[i].members, b - 1)

Binding(g, text, i) ==
  /\ Ended(g[i]) => Holds(g, text, g[i].members, i)
  /\ AtRoot(g[i]) /\ g[i].at \notin {"colon", "value"} => Holds(g, text, g[i].members, i)
  /\ AtRoot(g[i]) /\ g[i].at = "colon" => Unfinished(g, text, i, i)
  /\ AtRoot(g[i]) /\ g[i].at = "value" => Unfinished(g, text, i, i - 1)
  /\ \A kind : Deeper(g[i], kind) =>
       \E b \in 1 .. i : b + 2 =< i /\ kind = KindOf(text[b + 2]) /\ Unfinished(g, text, i, b)

LEMMA HoldsOn ==
  ASSUME NEW g, NEW text, NEW members, NEW i \in Nat, ~ Key(g, i + 1),
         Holds(g, text, members, i)
  PROVE  Holds(g, text, members, i + 1)
<1> SUFFICES ASSUME NEW n \in Word
             PROVE  /\ n \in DOMAIN members =>
                         \E j \in 1 .. i + 1 : LastKey(g, text, n, j, i + 1)
                                                 /\ members[n] = KindOf(text[j + 2])
                    /\ n \notin DOMAIN members => \A j \in 1 .. i + 1 : ~ KeyOf(g, text, n, j)
  BY DEF Holds
<1>1. ~ KeyOf(g, text, n, i + 1)
  BY DEF KeyOf
<1>2. ASSUME n \in DOMAIN members
      PROVE  \E j \in 1 .. i + 1 : LastKey(g, text, n, j, i + 1) /\ members[n] = KindOf(text[j + 2])
  <2>1. PICK j \in 1 .. i : LastKey(g, text, n, j, i) /\ members[n] = KindOf(text[j + 2])
    BY <1>2 DEF Holds
  <2>2. \A l \in j + 1 .. i + 1 : l = i + 1 \/ l \in j + 1 .. i
    OBVIOUS
  <2>3. LastKey(g, text, n, j, i + 1)
    BY <1>1, <2>1, <2>2 DEF LastKey
  <2>4. j \in 1 .. i + 1
    OBVIOUS
  <2> QED
    BY <2>1, <2>3, <2>4
<1>3. ASSUME n \notin DOMAIN members, NEW j \in 1 .. i + 1 PROVE ~ KeyOf(g, text, n, j)
  <2>1. j = i + 1 \/ j \in 1 .. i
    OBVIOUS
  <2> QED
    BY <1>1, <1>3, <2>1 DEF Holds
<1> QED
  BY <1>2, <1>3

LEMMA UnfinishedOn ==
  ASSUME NEW g, NEW text, NEW i \in Nat, NEW b, ~ Key(g, i + 1), Kept(g[i], g[i + 1]),
         Unfinished(g, text, i, b)
  PROVE  Unfinished(g, text, i + 1, b)
<1>1. b \in 1 .. i
  BY DEF Unfinished
<1>2. b \in 1 .. i + 1 /\ \A l \in b + 1 .. i + 1 : l = i + 1 \/ l \in b + 1 .. i
  BY <1>1
<1> QED
  BY <1>2 DEF Unfinished, Kept

LEMMA Finished ==
  ASSUME NEW g, NEW text, NEW i \in Nat, NEW b, ~ Key(g, i + 1), Unfinished(g, text, i, b),
         g[i + 1].members = With(g[i].members, g[i].name, KindOf(text[b + 2]))
  PROVE  Holds(g, text, g[i + 1].members, i + 1)
<1> DEFINE old == g[i].members
           new == g[i + 1].members
<1>1. b \in 1 .. i /\ Key(g, b) /\ Holds(g, text, old, b - 1)
  BY DEF Unfinished
<1>2. \A l \in b + 1 .. i + 1 : ~ Key(g, l)
  <2>1. \A l \in b + 1 .. i + 1 : l = i + 1 \/ l \in b + 1 .. i
    BY <1>1
  <2> QED
    BY <2>1 DEF Unfinished
<1>3. /\ DOMAIN new = DOMAIN old \cup {text[b]}
      /\ \A n \in DOMAIN new : new[n] = IF n = text[b] THEN KindOf(text[b + 2]) ELSE old[n]
  BY DEF Unfinished, With
<1> HIDE DEF old, new
<1> SUFFICES ASSUME NEW n \in Word
             PROVE  /\ n \in DOMAIN new =>
                         \E j \in 1 .. i + 1 : LastKey(g, text, n, j, i + 1)
                                                 /\ new[n] = KindOf(text[j + 2])
                    /\ n \notin DOMAIN new => \A j \in 1 .. i + 1 : ~ KeyOf(g, text, n, j)
  BY DEF Holds, new
<1>4. CASE n = text[b]
  <2>1. LastKey(g, text, n, b, i + 1)
    BY <1>1, <1>2, <1>4 DEF LastKey, KeyOf
  <2>2. b \in 1 .. i + 1
    BY <1>1
  <2> QED
    BY <1>3, <1>4, <2>1, <2>2
<1>5. CASE n # text[b]
  <2>1. \A l \in b .. i + 1 : ~ KeyOf(g, text, n, l)
    <3>1. \A l \in b .. i + 1 : l = b \/ l \in b + 1 .. i + 1
      BY <1>1
    <3> QED
      BY <1>2, <1>5, <3>1 DEF KeyOf
  <2>2. ASSUME n \in DOMAIN new
        PROVE  \E j \in 1 .. i + 1 : LastKey(g, text, n, j, i + 1) /\ new[n] = KindOf(text[j + 2])
    <3>1. n \in DOMAIN old /\ new[n] = old[n]
      BY <1>3, <1>5, <2>2
    <3>2. PICK j \in 1 .. b - 1 :
             LastKey(g, text, n, j, b - 1) /\ old[n] = KindOf(text[j + 2])
      BY <1>1, <3>1 DEF Holds
    <3>3. j \in 1 .. i + 1 /\ \A l \in j + 1 .. i + 1 : l \in j + 1 .. b - 1 \/ l \in b .. i + 1
      BY <1>1
    <3>4. LastKey(g, text, n, j, i + 1)
      BY <2>1, <3>2, <3>3 DEF LastKey
    <3> QED
      BY <3>1, <3>2, <3>3, <3>4
  <2>3. ASSUME n \notin DOMAIN new, NEW j \in 1 .. i + 1 PROVE ~ KeyOf(g, text, n, j)
    <3>1. j \in 1 .. b - 1 \/ j \in b .. i + 1
      BY <1>1
    <3>2. n \notin DOMAIN old
      BY <1>3, <2>3
    <3> QED
      BY <1>1, <2>1, <3>1, <3>2 DEF Holds
  <2> QED
    BY <2>2, <2>3
<1> QED
  BY <1>4, <1>5

LEMMA EmptyEnds ==
  ASSUME NEW s, NEW t, NEW r, Shaped(s), Stepped(s, t, r), r.at # "error", r.open = << >>
  PROVE  r.at = "end"
<1>1. s.open \in Seq(Composite)
  BY DEF Shaped
<1>2. CASE TakesScalar(s, t, r)
  BY <1>2 DEF TakesScalar, Completes, After
<1>3. ASSUME NEW k \in Composite, Opens(s, t, r, k) PROVE FALSE
  BY <1>1, <1>3, Stack DEF Opens
<1>4. ASSUME NEW k \in Composite, NEW o \in Seq(Composite), Closes(s, t, r, k, o)
      PROVE  r.at = "end"
  BY <1>4 DEF Closes, Completes, After
<1>5. CASE Names(s, t, r) \/ TakesColon(s, t, r) \/ TakesComma(s, t, r)
  BY <1>5 DEF Names, TakesColon, TakesComma, Passes, Shaped
<1> QED
  BY <1>2, <1>3, <1>4, <1>5 DEF Stepped

LEMMA BindingStep ==
  ASSUME NEW S, NEW text \in Seq(S), NEW g, Parses(g, text), Accepted(g[Len(text)]),
         NEW i \in 0 .. Len(text) - 1, Binding(g, text, i)
  PROVE  Binding(g, text, i + 1)
<1> DEFINE s == g[i]
           r == g[i + 1]
           t == text[i + 1]
<1>1. Shaped(s) /\ Stepped(s, t, r) /\ r.at # "error" /\ i \in Nat
  BY Stepping
<1>2. Moved(s, t, r)
  BY <1>1, Moves
<1>3. \A b : b = i - 1 => b + 2 = i + 1
  OBVIOUS
<1>4. ASSUME NEW k, Deeper(r, k) PROVE ~ Key(g, i + 1)
  <2>1. r.open \in Seq(Composite)
    <3>1. i + 1 \in 0 .. Len(text)
      OBVIOUS
    <3> QED
      BY <3>1, StatesShaped DEF Shaped
  <2> QED
    BY <1>4, <2>1, Levels DEF Deeper, Key
<1>5. ASSUME Holds(g, text, s.members, i), r.members = s.members, r.at # "colon"
      PROVE  Holds(g, text, r.members, i + 1)
  <2>1. ~ Key(g, i + 1)
    BY <1>5 DEF Key
  <2> QED
    BY <1>1, <1>5, <2>1, HoldsOn
<1>6. ASSUME Ended(r) PROVE Holds(g, text, r.members, i + 1)
  <2>1. EndedBy(s, r) /\ r.at # "colon"
    BY <1>2, <1>6 DEF Moved, Ended
  <2> QED
    BY <1>5, <2>1 DEF EndedBy, Binding
<1>7. ASSUME AtRoot(r), r.at \notin {"colon", "value"}
      PROVE  Holds(g, text, r.members, i + 1)
  <2>1. CASE BeginsObject(s, r)
    <3>1. i = 0
      <4> SUFFICES ASSUME i # 0 PROVE FALSE
        OBVIOUS
      <4>1. i - 1 \in 0 .. Len(text) - 1 /\ (i - 1) + 1 = i
        OBVIOUS
      <4>2. /\ Shaped(g[i - 1]) /\ Stepped(g[i - 1], text[(i - 1) + 1], g[(i - 1) + 1])
            /\ g[(i - 1) + 1].at # "error"
        BY <4>1, Stepping
      <4>3. s.open = << >> /\ s.at = "value"
        BY <2>1 DEF BeginsObject
      <4> QED
        BY <4>1, <4>2, <4>3, EmptyEnds
    <3>2. s.members = << >>
      BY <3>1, StatesShaped DEF Start
    <3>3. Holds(g, text, << >>, 0)
      BY DEF Holds
    <3> QED
      BY <1>5, <1>7, <2>1, <3>1, <3>2, <3>3 DEF BeginsObject, Kept
  <2>2. CASE Binds(s, t, r)
    <3>1. ~ Key(g, i + 1)
      BY <1>7 DEF Key
    <3>2. PICK v : /\ r.members = With(s.members, s.name, v)
                   /\ \/ AtRoot(s) /\ s.at = "value" /\ v = KindOf(t)
                      \/ Deeper(s, v)
      BY <2>2 DEF Binds
    <3>3. \E b : v = KindOf(text[b + 2]) /\ Unfinished(g, text, i, b)
      <4>1. CASE AtRoot(s) /\ s.at = "value" /\ v = KindOf(t)
        BY <1>3, <4>1 DEF Binding
      <4>2. CASE Deeper(s, v)
        BY <4>2 DEF Binding
      <4> QED
        BY <3>2, <4>1, <4>2
    <3> QED
      BY <1>1, <3>1, <3>2, <3>3, Finished
  <2>3. CASE AtRoot(s) /\ s.at = "after" /\ r.at = "key" /\ Kept(s, r)
    BY <1>5, <2>3 DEF Binding, Kept
  <2> QED
    BY <1>2, <1>7, <2>1, <2>2, <2>3 DEF Moved, Knows
<1>8. ASSUME AtRoot(r), r.at = "colon" PROVE Unfinished(g, text, i + 1, i + 1)
  <2>1. Knows(s, t, r)
    BY <1>2, <1>8 DEF Moved, BeginsObject, Binds
  <2>2. Holds(g, text, r.members, i)
    BY <2>1 DEF Knows, Binding
  <2>3. Key(g, i + 1) /\ r.name = t
    BY <1>8, <2>1 DEF Key, Knows
  <2>4. i + 1 \in 1 .. i + 1 /\ (i + 1) + 1 .. i + 1 = {} /\ (i + 1) - 1 = i
    BY <1>1
  <2> QED
    BY <2>2, <2>3, <2>4 DEF Unfinished
<1>9. ASSUME AtRoot(r), r.at = "value" PROVE Unfinished(g, text, i + 1, (i + 1) - 1)
  <2>1. AtRoot(s) /\ s.at = "colon" /\ Kept(s, r)
    BY <1>2, <1>9 DEF Moved, BeginsObject, Binds, Knows
  <2>2. Unfinished(g, text, i, i) /\ ~ Key(g, i + 1)
    BY <1>9, <2>1 DEF Binding, Key
  <2>3. (i + 1) - 1 = i
    OBVIOUS
  <2> QED
    BY <1>1, <2>1, <2>2, <2>3, UnfinishedOn
<1>10. ASSUME NEW k, Deeper(r, k)
       PROVE  \E b \in 1 .. i + 1 :
                b + 2 =< i + 1 /\ k = KindOf(text[b + 2]) /\ Unfinished(g, text, i + 1, b)
  <2>1. /\ Kept(s, r) /\ ~ Key(g, i + 1)
        /\ Deeper(s, k) \/ (AtRoot(s) /\ s.at = "value" /\ k = KindOf(t))
    BY <1>2, <1>4, <1>10 DEF Moved
  <2>2. PICK b : b + 2 =< i + 1 /\ k = KindOf(text[b + 2]) /\ Unfinished(g, text, i, b)
    <3>1. CASE Deeper(s, k)
      <4>1. PICK b \in 1 .. i : b + 2 =< i /\ k = KindOf(text[b + 2]) /\ Unfinished(g, text, i, b)
        BY <3>1 DEF Binding
      <4>2. b + 2 =< i + 1
        <5>1. b + 2 =< i
          BY <4>1
        <5> QED
          BY <1>1, <5>1
      <4> QED
        BY <4>1, <4>2
    <3>2. CASE AtRoot(s) /\ s.at = "value" /\ k = KindOf(t)
      <4>1. Unfinished(g, text, i, i - 1)
        BY <3>2 DEF Binding
      <4>2. (i - 1) + 2 = i + 1 /\ (i - 1) + 2 =< i + 1
        BY <1>1
      <4> QED
        BY <3>2, <4>1, <4>2
    <3> QED
      BY <2>1, <3>1, <3>2
  <2>3. Unfinished(g, text, i + 1, b)
    BY <1>1, <2>1, <2>2, UnfinishedOn
  <2>4. b \in 1 .. i + 1
    BY <2>3 DEF Unfinished
  <2> QED
    BY <2>2, <2>3, <2>4
<1> HIDE DEF s, r, t
<1> QED
  BY <1>6, <1>7, <1>8, <1>9, <1>10 DEF Binding, r

LEMMA Bindings ==
  ASSUME NEW S, NEW text \in Seq(S), NEW g, Parses(g, text), Accepted(g[Len(text)]),
         NEW i \in 0 .. Len(text)
  PROVE  Binding(g, text, i)
<1> DEFINE m == Len(text)
           T == {n \in 0 .. m : ~ Binding(g, text, n)}
<1>1. m \in Nat
  OBVIOUS
<1>2. Binding(g, text, 0)
  <2>1. g[0].at = "value" /\ g[0].open = << >> /\ g[0].open \in Seq(Composite)
    <3>1. g[0] = Start
      BY StatesShaped
    <3> QED
      BY <3>1, EmptySeq DEF Start
  <2>2. ~ AtRoot(g[0]) /\ \A k : ~ Deeper(g[0], k)
    BY <2>1, Levels
  <2> QED
    BY <2>1, <2>2 DEF Binding, Ended
<1>3. \A n \in 0 .. m - 1 : Binding(g, text, n) => Binding(g, text, n + 1)
  BY BindingStep
<1> HIDE DEF m
<1>4. ASSUME T # {} PROVE FALSE
  <2>1. T \in SUBSET Nat
    BY <1>1
  <2>2. PICK n \in T : \A l \in T : n =< l
    BY <1>4, <2>1, Least
  <2>3. n - 1 \in 0 .. m - 1 /\ (n - 1) + 1 = n /\ n - 1 \notin T /\ n - 1 \in 0 .. m
    BY <1>1, <1>2, <2>2
  <2> QED
    BY <1>3, <2>2, <2>3
<1>5. i \in 0 .. m
  BY DEF m
<1> QED
  BY <1>4, <1>5

-----------------------------------------------------------------------------
(* Names and where they stand. *)

LEMMA KeyStands ==
  ASSUME NEW S, NEW text \in Seq(S), NEW g, Parses(g, text), Accepted(g[Len(text)]),
         NEW j \in 1 .. Len(text), Key(g, j)
  PROVE  j \in 1 .. Len(text) - 2 /\ text[j + 1] = ":" /\ Depth(text, j) = 1
<1>1. Len(text) \in Nat /\ j \in 0 .. Len(text)
  OBVIOUS
<1>2. j # Len(text)
  BY DEF Key, Accepted
<1>3. j \in 0 .. Len(text) - 1 /\ j + 1 \in 0 .. Len(text)
  BY <1>1, <1>2
<1>4. /\ Shaped(g[j]) /\ Stepped(g[j], text[j + 1], g[j + 1])
      /\ g[j + 1].at # "error"
  BY <1>3, Stepping
<1>5. TakesColon(g[j], text[j + 1], g[j + 1])
  <2>1. g[j].at = "colon"
    BY DEF Key
  <2>2. \A kind \in Composite : Expecting(kind) # "colon"
    BY DEF Expecting
  <2> QED
    BY <1>4, <2>1, <2>2 DEF Stepped, TakesScalar, Opens, Closes, Names, TakesComma
<1>6. text[j + 1] = ":" /\ g[j + 1].at = "value"
  BY <1>5 DEF TakesColon, Passes
<1>7. j + 1 # Len(text)
  BY <1>6 DEF Accepted
<1>8. Depth(text, j) = 1
  <2>1. Len(g[j].open) = 1
    BY <1>4, Levels DEF Key, Shaped
  <2> QED
    BY <1>1, <2>1, DepthIs
<1>9. j \in 1 .. Len(text) - 2
  BY <1>1, <1>2, <1>7
<1> QED
  BY <1>6, <1>8, <1>9

LEMMA ColonOnlyThere ==
  ASSUME NEW s, NEW r, Shaped(s), Stepped(s, ":", r), r.at # "error"
  PROVE  s.at = "colon" /\ Last(s.open) = "object"
<1>1. \A kind \in Composite : Opening(kind) # ":" /\ Closing(kind) # ":"
  BY DEF Opening, Closing
<1>2. ":" \notin Scalar /\ ":" \notin Word
  BY Tokens
<1>3. s.at = "colon"
  BY <1>1, <1>2 DEF Stepped, TakesScalar, Opens, Closes, Names, TakesColon, TakesComma
<1> QED
  BY <1>3 DEF Shaped

LEMMA NameStands ==
  ASSUME NEW S, NEW text \in Seq(S), NEW g, Parses(g, text), Accepted(g[Len(text)]),
         NEW j \in 1 .. Len(text) - 2, text[j + 1] = ":", Depth(text, j) = 1
  PROVE  Key(g, j)
<1>1. j \in 0 .. Len(text) - 1 /\ j \in 0 .. Len(text)
  OBVIOUS
<1>2. /\ Shaped(g[j]) /\ Stepped(g[j], text[j + 1], g[j + 1])
      /\ g[j + 1].at # "error"
  BY <1>1, Stepping
<1>3. g[j].at = "colon" /\ Last(g[j].open) = "object"
  BY <1>2, ColonOnlyThere
<1>4. g[j].open \in Seq(Composite) /\ Len(g[j].open) = 1
  BY <1>1, <1>2, DepthIs DEF Shaped
<1>5. g[j].open[1] = "object"
  BY <1>3, <1>4 DEF Last
<1> QED
  BY <1>3, <1>4, <1>5, Levels DEF Key

LEMMA NamedAre ==
  ASSUME NEW S, NEW text \in Seq(S), NEW g, Parses(g, text), Accepted(g[Len(text)]), NEW n
  PROVE  Named(text, n) = {j \in 1 .. Len(text) : KeyOf(g, text, n, j)}
<1>1. ASSUME NEW j \in Named(text, n) PROVE j \in 1 .. Len(text) /\ KeyOf(g, text, n, j)
  <2>1. j \in 1 .. Len(text) - 2 /\ text[j] = n /\ text[j + 1] = ":" /\ Depth(text, j) = 1
    BY DEF Named
  <2>2. Key(g, j)
    BY <2>1, NameStands
  <2>3. j \in 1 .. Len(text)
    <3>1. Len(text) \in Nat
      OBVIOUS
    <3> QED
      BY <2>1, <3>1
  <2> QED
    BY <2>1, <2>2, <2>3 DEF KeyOf
<1>2. ASSUME NEW j \in 1 .. Len(text), KeyOf(g, text, n, j) PROVE j \in Named(text, n)
  <2>1. j \in 1 .. Len(text) - 2 /\ text[j + 1] = ":" /\ Depth(text, j) = 1
    BY <1>2, KeyStands DEF KeyOf
  <2> QED
    BY <1>2, <2>1 DEF Named, KeyOf
<1> QED
  BY <1>1, <1>2

\* The parser accepts exactly the JSON texts, and in the object it builds every name
\* has the last of its values (json.hpp, sax_parse_internal and json_sax_dom_parser).
THEOREM ParserRight ==
  ASSUME NEW S, NEW text \in Seq(S)
  PROVE  AgreesOn(text)
<1> DEFINE s == Parse(text)
           m == Len(text)
<1>1. PICK g : States(g, text, m) /\ s = g[m]
  <2>1. m \in Nat
    OBVIOUS
  <2> QED
    BY <2>1, ParseStates
<1>2. Parses(g, text)
  BY <1>1 DEF Parses
<1>3. Accepted(s) = IsText(text)
  BY ParserExact DEF Accepted, IsText
<1>4. ASSUME IsObject(s), NEW n \in Word
      PROVE  /\ HasMember(s, n) = (Named(text, n) # {})
             /\ HasMember(s, n) => s.members[n] = Bound(text, n)
  <2>1. Accepted(g[m]) /\ Ended(g[m])
    BY <1>1, <1>4 DEF IsObject, Ended, Accepted
  <2>2. Holds(g, text, s.members, m)
    <3>1. m \in 0 .. m
      OBVIOUS
    <3>2. Binding(g, text, m)
      BY <1>2, <2>1, <3>1, Bindings
    <3> QED
      BY <1>1, <2>1, <3>2 DEF Binding
  <2>3. Named(text, n) = {j \in 1 .. m : KeyOf(g, text, n, j)}
    BY <1>2, <2>1, NamedAre
  <2> HIDE DEF m, s
  <2>4. ASSUME ~ HasMember(s, n) PROVE Named(text, n) = {}
    BY <2>2, <2>3, <2>4 DEF HasMember, Holds
  <2>5. ASSUME HasMember(s, n)
        PROVE  Named(text, n) # {} /\ s.members[n] = Bound(text, n)
    <3>1. PICK j \in 1 .. m : LastKey(g, text, n, j, m) /\ s.members[n] = KindOf(text[j + 2])
      BY <2>2, <2>5 DEF HasMember, Holds
    <3>2. j \in Named(text, n)
      BY <2>3, <3>1 DEF LastKey
    <3>3. ASSUME NEW l \in Named(text, n) PROVE l =< j
      <4>1. l \in 1 .. m /\ KeyOf(g, text, n, l)
        BY <2>3
      <4>2. l \notin j + 1 .. m
        BY <3>1, <4>1 DEF LastKey
      <4> QED
        BY <4>1, <4>2
    <3>4. ASSUME NEW l \in Named(text, n), \A k \in Named(text, n) : k =< l PROVE l = j
      <4>1. l \in 1 .. m
        BY <2>3
      <4>2. l =< j /\ j =< l
        BY <3>2, <3>3, <3>4
      <4> QED
        BY <4>1, <4>2
    <3>5. (CHOOSE i \in Named(text, n) : \A k \in Named(text, n) : k =< i) = j
      BY <3>2, <3>3, <3>4
    <3> QED
      BY <3>1, <3>2, <3>5 DEF Bound
  <2> QED
    BY <2>4, <2>5 DEF HasMember
<1> QED
  BY <1>3, <1>4 DEF AgreesOn
=============================================================================
