--------------------------- MODULE Exchange_proofs ---------------------------
(***************************************************************************)
(* A client gets what its backend said or nothing, whatever the answer is, *)
(* however it is cut and whoever dies.                                     *)
(***************************************************************************)
EXTENDS Exchange, Json_proofs

-----------------------------------------------------------------------------
(* What the parser makes of an object of two members. *)

\* In the outermost object.
Inside(s, at, name, members) ==
  /\ Fielded(s) /\ s.at = at /\ s.open = <<"object">>
  /\ s.name = name /\ s.members = members /\ s.root = Null

LEMMA OneOpen ==
  /\ Last(<<"object">>) = "object" /\ Front(<<"object">>) = << >> /\ Len(<<"object">>) = 1
  /\ Append(<< >>, "object") = <<"object">> /\ <<"object">> # << >>
BY DEF Last, Front

LEMMA BraceStep ==
  Inside(Feed(Start, "{"), "key or }", Null, << >>)
<1>1. /\ Fielded(Start) /\ Start.at = "value" /\ Start.open = << >>
      /\ Start.name = Null /\ Start.members = << >> /\ Start.root = Null
  BY DEF Start, Fielded
<1>2. Feed(Start, "{") = OnValue(Start, "{")
  BY <1>1 DEF Feed
<1>3. OnValue(Start, "{") = Opened(Start, "object")
  BY Tokens DEF OnValue
<1>4. Inside(Opened(Start, "object"), "key or }", Null, << >>)
  BY <1>1, OneOpen DEF Opened, Inside, Fielded
<1> QED
  BY <1>2, <1>3, <1>4

LEMMA KeyStep ==
  ASSUME NEW s, NEW n, NEW m, NEW k \in Word, NEW at \in {"key or }", "key"},
         Inside(s, at, n, m)
  PROVE  Inside(Feed(s, k), "colon", k, m)
<1>1. Feed(s, k) = OnKey(s, k)
  BY Tokens DEF Feed, Inside
<1>2. OnKey(s, k) = [s EXCEPT !.at = "colon", !.name = k]
  BY OneOpen DEF OnKey, Inside
<1> QED
  BY <1>1, <1>2 DEF Inside, Fielded

LEMMA ColonStep ==
  ASSUME NEW s, NEW n, NEW m, Inside(s, "colon", n, m)
  PROVE  Inside(Feed(s, ":"), "value", n, m)
<1>1. Feed(s, ":") = [s EXCEPT !.at = "value"]
  BY DEF Feed, Inside
<1> QED
  BY <1>1 DEF Inside, Fielded

LEMMA ValueStep ==
  ASSUME NEW s, NEW n, NEW m, NEW v \in Scalar, Inside(s, "value", n, m)
  PROVE  Inside(Feed(s, v), "after", n, With(m, n, v))
<1>1. Feed(s, v) = OnValue(s, v)
  BY DEF Feed, Inside
<1>2. OnValue(s, v) = Completed(s, v)
  BY Tokens DEF OnValue
<1>3. Completed(s, v) = [s EXCEPT !.at = "after", !.members = With(m, n, v)]
  BY OneOpen DEF Completed, Inside
<1> QED
  BY <1>1, <1>2, <1>3 DEF Inside, Fielded

LEMMA CommaStep ==
  ASSUME NEW s, NEW n, NEW m, Inside(s, "after", n, m)
  PROVE  Inside(Feed(s, ","), "key", n, m)
<1>1. Feed(s, ",") = AfterValue(s, ",")
  BY DEF Feed, Inside
<1>2. AfterValue(s, ",") = [s EXCEPT !.at = "key"]
  BY OneOpen DEF AfterValue, Inside
<1> QED
  BY <1>1, <1>2 DEF Inside, Fielded

LEMMA CloseStep ==
  ASSUME NEW s, NEW n, NEW m, Inside(s, "after", n, m)
  PROVE  IsObject(Feed(s, "}")) /\ Feed(s, "}").members = m
<1> DEFINE r == [s EXCEPT !.open = << >>]
<1>1. Feed(s, "}") = AfterValue(s, "}")
  BY DEF Feed, Inside
<1>2. AfterValue(s, "}") = Closed(s)
  BY OneOpen DEF AfterValue, Inside
<1>3. Closed(s) = Completed(r, "object")
  BY OneOpen DEF Closed, Inside
<1>4. Fielded(r) /\ r.open = << >> /\ r.members = m
  BY DEF Inside, Fielded
<1> HIDE DEF r
<1>5. Completed(r, "object") = [r EXCEPT !.at = "end", !.root = "object"]
  BY <1>4, OneOpen DEF Completed
<1>6. IsObject(Completed(r, "object")) /\ Completed(r, "object").members = m
  BY <1>4, <1>5 DEF Fielded, IsObject, Accepted
<1> QED
  BY <1>1, <1>2, <1>3, <1>6

LEMMA TwoMembers ==
  ASSUME NEW k \in Word, NEW v \in Scalar, NEW l \in Word, NEW w \in Scalar
  PROVE  LET s == Parse(<<"{", k, ":", v, ",", l, ":", w, "}">>) IN
           IsObject(s) /\ s.members = With(With(<< >>, k, v), l, w)
<1> DEFINE u == <<"{", k, ":", v, ",", l, ":", w, "}">>
           m == With(<< >>, k, v)
           n == With(m, l, w)
<1>1. /\ Len(u) = 9
      /\ u[1] = "{" /\ u[2] = k /\ u[3] = ":" /\ u[4] = v /\ u[5] = ","
      /\ u[6] = l /\ u[7] = ":" /\ u[8] = w /\ u[9] = "}"
  OBVIOUS
<1> HIDE DEF u, m, n
<1>2. PICK f : States(f, u, 9) /\ Parse(u) = f[9]
  <2>1. 9 \in Nat
    OBVIOUS
  <2> QED
    BY <1>1, <2>1, ParseStates, Zenon
<1>3. f[0] = Start /\ \A i \in 1 .. 9 : f[i] = Feed(f[i - 1], u[i])
  BY <1>2 DEF States
<1>4. /\ f[1] = Feed(f[0], u[1]) /\ f[2] = Feed(f[1], u[2]) /\ f[3] = Feed(f[2], u[3])
      /\ f[4] = Feed(f[3], u[4]) /\ f[5] = Feed(f[4], u[5]) /\ f[6] = Feed(f[5], u[6])
      /\ f[7] = Feed(f[6], u[7]) /\ f[8] = Feed(f[7], u[8]) /\ f[9] = Feed(f[8], u[9])
  BY <1>3
<1>5. Inside(f[1], "key or }", Null, << >>)
  BY <1>1, <1>3, <1>4, BraceStep, Zenon
<1>6. Inside(f[2], "colon", k, << >>)
  <2>1. Inside(Feed(f[1], k), "colon", k, << >>)
    BY <1>5, KeyStep
  <2> QED
    BY <1>1, <1>4, <2>1, Zenon
<1>7. Inside(f[3], "value", k, << >>)
  <2>1. Inside(Feed(f[2], ":"), "value", k, << >>)
    BY <1>6, ColonStep
  <2> QED
    BY <1>1, <1>4, <2>1, Zenon
<1>8. Inside(f[4], "after", k, m)
  <2>1. Inside(Feed(f[3], v), "after", k, m)
    BY <1>7, ValueStep DEF m
  <2> QED
    BY <1>1, <1>4, <2>1, Zenon
<1>9. Inside(f[5], "key", k, m)
  <2>1. Inside(Feed(f[4], ","), "key", k, m)
    BY <1>8, CommaStep
  <2> QED
    BY <1>1, <1>4, <2>1, Zenon
<1>10. Inside(f[6], "colon", l, m)
  <2>1. Inside(Feed(f[5], l), "colon", l, m)
    BY <1>9, KeyStep
  <2> QED
    BY <1>1, <1>4, <2>1, Zenon
<1>11. Inside(f[7], "value", l, m)
  <2>1. Inside(Feed(f[6], ":"), "value", l, m)
    BY <1>10, ColonStep
  <2> QED
    BY <1>1, <1>4, <2>1, Zenon
<1>12. Inside(f[8], "after", l, n)
  <2>1. Inside(Feed(f[7], w), "after", l, n)
    BY <1>11, ValueStep DEF n
  <2> QED
    BY <1>1, <1>4, <2>1, Zenon
<1>13. IsObject(f[9]) /\ f[9].members = n
  <2>1. IsObject(Feed(f[8], "}")) /\ Feed(f[8], "}").members = n
    BY <1>12, CloseStep
  <2> QED
    BY <1>1, <1>4, <2>1, Zenon
<1> QED
  BY <1>2, <1>13 DEF u, m, n

\* s is an object of the two members.
Object(s, k, v, l, w) ==
  /\ IsObject(s) /\ DOMAIN s.members = {k, l}
  /\ s.members[k] = v /\ s.members[l] = w

LEMMA TwoNames ==
  ASSUME NEW k \in Word, NEW v \in Scalar, NEW l \in Word, NEW w \in Scalar, k # l
  PROVE  Object(Parse(<<"{", k, ":", v, ",", l, ":", w, "}">>), k, v, l, w)
<1> DEFINE s == Parse(<<"{", k, ":", v, ",", l, ":", w, "}">>)
           m == With(With(<< >>, k, v), l, w)
<1>1. IsObject(s) /\ s.members = m
  BY TwoMembers
<1>2. DOMAIN m = {k, l} /\ m[k] = v /\ m[l] = w
  BY DEF With
<1> HIDE DEF s, m
<1>3. Object(s, k, v, l, w)
  BY <1>1, <1>2 DEF Object
<1> QED
  BY <1>3 DEF s

-----------------------------------------------------------------------------
(* What the client makes of a reply. *)

LEMMA EncodedText ==
  ASSUME NEW a \in Answer
  PROVE  \E k \in Word, v \in Scalar, l \in Word, w \in Scalar :
           k # l /\ Encode(a) = <<"{", k, ":", v, ",", l, ":", w, "}">>
<1>1. a \in Says /\ a.text \in Word /\ a.text \in Scalar
  BY ExchangeAssumption, Tokens DEF Says
<1>2. {"mode", "url", "message", "blob", "w", "pairing", "empty"} \subseteq Word
  BY ExchangeAssumption
<1>3. {"7", "pairing", "empty"} \subseteq Scalar
  BY ExchangeAssumption, Tokens
<1>4. a.kind \in {"image", "empty", "pairing"}
  BY <1>1 DEF Says
<1>5. CASE a.kind = "image"
  <2>1. Encode(a) = <<"{", "blob", ":", a.text, ",", "w", ":", "7", "}">>
    BY <1>5 DEF Encode
  <2> QED
    BY <1>1, <1>2, <1>3, <2>1, Zenon
<1>6. CASE a.kind = "empty"
  <2>1. Encode(a) = <<"{", "mode", ":", "empty", ",", "message", ":", a.text, "}">>
    BY <1>6 DEF Encode
  <2> QED
    BY <1>1, <1>2, <1>3, <2>1, Zenon
<1>7. CASE a.kind = "pairing"
  <2>1. Encode(a) = <<"{", "mode", ":", "pairing", ",", "url", ":", a.text, "}">>
    BY <1>7 DEF Encode
  <2> QED
    BY <1>1, <1>2, <1>3, <2>1, Zenon
<1> QED
  BY <1>4, <1>5, <1>6, <1>7

\* What is said is what is understood.
LEMMA ReplyUnderstood ==
  ASSUME NEW a \in Answer
  PROVE  ParseReply(Encode(a)) = a
<1>1. a \in Says /\ a.text \in Word /\ a.text \in Scalar
  BY ExchangeAssumption, Tokens DEF Says
<1>2. {"mode", "url", "message", "blob", "w", "pairing", "empty"} \subseteq Word
  BY ExchangeAssumption
<1>3. "7" \in Number /\ {"7", "pairing", "empty"} \subseteq Scalar
  BY ExchangeAssumption, Tokens
<1>4. a.kind \in {"image", "empty", "pairing"}
  BY <1>1 DEF Says
<1>5. \A x \in {"image", "empty", "pairing"} : a.kind = x => a = [kind |-> x, text |-> a.text]
  BY <1>1 DEF Says
<1> DEFINE s == Parse(Encode(a))
<1>6. CASE a.kind = "image"
  <2>1. Encode(a) = <<"{", "blob", ":", a.text, ",", "w", ":", "7", "}">>
    BY <1>6 DEF Encode
  <2>2. /\ "blob" \in Word /\ a.text \in Scalar /\ "w" \in Word /\ "7" \in Scalar
        /\ "blob" # "w"
    BY <1>1, <1>2, <1>3
  <2>3. Object(s, "blob", a.text, "w", "7")
    <3>1. Object(Parse(<<"{", "blob", ":", a.text, ",", "w", ":", "7", "}">>),
                 "blob", a.text, "w", "7")
      BY <2>2, TwoNames
    <3> QED
      BY <2>1, <3>1, Zenon
  <2> USE <2>3 DEF Object
  <2> HIDE DEF s
  <2>4. ~ HasMember(s, "error") /\ ~ HasMember(s, "mode") /\ HasMember(s, "blob")
    BY <2>3 DEF HasMember
  <2>5. /\ ~ Throws(s, "mode", Word) /\ ~ Throws(s, "blob", Word)
        /\ ~ Throws(s, "w", Number \cup Boolean)
    BY <1>1, <1>3, <2>3, <2>4 DEF Throws
  <2>6. Value(s, "mode", "") = "" /\ Value(s, "w", "0") = "7" /\ Value(s, "blob", "") = a.text
    BY <2>3, <2>4 DEF Value, HasMember
  <2> a.text # ""
    BY <1>6, ExchangeAssumption
  <2>7. ParseReply(Encode(a)) = Reply("image", s, "blob")
    BY <2>3, <2>4, <2>5, <2>6 DEF ParseReply, s
  <2>8. Reply("image", s, "blob") = [kind |-> "image", text |-> a.text]
    BY <2>5, <2>6 DEF Reply
  <2> QED
    BY <1>5, <1>6, <2>7, <2>8
<1>7. CASE a.kind = "empty"
  <2>1. Encode(a) = <<"{", "mode", ":", "empty", ",", "message", ":", a.text, "}">>
    BY <1>7 DEF Encode
  <2>2. /\ "mode" \in Word /\ "empty" \in Scalar /\ "message" \in Word /\ a.text \in Scalar
        /\ "mode" # "message"
    BY <1>1, <1>2, <1>3
  <2>3. Object(s, "mode", "empty", "message", a.text)
    <3>1. Object(Parse(<<"{", "mode", ":", "empty", ",", "message", ":", a.text, "}">>),
                 "mode", "empty", "message", a.text)
      BY <2>2, TwoNames
    <3> QED
      BY <2>1, <3>1, Zenon
  <2> USE <2>3 DEF Object
  <2> HIDE DEF s
  <2>4. ~ HasMember(s, "error")
    BY <2>3 DEF HasMember
  <2>5. ~ Throws(s, "mode", Word) /\ ~ Throws(s, "message", Word)
    BY <1>1, <1>2, <2>3 DEF Throws
  <2>6. Value(s, "mode", "") = "empty" /\ Value(s, "message", "") = a.text
    BY <2>3 DEF Value, HasMember
  <2>7. ParseReply(Encode(a)) = Reply("empty", s, "message")
    BY <2>3, <2>4, <2>5, <2>6 DEF ParseReply, s
  <2>8. Reply("empty", s, "message") = [kind |-> "empty", text |-> a.text]
    BY <2>5, <2>6 DEF Reply
  <2> QED
    BY <1>5, <1>7, <2>7, <2>8
<1>8. CASE a.kind = "pairing"
  <2>1. Encode(a) = <<"{", "mode", ":", "pairing", ",", "url", ":", a.text, "}">>
    BY <1>8 DEF Encode
  <2>2. /\ "mode" \in Word /\ "pairing" \in Scalar /\ "url" \in Word /\ a.text \in Scalar
        /\ "mode" # "url"
    BY <1>1, <1>2, <1>3
  <2>3. Object(s, "mode", "pairing", "url", a.text)
    <3>1. Object(Parse(<<"{", "mode", ":", "pairing", ",", "url", ":", a.text, "}">>),
                 "mode", "pairing", "url", a.text)
      BY <2>2, TwoNames
    <3> QED
      BY <2>1, <3>1, Zenon
  <2> USE <2>3 DEF Object
  <2> HIDE DEF s
  <2>4. ~ HasMember(s, "error")
    BY <2>3 DEF HasMember
  <2>5. ~ Throws(s, "mode", Word) /\ ~ Throws(s, "url", Word)
    BY <1>1, <1>2, <2>3 DEF Throws
  <2>6. Value(s, "mode", "") = "pairing" /\ Value(s, "url", "") = a.text
    BY <2>3 DEF Value, HasMember
  <2>7. ParseReply(Encode(a)) = Reply("pairing", s, "url")
    BY <2>3, <2>4, <2>5, <2>6 DEF ParseReply, s
  <2>8. Reply("pairing", s, "url") = [kind |-> "pairing", text |-> a.text]
    BY <2>5, <2>6 DEF Reply
  <2> QED
    BY <1>5, <1>8, <2>7, <2>8
<1> QED
  BY <1>4, <1>6, <1>7, <1>8

LEMMA ReplyTypes ==
  ASSUME NEW text
  PROVE  ParseReply(text) \in Says \cup {Nothing, Thrown}
<1> DEFINE s == Parse(text)
<1>1. \A n : ~ Throws(s, n, Word) => Value(s, n, "") \in Word
  BY ExchangeAssumption DEF Throws, Value
<1>2. ASSUME NEW kind \in {"image", "empty", "pairing"}, NEW n
      PROVE  Reply(kind, s, n) \in Says \cup {Thrown}
  BY <1>1 DEF Reply, Says
<1> QED
  BY <1>2 DEF ParseReply

-----------------------------------------------------------------------------
(* Sequences in pieces. *)

LEMMA Pieces ==
  ASSUME NEW S, NEW s \in Seq(S), NEW n \in 0 .. Len(s)
  PROVE  /\ SubSeq(s, 1, n) \in Seq(S) /\ SubSeq(s, n + 1, Len(s)) \in Seq(S)
         /\ Len(SubSeq(s, 1, n)) = n /\ Len(SubSeq(s, n + 1, Len(s))) = Len(s) - n
         /\ \A i \in 1 .. n : SubSeq(s, 1, n)[i] = s[i]
         /\ \A i \in 1 .. Len(s) - n : SubSeq(s, n + 1, Len(s))[i] = s[n + i]
<1>1. Len(s) \in Nat /\ n \in Nat /\ n =< Len(s) /\ \A i \in 1 .. Len(s) : s[i] \in S
  OBVIOUS
<1>2. \A i \in 1 .. n : s[i] \in S
  BY <1>1
<1>3. \A i \in n + 1 .. Len(s) : s[i] \in S
  BY <1>1
<1>4. /\ SubSeq(s, 1, n) \in Seq(S) /\ Len(SubSeq(s, 1, n)) = n
      /\ \A i \in 1 .. n : SubSeq(s, 1, n)[i] = s[i]
  BY <1>1, <1>2, SubSeqProperties
<1>5. /\ SubSeq(s, n + 1, Len(s)) \in Seq(S)
      /\ Len(SubSeq(s, n + 1, Len(s))) = Len(s) - n
      /\ \A i \in 1 .. Len(s) - n : SubSeq(s, n + 1, Len(s))[i] = s[n + 1 + i - 1]
  BY <1>1, <1>3, SubSeqProperties
<1> QED
  BY <1>1, <1>4, <1>5

LEMMA Rejoined ==
  ASSUME NEW S, NEW s \in Seq(S), NEW n \in 0 .. Len(s)
  PROVE  SubSeq(s, 1, n) \o SubSeq(s, n + 1, Len(s)) = s
<1>1. 1 \in 1 .. Len(s) + 1 /\ n \in 1 - 1 .. Len(s) /\ Len(s) \in n .. Len(s)
  OBVIOUS
<1>2. SubSeq(s, 1, n) \o SubSeq(s, n + 1, Len(s)) = SubSeq(s, 1, Len(s))
  BY <1>1, ConcatAdjacentSubSeq
<1> QED
  BY <1>2, SubSeqFull

\* One sequence after another: opaque where only the order of the parts matters.
Cat(s, t) == s \o t

LEMMA CatIs ==
  ASSUME NEW S, NEW s \in Seq(S), NEW t \in Seq(S)
  PROVE  /\ Cat(s, t) \in Seq(S) /\ Len(Cat(s, t)) = Len(s) + Len(t)
         /\ \A i \in 1 .. Len(s) + Len(t) :
              Cat(s, t)[i] = IF i =< Len(s) THEN s[i] ELSE t[i - Len(s)]
BY ConcatProperties DEF Cat

LEMMA ThreeParts ==
  ASSUME NEW S, NEW s \in Seq(S), NEW t \in Seq(S), NEW u \in Seq(S)
  PROVE  Cat(Cat(s, t), u) = Cat(s, Cat(t, u))
BY ConcatAssociative DEF Cat

LEMMA FourParts ==
  ASSUME NEW S, NEW s \in Seq(S), NEW t \in Seq(S), NEW u \in Seq(S), NEW v \in Seq(S)
  PROVE  Cat(Cat(s, t), Cat(u, v)) = Cat(s, Cat(Cat(t, u), v))
<1>1. Cat(u, v) \in Seq(S)
  BY CatIs
<1> QED
  BY <1>1, ThreeParts

\* Without the element x.
LEMMA Plain ==
  ASSUME NEW S, NEW s \in Seq(S), NEW x, x \notin Range(s)
  PROVE  s \in Seq(S \ {x})
<1>1. \A i \in 1 .. Len(s) : s[i] \in S \ {x}
  BY DEF Range
<1> QED
  BY <1>1

LEMMA NineTokens ==
  ASSUME NEW T, NEW a \in T, NEW b \in T, NEW c \in T, NEW d \in T, NEW e \in T,
         NEW f \in T, NEW g \in T, NEW h \in T, NEW i \in T
  PROVE  <<a, b, c, d, e, f, g, h, i>> \in Seq(T)
OBVIOUS

LEMMA GarbageLine ==
  ASSUME NEW text \in Garbage
  PROVE  Append(text, Newline) \in Seq(Token)
<1>1. text \in Seq(Token \ {Newline}) /\ Token \ {Newline} \subseteq Token
  BY ExchangeAssumption
<1>2. text \in Seq(Token)
  BY <1>1, SeqMonotonic
<1> QED
  BY <1>2, AppendProperties DEF Token

LEMMA EncodeIs ==
  ASSUME NEW a \in Answer
  PROVE  /\ Encode(a) \in Seq(Token \ {Newline}) /\ Encode(a) \in Seq(Token)
         /\ Accepted(Parse(Encode(a)))
<1>1. PICK k \in Word, v \in Scalar, l \in Word, w \in Scalar :
           k # l /\ Encode(a) = <<"{", k, ":", v, ",", l, ":", w, "}">>
  BY EncodedText
<1>2. /\ k \in Token \ {Newline} /\ v \in Token \ {Newline}
      /\ l \in Token \ {Newline} /\ w \in Token \ {Newline}
  BY Tokens, ExchangeAssumption DEF Token
<1>3. /\ "{" \in Token \ {Newline} /\ "}" \in Token \ {Newline}
      /\ ":" \in Token \ {Newline} /\ "," \in Token \ {Newline}
  BY DEF Token, Newline
<1> DEFINE T == Token \ {Newline}
<1>4. Encode(a) \in Seq(T)
  <2>1. /\ k \in T /\ v \in T /\ l \in T /\ w \in T
        /\ "{" \in T /\ "}" \in T /\ ":" \in T /\ "," \in T
    BY <1>2, <1>3
  <2> HIDE DEF T
  <2>2. <<"{", k, ":", v, ",", l, ":", w, "}">> \in Seq(T)
    BY <2>1, NineTokens
  <2> QED
    BY <1>1, <2>2, Zenon
<1>5. Encode(a) \in Seq(Token)
  BY <1>4
<1>6. Object(Parse(<<"{", k, ":", v, ",", l, ":", w, "}">>), k, v, l, w)
  BY <1>1, TwoNames
<1> QED
  BY <1>1, <1>4, <1>5, <1>6, Zenon DEF Object, IsObject

LEMMA EncodedLine ==
  ASSUME NEW a \in Answer
  PROVE  LET e == Append(Encode(a), Newline) IN
           /\ e \in Seq(Token) /\ Len(e) \in Nat /\ Len(e) = Len(Encode(a)) + 1
           /\ e[Len(e)] = Newline
           /\ \A i \in 1 .. Len(Encode(a)) : e[i] = Encode(a)[i] /\ e[i] # Newline
<1> DEFINE s == Encode(a)
<1>1. s \in Seq(Token) /\ s \in Seq(Token \ {Newline})
  BY EncodeIs
<1>2. Len(s) \in Nat /\ \A i \in 1 .. Len(s) : s[i] # Newline
  BY <1>1
<1>3. Newline \in Token
  BY DEF Token
<1> HIDE DEF s
<1> DEFINE e == Append(s, Newline)
<1>4. /\ e \in Seq(Token) /\ Len(e) = Len(s) + 1 /\ e[Len(s) + 1] = Newline
      /\ \A i \in 1 .. Len(s) : e[i] = s[i]
  BY <1>1, <1>3, AppendProperties
<1> QED
  BY <1>2, <1>4 DEF s

\* What is understood of an answer cut short: nothing.
LEMMA HalfReply ==
  ASSUME NEW a \in Answer, NEW k \in 0 .. Len(Encode(a)) - 1
  PROVE  ParseReply(SubSeq(Encode(a), 1, k)) = Nothing
<1>1. ~ Accepted(Parse(SubSeq(Encode(a), 1, k)))
  BY EncodeIs, NoHalfText
<1> QED
  BY <1>1 DEF ParseReply, IsObject

-----------------------------------------------------------------------------
(* The type invariant, and what each stream holds. *)

Begins(w, e) == Len(w) =< Len(e) /\ \A i \in 1 .. Len(w) : w[i] = e[i]

LEMMA BeginsSooner ==
  ASSUME NEW S, NEW s \in Seq(S), NEW t \in Seq(S), NEW u \in Seq(S), NEW e,
         Len(e) \in Nat, Begins(Cat(s, Cat(t, u)), e)
  PROVE  Begins(Cat(s, t), e)
<1> DEFINE v == Cat(s, t)
           w == Cat(v, u)
<1>1. v \in Seq(S)
  BY CatIs
<1>2. Begins(w, e)
  BY ThreeParts
<1> HIDE DEF v
<1>3. Len(v) \in Nat /\ Len(u) \in Nat
  BY <1>1
<1>4. /\ Len(w) = Len(v) + Len(u)
      /\ \A i \in 1 .. Len(v) + Len(u) : w[i] = IF i =< Len(v) THEN v[i] ELSE u[i - Len(v)]
  BY <1>1, CatIs
<1> HIDE DEF w
<1>5. Len(v) =< Len(w) /\ \A i \in 1 .. Len(v) : i \in 1 .. Len(w) /\ w[i] = v[i]
  BY <1>3, <1>4
<1> QED
  BY <1>2, <1>3, <1>4, <1>5 DEF Begins, v

\* What was read, can be read and will be written begins the encoded answer.
OfAnswer(c) ==
  client[c] # "closed" /\ meant[c] \in Answer =>
    Begins(Cat(line, Cat(down[c], out[c])), Append(Encode(meant[c]), Newline))

Stream(c) ==
  /\ client[c] = "closed" => down[c] = << >>
  /\ server[c] # "writing" => out[c] = << >>
  /\ server[c] \in {"queued", "reading", "serving", "late"} => meant[c] = Nothing
  /\ client[c] = "writing" => up[c] < 2 /\ meant[c] = Nothing /\ server[c] # "serving"
  /\ client[c] # "closed" /\ meant[c] = Nothing =>
       server[c] # "writing" /\ down[c] = << >> /\ line = << >>

\* The client has one connection open at a time.
OneClient ==
  /\ \A c, d \in Conn : client[c] # "closed" /\ client[d] # "closed" => c = d
  /\ \A c \in Conn : client[c] # "closed" => result = Pending
  /\ (\A c \in Conn : client[c] = "closed") => line = << >>

IInv == TypeOK /\ OneClient /\ (\A c \in Conn : Stream(c)) /\ \A c \in Conn : OfAnswer(c)

LEMMA Pieced ==
  ASSUME TypeOK, NEW c \in Conn, NEW n \in Nat
  PROVE  /\ n \in 1 .. Len(down[c]) =>
              /\ SubSeq(down[c], 1, n) \in Seq(Token)
              /\ SubSeq(down[c], n + 1, Len(down[c])) \in Seq(Token)
         /\ n \in 1 .. Len(out[c]) =>
              /\ SubSeq(out[c], 1, n) \in Seq(Token)
              /\ SubSeq(out[c], n + 1, Len(out[c])) \in Seq(Token)
<1>1. down[c] \in Seq(Token) /\ out[c] \in Seq(Token)
  BY DEF TypeOK
<1>2. Len(down[c]) \in Nat /\ Len(out[c]) \in Nat
  BY <1>1
<1>3. ASSUME n \in 1 .. Len(down[c]) PROVE n \in 0 .. Len(down[c])
  BY <1>2, <1>3
<1>4. ASSUME n \in 1 .. Len(out[c]) PROVE n \in 0 .. Len(out[c])
  BY <1>2, <1>4
<1> QED
  BY <1>1, <1>3, <1>4, Pieces

LEMMA ReturnTypes ==
  ASSUME TypeOK, NEW c \in Conn, NEW r \in Says \cup {Nothing, Thrown}, Return(c, r)
  PROVE  TypeOK'
<1>1. << >> \in Seq(Token) /\ << >> \in Seq(Token \ {Newline}) /\ r \in Result
  BY DEF Result
<1> QED
  BY <1>1 DEF TypeOK, Return, backend

LEMMA ClientTypes ==
  ASSUME IInv, NEW c \in Conn, Client(c)
  PROVE  TypeOK'
<1> USE DEF IInv
<1>1. CASE Connect(c)
  BY <1>1 DEF TypeOK, Connect, Result, backend
<1>2. CASE WritePiece(c)
  <2>1. up[c] \in 0 .. 2 /\ up[c] < 2
    BY <1>2 DEF TypeOK, WritePiece, Stream
  <2>2. up[c] + 1 \in 0 .. 2
    BY <2>1
  <2> QED
    BY <1>2, <2>2 DEF TypeOK, WritePiece, backend
<1>3. CASE BrokenPipe(c) \/ GiveUp(c)
  BY <1>3, ReturnTypes DEF BrokenPipe, GiveUp
<1>4. ASSUME NEW n \in 1 .. Len(down[c]), Read(c, n) PROVE TypeOK'
  <2> DEFINE p == SubSeq(down[c], 1, n)
             q == SubSeq(down[c], n + 1, Len(down[c]))
  <2>1. p \in Seq(Token) /\ q \in Seq(Token)
    BY Pieced
  <2>2. Newline \notin Range(p) /\ line' = line \o p /\ down' = [down EXCEPT ![c] = q]
    BY <1>4 DEF Read
  <2> HIDE DEF p, q
  <2>3. p \in Seq(Token \ {Newline})
    BY <2>1, <2>2, Plain
  <2>4. line' \in Seq(Token \ {Newline})
    BY <2>2, <2>3, ConcatProperties DEF TypeOK
  <2>5. down' \in [Conn -> Seq(Token)]
    BY <2>1, <2>2 DEF TypeOK
  <2> QED
    BY <1>4, <2>4, <2>5 DEF TypeOK, Read, backend
<1>5. CASE ReadNewline(c)
  BY <1>5, ReplyTypes, ReturnTypes DEF ReadNewline
<1>6. CASE ReadEnds(c)
  BY <1>6, ReplyTypes, ReturnTypes DEF ReadEnds
<1> QED
  BY <1>1, <1>2, <1>3, <1>4, <1>5, <1>6 DEF Client

LEMMA EventTypes ==
  ASSUME TypeOK, NEW e, Happens(e)
  PROVE  events' \in 0 .. MaxEvents
<1>1. MaxEvents \in Nat /\ events \in 0 .. MaxEvents
  BY ExchangeAssumption DEF TypeOK
<1> QED
  BY <1>1 DEF Happens

LEMMA HandlerTypes ==
  ASSUME IInv, NEW c \in Conn, Handler(c)
  PROVE  TypeOK'
<1> USE DEF IInv
<1>1. CASE Accept(c)
  BY <1>1 DEF TypeOK, Accept, backend
<1>6. ASSUME NEW what \in Answer \cup {Thrown}, NEW text, HasToSay(c, what, text),
             Append(text, Newline) \in Seq(Token), events' \in 0 .. MaxEvents
      PROVE  TypeOK'
  <2>1. << >> \in Seq(Token)
    OBVIOUS
  <2>2. meant' \in [Conn -> Answer \cup {Nothing, Thrown}]
    BY <1>6 DEF TypeOK, HasToSay
  <2>3. out' \in [Conn -> Seq(Token)]
    BY <1>6, <2>1 DEF TypeOK, HasToSay
  <2> QED
    BY <1>6, <2>2, <2>3 DEF TypeOK, HasToSay, backend
<1>2. ASSUME NEW a \in Answer, Answered(c, a) PROVE TypeOK'
  <2>1. events' \in 0 .. MaxEvents
    BY <1>2 DEF TypeOK, Answered
  <2>2. Append(Encode(a), Newline) \in Seq(Token)
    BY EncodedLine
  <2> QED
    BY <1>2, <1>6, <2>1, <2>2 DEF Answered
<1>3. ASSUME NEW text \in Garbage, Confused(c, text) PROVE TypeOK'
  <2>1. events' \in 0 .. MaxEvents
    BY <1>3, EventTypes DEF Confused
  <2> QED
    BY <1>3, <1>6, <2>1, GarbageLine DEF Confused
<1>4. ASSUME NEW n \in 1 .. Len(out[c]), Write(c, n) PROVE TypeOK'
  <2> DEFINE p == SubSeq(out[c], 1, n)
             q == SubSeq(out[c], n + 1, Len(out[c]))
  <2>1. p \in Seq(Token) /\ q \in Seq(Token)
    BY Pieced
  <2>2. /\ down' = [down EXCEPT ![c] = down[c] \o p]
        /\ out' = [out EXCEPT ![c] = q]
    BY <1>4 DEF Write
  <2> HIDE DEF p, q
  <2>3. down[c] \o p \in Seq(Token)
    BY <2>1, ConcatProperties DEF TypeOK
  <2>4. down' \in [Conn -> Seq(Token)] /\ out' \in [Conn -> Seq(Token)]
    BY <2>1, <2>2, <2>3 DEF TypeOK
  <2>5. UNCHANGED <<proc, term, worker, client, server, up, meant, line, result, events>>
    BY <1>4 DEF Write, backend
  <2> QED
    BY <2>4, <2>5 DEF TypeOK
<1>5. CASE HangUp(c)
  <2>1. << >> \in Seq(Token)
    OBVIOUS
  <2> QED
    BY <1>5, <2>1 DEF TypeOK, HangUp, backend
<1>7. CASE Takes(c)
  BY <1>7 DEF TypeOK, Takes, backend
<1>8. CASE Deadline(c)
  <2>1. CASE server' = [server EXCEPT ![c] = "late"] /\ ~ HangUp(c)
    BY <1>8, <2>1 DEF TypeOK, Deadline, backend
  <2> QED
    BY <1>5, <1>8, <2>1 DEF Deadline
<1> QED
  BY <1>1, <1>2, <1>3, <1>4, <1>5, <1>7, <1>8 DEF Handler, HandlerReturns, TooLate

LEMMA ProcessTypes ==
  ASSUME TypeOK, Process
  PROVE  TypeOK'
<1>1. << >> \in Seq(Token)
  OBVIOUS
<1>2. \A e : Happens(e) => events' \in 0 .. MaxEvents
  BY EventTypes
<1>3. CASE Listen
  BY <1>3 DEF TypeOK, Listen, sockets
<1>4. CASE ListenFails
  BY <1>2, <1>4 DEF TypeOK, ListenFails, sockets
<1>5. CASE Terminate
  BY <1>2, <1>5 DEF TypeOK, Terminate, sockets
<1>6. CASE ServeReturns
  BY <1>6 DEF TypeOK, ServeReturns
<1>7. CASE WorkerReturns
  BY <1>7 DEF TypeOK, WorkerReturns, sockets
<1>8. ASSUME Die, events' \in 0 .. MaxEvents PROVE TypeOK'
  BY <1>1, <1>8 DEF TypeOK, Die
<1>9. CASE Exit
  BY <1>8, <1>9 DEF Exit, TypeOK
<1>10. CASE Kill
  BY <1>2, <1>8, <1>10 DEF Kill
<1>11. CASE Restart
  BY <1>11 DEF TypeOK, Restart, sockets
<1> QED
  BY <1>3, <1>4, <1>5, <1>6, <1>7, <1>9, <1>10, <1>11 DEF Process

LEMMA TypeStep ==
  ASSUME IInv, [Next]_vars
  PROVE  TypeOK'
<1>1. CASE \E c \in Conn : Client(c) \/ Handler(c)
  BY <1>1, ClientTypes, HandlerTypes
<1>2. CASE ConnectFails
  BY <1>2 DEF IInv, TypeOK, ConnectFails, Result, backend, sockets
<1>3. CASE Process
  BY <1>3, ProcessTypes DEF IInv
<1>4. CASE UNCHANGED vars
  BY <1>4 DEF IInv, TypeOK, vars, backend, sockets
<1> QED
  BY <1>1, <1>2, <1>3, <1>4 DEF Next

-----------------------------------------------------------------------------
(* The streams, step by step. *)

Streams == OneClient /\ (\A c \in Conn : Stream(c)) /\ \A c \in Conn : OfAnswer(c)

\* A connection whose stream and client end stay keeps what is known of it, and
\* so does one whose client has closed, whatever the line.
LEMMA OtherStream ==
  ASSUME NEW d \in Conn, Stream(d), OfAnswer(d),
         client'[d] = client[d], server'[d] = server[d], up'[d] = up[d],
         out'[d] = out[d], down'[d] = down[d], meant'[d] = meant[d],
         line' = line \/ client[d] = "closed"
  PROVE  Stream(d)' /\ OfAnswer(d)'
BY DEF Stream, OfAnswer

LEMMA NotAnswers ==
  Nothing \notin Answer /\ Thrown \notin Answer /\ Thrown # Nothing
<1>1. Nothing \notin Says /\ Thrown \notin Says /\ Thrown # Nothing
  BY DEF Nothing, Thrown, Says
<1> QED
  BY <1>1, ExchangeAssumption

LEMMA ReturnStreams ==
  ASSUME IInv, NEW c \in Conn, NEW r \in Says \cup {Nothing, Thrown}, client[c] # "closed",
         Return(c, r)
  PROVE  Streams'
<1> USE DEF IInv
<1>1. \A d \in Conn : d # c => client[d] = "closed"
  BY DEF OneClient
<1>2. /\ client' = [client EXCEPT ![c] = "closed"] /\ down' = [down EXCEPT ![c] = << >>]
      /\ meant' = [meant EXCEPT ![c] = Nothing] /\ line' = << >>
      /\ server' = server /\ up' = up /\ out' = out
  BY DEF Return
<1>3. /\ client'[c] = "closed" /\ down'[c] = << >> /\ meant'[c] = Nothing
      /\ \A d \in Conn : d # c => /\ client'[d] = client[d] /\ down'[d] = down[d]
                                /\ meant'[d] = meant[d]
  BY <1>2 DEF TypeOK
<1>4. OneClient'
  BY <1>1, <1>2, <1>3 DEF OneClient
<1>5. Stream(c)' /\ OfAnswer(c)'
  BY <1>2, <1>3 DEF Stream, OfAnswer
<1>6. ASSUME NEW d \in Conn, d # c PROVE Stream(d)' /\ OfAnswer(d)'
  BY <1>1, <1>2, <1>3, <1>6, OtherStream
<1> QED
  BY <1>4, <1>5, <1>6 DEF Streams

LEMMA ReadStreams ==
  ASSUME IInv, NEW c \in Conn, NEW n \in 1 .. Len(down[c]), Read(c, n)
  PROVE  Streams'
<1> USE DEF IInv
<1> DEFINE p == SubSeq(down[c], 1, n)
           q == SubSeq(down[c], n + 1, Len(down[c]))
<1>1. \A d \in Conn : d # c => client[d] = "closed"
  BY DEF OneClient, Read
<1>2. /\ client[c] = "reading" /\ line' = line \o p /\ down' = [down EXCEPT ![c] = q]
      /\ client' = client /\ server' = server /\ up' = up /\ out' = out /\ meant' = meant
      /\ result' = result
  BY DEF Read
<1>3. down'[c] = q /\ \A d \in Conn : d # c => down'[d] = down[d]
  BY <1>2 DEF TypeOK
<1>4. down[c] # << >>
  OBVIOUS
<1>5. Cat(line', Cat(down'[c], out'[c])) = Cat(line, Cat(down[c], out[c]))
  <2>1. /\ line \in Seq(Token) /\ p \in Seq(Token) /\ q \in Seq(Token)
        /\ out[c] \in Seq(Token) /\ down[c] \in Seq(Token)
    BY Pieced DEF TypeOK
  <2>2. Cat(p, q) = down[c]
    <3>1. Len(down[c]) \in Nat /\ n \in 0 .. Len(down[c])
      BY <2>1
    <3> QED
      BY <2>1, <3>1, Rejoined DEF Cat
  <2> HIDE DEF p, q
  <2>3. Cat(Cat(line, p), Cat(q, out[c])) = Cat(line, Cat(Cat(p, q), out[c]))
    BY <2>1, FourParts
  <2>4. line' = Cat(line, p) /\ down'[c] = q /\ out' = out
    BY <1>2, <1>3 DEF Cat
  <2> QED
    BY <2>2, <2>3, <2>4
<1> HIDE DEF p, q
<1>6. OneClient'
  BY <1>2 DEF OneClient
<1>7. Stream(c)'
  BY <1>2, <1>4 DEF Stream
<1>8. OfAnswer(c)'
  BY <1>2, <1>5 DEF OfAnswer
<1>9. ASSUME NEW d \in Conn, d # c PROVE Stream(d)' /\ OfAnswer(d)'
  BY <1>1, <1>2, <1>3, <1>9, OtherStream
<1> QED
  BY <1>6, <1>7, <1>8, <1>9 DEF Streams

LEMMA ConnectStreams ==
  ASSUME IInv, NEW c \in Conn, Connect(c)
  PROVE  Streams'
<1> USE DEF IInv
<1>1. (\A d \in Conn : client[d] = "closed") /\ line = << >>
  BY DEF OneClient, Connect
<1>2. /\ client' = [client EXCEPT ![c] = "writing"] /\ server' = [server EXCEPT ![c] = "queued"]
      /\ up' = [up EXCEPT ![c] = 0] /\ meant' = [meant EXCEPT ![c] = Nothing]
      /\ result' = Pending /\ out' = out /\ down' = down /\ line' = line
      /\ server[c] = "closed"
  BY DEF Connect, Unused
<1>3. /\ client'[c] = "writing" /\ server'[c] = "queued" /\ up'[c] = 0 /\ meant'[c] = Nothing
      /\ \A d \in Conn : d # c => /\ client'[d] = client[d] /\ server'[d] = server[d]
                                /\ up'[d] = up[d] /\ meant'[d] = meant[d]
  BY <1>2 DEF TypeOK
<1>4. OneClient'
  BY <1>1, <1>2, <1>3 DEF OneClient
<1>5. Stream(c)'
  BY <1>1, <1>2, <1>3 DEF Stream
<1>6. OfAnswer(c)'
  BY <1>3, NotAnswers DEF OfAnswer
<1>7. ASSUME NEW d \in Conn, d # c PROVE Stream(d)' /\ OfAnswer(d)'
  BY <1>2, <1>3, <1>7, OtherStream
<1> QED
  BY <1>4, <1>5, <1>6, <1>7 DEF Streams

LEMMA WritePieceStreams ==
  ASSUME IInv, NEW c \in Conn, WritePiece(c)
  PROVE  Streams'
<1> USE DEF IInv
<1>1. /\ client[c] = "writing"
      /\ client' = [client EXCEPT ![c] = IF up[c] = 1 THEN "reading" ELSE @]
      /\ up' = [up EXCEPT ![c] = @ + 1] /\ server' = server /\ out' = out /\ down' = down
      /\ meant' = meant /\ line' = line /\ result' = result
  BY DEF WritePiece
<1>2. /\ client'[c] = (IF up[c] = 1 THEN "reading" ELSE "writing") /\ up'[c] = up[c] + 1
      /\ \A d \in Conn : d # c => client'[d] = client[d] /\ up'[d] = up[d]
  BY <1>1 DEF TypeOK
<1>3. OneClient'
  BY <1>1, <1>2 DEF OneClient
<1>4. up[c] \in 0 .. 2 /\ Stream(c)
  BY DEF TypeOK
<1>5. Stream(c)'
  BY <1>1, <1>2, <1>4 DEF Stream
<1>6. OfAnswer(c)'
  BY <1>1, <1>2, <1>4, NotAnswers DEF Stream, OfAnswer
<1>7. ASSUME NEW d \in Conn, d # c PROVE Stream(d)' /\ OfAnswer(d)'
  BY <1>1, <1>2, <1>7, OtherStream
<1> QED
  BY <1>3, <1>5, <1>6, <1>7 DEF Streams

LEMMA WriteStreams ==
  ASSUME IInv, NEW c \in Conn, NEW n \in 1 .. Len(out[c]), Write(c, n)
  PROVE  Streams'
<1> USE DEF IInv
<1> DEFINE p == SubSeq(out[c], 1, n)
           q == SubSeq(out[c], n + 1, Len(out[c]))
<1>1. /\ server[c] = "writing" /\ client[c] # "closed"
      /\ down' = [down EXCEPT ![c] = down[c] \o p] /\ out' = [out EXCEPT ![c] = q]
      /\ client' = client /\ server' = server /\ up' = up /\ meant' = meant /\ line' = line
      /\ result' = result
  BY DEF Write
<1>2. /\ down'[c] = down[c] \o p /\ out'[c] = q
      /\ \A d \in Conn : d # c => down'[d] = down[d] /\ out'[d] = out[d]
  BY <1>1 DEF TypeOK
<1>3. Cat(line', Cat(down'[c], out'[c])) = Cat(line, Cat(down[c], out[c]))
  <2>1. /\ p \in Seq(Token) /\ q \in Seq(Token)
        /\ out[c] \in Seq(Token) /\ down[c] \in Seq(Token)
    BY Pieced DEF TypeOK
  <2>2. Cat(p, q) = out[c]
    <3>1. Len(out[c]) \in Nat /\ n \in 0 .. Len(out[c])
      BY <2>1
    <3> QED
      BY <2>1, <3>1, Rejoined DEF Cat
  <2> HIDE DEF p, q
  <2>3. Cat(Cat(down[c], p), q) = Cat(down[c], Cat(p, q))
    BY <2>1, ThreeParts
  <2>4. down'[c] = Cat(down[c], p) /\ out'[c] = q /\ line' = line
    BY <1>1, <1>2 DEF Cat
  <2> QED
    BY <2>2, <2>3, <2>4
<1> HIDE DEF p, q
<1>4. OneClient'
  BY <1>1 DEF OneClient
<1>5. Stream(c)'
  BY <1>1 DEF Stream
<1>6. OfAnswer(c)'
  BY <1>1, <1>3 DEF OfAnswer
<1>7. ASSUME NEW d \in Conn, d # c PROVE Stream(d)' /\ OfAnswer(d)'
  BY <1>1, <1>2, <1>7, OtherStream
<1> QED
  BY <1>4, <1>5, <1>6, <1>7 DEF Streams

\* The handler goes on to another stage and has nothing to say yet.
LEMMA StageStreams ==
  ASSUME IInv, NEW c \in Conn, NEW stage \in {"reading", "serving", "late"},
         server[c] \in {"queued", "reading", "serving"},
         stage = "serving" => client[c] # "writing",
         server' = [server EXCEPT ![c] = stage],
         UNCHANGED <<client, up, out, down, meant, line, result>>
  PROVE  Streams'
<1>1. server'[c] = stage /\ \A d \in Conn : d # c => server'[d] = server[d]
  BY DEF IInv, TypeOK
<1>2. OneClient'
  BY DEF IInv, OneClient
<1>3. Stream(c)' /\ OfAnswer(c)'
  BY <1>1 DEF IInv, Stream, OfAnswer
<1>4. ASSUME NEW d \in Conn, d # c PROVE Stream(d)' /\ OfAnswer(d)'
  BY <1>1, <1>4, OtherStream DEF IInv
<1> QED
  BY <1>2, <1>3, <1>4 DEF Streams

LEMMA AnsweredStreams ==
  ASSUME IInv, NEW c \in Conn, NEW a, NEW text, Append(text, Newline) \in Seq(Token),
         a = Thrown \/ (a \in Answer /\ text = Encode(a)),
         HasToSay(c, a, text)
  PROVE  Streams'
<1> DEFINE w == Append(text, Newline)
           there == client[c] # "closed"
<1> USE DEF IInv
<1>0. /\ server[c] = "serving" /\ server' = [server EXCEPT ![c] = "writing"]
      /\ meant' = [meant EXCEPT ![c] = IF there THEN a ELSE Nothing]
      /\ out' = [out EXCEPT ![c] = IF there THEN w ELSE << >>]
      /\ client' = client /\ up' = up /\ down' = down /\ line' = line /\ result' = result
  BY DEF HasToSay
<1> HIDE DEF w
<1>1. /\ server'[c] = "writing" /\ meant'[c] = (IF there THEN a ELSE Nothing)
      /\ out'[c] = (IF there THEN w ELSE << >>)
      /\ \A d \in Conn : d # c => /\ server'[d] = server[d] /\ meant'[d] = meant[d]
                                /\ out'[d] = out[d]
  BY <1>0 DEF TypeOK
<1>2. client' = client /\ up' = up /\ down' = down /\ line' = line /\ result' = result
  BY <1>0
<1>3. OneClient'
  BY <1>2 DEF OneClient
<1>4. Stream(c) /\ a # Nothing /\ client[c] # "writing"
  BY <1>0, NotAnswers DEF Stream
<1>5. Stream(c)'
  BY <1>1, <1>2, <1>4 DEF Stream
<1>6. OfAnswer(c)'
  <2>1. SUFFICES ASSUME client'[c] # "closed", meant'[c] \in Answer
                 PROVE  Begins(Cat(line', Cat(down'[c], out'[c])),
                               Append(Encode(meant'[c]), Newline))
    BY DEF OfAnswer
  <2>2. a \in Answer /\ w = Append(Encode(a), Newline) /\ there
    BY <1>1, <1>2, <2>1, NotAnswers DEF w
  <2>3. line = << >> /\ down[c] = << >>
    BY <1>0, <1>2, <1>4, <2>1 DEF Stream
  <2>4. Cat(<< >>, Cat(<< >>, w)) = w
    BY ConcatEmptySeq DEF Cat, w
  <2>5. Begins(w, w)
    <3>1. w \in Seq(Token)
      BY DEF w
    <3> QED
      BY <3>1 DEF Begins
  <2> QED
    BY <1>1, <1>2, <2>2, <2>3, <2>4, <2>5
<1>7. ASSUME NEW d \in Conn, d # c PROVE Stream(d)' /\ OfAnswer(d)'
  BY <1>1, <1>2, <1>7, OtherStream
<1> QED
  BY <1>3, <1>5, <1>6, <1>7 DEF Streams

\* The server's end closes: what it has not written is lost.
LEMMA LostStream ==
  ASSUME TypeOK, NEW d \in Conn, Stream(d), OfAnswer(d),
         server'[d] = "closed", out'[d] = << >>, up'[d] = up[d] \/ up'[d] = 0,
         UNCHANGED <<client, down, meant, line>>
  PROVE  Stream(d)' /\ OfAnswer(d)'
<1>1. Stream(d)'
  BY DEF Stream
<1>2. OfAnswer(d)'
  <2>1. line \in Seq(Token) /\ down[d] \in Seq(Token) /\ out[d] \in Seq(Token)
    BY DEF TypeOK
  <2>2. Cat(down[d], << >>) = down[d]
    BY <2>1, ConcatEmptySeq DEF Cat
  <2>3. \A a \in Answer : Len(Append(Encode(a), Newline)) \in Nat
    BY EncodedLine
  <2>4. \A e : Len(e) \in Nat /\ Begins(Cat(line, Cat(down[d], out[d])), e)
                => Begins(Cat(line, down[d]), e)
    BY <2>1, BeginsSooner
  <2>5. Cat(line', Cat(down'[d], out'[d])) = Cat(line, down[d])
    BY <2>2
  <2> QED
    BY <2>3, <2>4, <2>5 DEF OfAnswer
<1> QED
  BY <1>1, <1>2

LEMMA LostStreams ==
  ASSUME IInv, UNCHANGED <<client, down, meant, line, result>>,
         \A c \in Conn :
           \/ server'[c] = server[c] /\ out'[c] = out[c] /\ up'[c] = up[c]
           \/ server'[c] = "closed" /\ out'[c] = << >> /\ up'[c] \in {0, up[c]}
  PROVE  Streams'
<1>1. OneClient'
  BY DEF IInv, OneClient
<1>2. ASSUME NEW d \in Conn PROVE Stream(d)' /\ OfAnswer(d)'
  <2>1. TypeOK /\ Stream(d) /\ OfAnswer(d)
    BY DEF IInv
  <2>2. CASE server'[d] = server[d] /\ out'[d] = out[d] /\ up'[d] = up[d]
    <3>1. /\ client'[d] = client[d] /\ down'[d] = down[d]
          /\ meant'[d] = meant[d] /\ line' = line
      OBVIOUS
    <3> QED
      BY <2>1, <2>2, <3>1, OtherStream
  <2>3. CASE server'[d] = "closed" /\ out'[d] = << >> /\ up'[d] \in {0, up[d]}
    BY <2>1, <2>3, LostStream
  <2> QED
    BY <2>2, <2>3
<1> QED
  BY <1>1, <1>2 DEF Streams

LEMMA ClientStreams ==
  ASSUME IInv, NEW c \in Conn, Client(c)
  PROVE  Streams'
<1>1. \A r \in Says \cup {Nothing, Thrown} : client[c] # "closed" /\ Return(c, r) => Streams'
  BY ReturnStreams
<1>2. CASE BrokenPipe(c) \/ GiveUp(c)
  BY <1>1, <1>2 DEF BrokenPipe, GiveUp
<1>3. CASE ReadNewline(c) \/ ReadEnds(c)
  BY <1>1, <1>3, ReplyTypes DEF ReadNewline, ReadEnds
<1> QED
  BY <1>2, <1>3, ConnectStreams, WritePieceStreams, ReadStreams DEF Client

LEMMA HandlerStreams ==
  ASSUME IInv, NEW c \in Conn, Handler(c)
  PROVE  Streams'
<1>1. CASE Accept(c)
  BY <1>1, StageStreams DEF Accept
<1>2. CASE Takes(c)
  <2>1. client[c] # "writing"
    BY <1>2 DEF Takes, IInv, Stream
  <2> QED
    BY <1>2, <2>1, StageStreams DEF Takes
<1>3. ASSUME NEW a \in Answer, Answered(c, a) PROVE Streams'
  <2>1. Append(Encode(a), Newline) \in Seq(Token)
    BY EncodedLine
  <2> QED
    BY <1>3, <2>1, AnsweredStreams DEF Answered
<1>4. ASSUME NEW text \in Garbage, Confused(c, text) PROVE Streams'
  BY <1>4, GarbageLine, AnsweredStreams DEF Confused
<1>5. CASE HangUp(c)
  <2>1. /\ server' = [server EXCEPT ![c] = "closed"] /\ out' = [out EXCEPT ![c] = << >>]
        /\ up' = [up EXCEPT ![c] = 0] /\ UNCHANGED <<client, down, meant, line, result>>
    BY <1>5 DEF HangUp
  <2>2. \A d \in Conn : \/ server'[d] = server[d] /\ out'[d] = out[d] /\ up'[d] = up[d]
                        \/ server'[d] = "closed" /\ out'[d] = << >> /\ up'[d] \in {0, up[d]}
    BY <2>1 DEF IInv, TypeOK
  <2> QED
    BY <2>1, <2>2, LostStreams
<1>6. CASE Deadline(c)
  <2>1. CASE server[c] \in {"reading", "serving"} /\ ~ HangUp(c)
    BY <1>6, <2>1, StageStreams DEF Deadline
  <2> QED
    BY <1>5, <1>6, <2>1 DEF Deadline
<1> QED
  BY <1>1, <1>2, <1>3, <1>4, <1>5, <1>6, WriteStreams DEF Handler, HandlerReturns, TooLate

LEMMA ProcessStreams ==
  ASSUME IInv, Process
  PROVE  Streams'
<1>1. CASE Listen \/ ListenFails \/ Terminate \/ WorkerReturns \/ Restart
  <2>1. UNCHANGED <<client, server, up, out, down, meant, line, result>>
    BY <1>1 DEF Listen, ListenFails, Terminate, WorkerReturns, Restart, sockets
  <2> QED
    BY <2>1, LostStreams
<1>2. CASE ServeReturns
  <2>1. /\ server' = [c \in Conn |-> IF server[c] = "queued" THEN "closed" ELSE server[c]]
        /\ out' = out /\ UNCHANGED <<client, up, down, meant, line, result>>
    BY <1>2 DEF ServeReturns
  <2>2. \A c \in Conn : server[c] = "queued" => out[c] = << >>
    BY DEF IInv, Stream
  <2>3. \A c \in Conn : \/ server'[c] = server[c] /\ out'[c] = out[c] /\ up'[c] = up[c]
                        \/ server'[c] = "closed" /\ out'[c] = << >> /\ up'[c] \in {0, up[c]}
    BY <2>1, <2>2
  <2> QED
    BY <2>1, <2>3, LostStreams
<1>3. CASE Exit \/ Kill
  <2>1. /\ \A c \in Conn : server'[c] = "closed" /\ out'[c] = << >> /\ up'[c] = 0
        /\ UNCHANGED <<client, down, meant, line, result>>
    BY <1>3 DEF Exit, Kill, Die
  <2> QED
    BY <2>1, LostStreams
<1> QED
  BY <1>1, <1>2, <1>3 DEF Process

LEMMA StreamStep ==
  ASSUME IInv, [Next]_vars
  PROVE  Streams'
<1>1. CASE \E c \in Conn : Client(c) \/ Handler(c)
  BY <1>1, ClientStreams, HandlerStreams
<1>2. CASE ConnectFails
  <2>1. \A c \in Conn : client[c] = "closed"
    BY <1>2 DEF ConnectFails, IInv, OneClient
  <2>2. UNCHANGED <<client, server, up, out, down, meant, line>>
    BY <1>2 DEF ConnectFails, sockets
  <2>3. OneClient'
    BY <2>1, <2>2 DEF IInv, OneClient
  <2>4. ASSUME NEW d \in Conn PROVE Stream(d)' /\ OfAnswer(d)'
    <3>1. /\ client'[d] = client[d] /\ server'[d] = server[d] /\ up'[d] = up[d]
          /\ out'[d] = out[d] /\ down'[d] = down[d] /\ meant'[d] = meant[d] /\ line' = line
      BY <2>2
    <3> QED
      BY <3>1, OtherStream DEF IInv
  <2> QED
    BY <2>3, <2>4 DEF Streams
<1>3. CASE Process
  BY <1>3, ProcessStreams
<1>4. CASE UNCHANGED vars
  <2>1. UNCHANGED <<client, server, up, out, down, meant, line, result>>
    BY <1>4 DEF vars, sockets
  <2> QED
    BY <2>1, LostStreams
<1> QED
  BY <1>1, <1>2, <1>3, <1>4 DEF Next

\* What was read, can be read and will be written of a reply begins, at every moment,
\* the encoding of the one answer Next gave; at most one exchange is under way.
THEOREM Inductive ==
  Spec => []IInv
<1>1. Init => IInv
  <2> SUFFICES ASSUME Init PROVE IInv
    OBVIOUS
  <2>1. << >> \in Seq(Token) /\ << >> \in Seq(Token \ {Newline})
    OBVIOUS
  <2>2. TypeOK
    <3>1. Nothing \in Result /\ 0 \in 0 .. 2
      BY DEF Result
    <3>2. 0 \in 0 .. MaxEvents
      <4>1. MaxEvents \in Nat
        BY ExchangeAssumption
      <4> QED
        BY <4>1
    <3> QED
      BY <2>1, <3>1, <3>2 DEF Init, TypeOK
  <2>3. OneClient /\ (\A c \in Conn : Stream(c)) /\ \A c \in Conn : OfAnswer(c)
    BY DEF Init, OneClient, Stream, OfAnswer
  <2> QED
    BY <2>2, <2>3 DEF IInv
<1>2. IInv /\ [Next]_vars => IInv'
  BY TypeStep, StreamStep DEF IInv, Streams
<1> QED
  BY <1>1, <1>2, PTL DEF Spec

\* The type invariant, for every set of connections, answers and garbage.
THEOREM TypeCorrect ==
  Spec => []TypeOK
BY Inductive, PTL DEF IInv

-----------------------------------------------------------------------------
(* What exchange returns. *)

\* Of the answer's line: without its newline it is half a reply or all of it.
LEMMA LineUnderstood ==
  ASSUME NEW a \in Answer, NEW s \in Seq(Token \ {Newline}),
         Begins(s, Append(Encode(a), Newline))
  PROVE  ParseReply(s) \in {Nothing, a}
<1> DEFINE e == Encode(a)
           l == Append(e, Newline)
           k == Len(s)
<1>1. /\ e \in Seq(Token) /\ Len(l) = Len(e) + 1 /\ l[Len(l)] = Newline
      /\ \A i \in 1 .. Len(e) : l[i] = e[i]
  BY EncodeIs, EncodedLine
<1>2. k \in Nat /\ (\A i \in 1 .. k : s[i] # Newline) /\ s \in Seq(Token)
  <2>1. Token \ {Newline} \subseteq Token
    OBVIOUS
  <2> QED
    BY <2>1, SeqMonotonic
<1>3. k =< Len(l) /\ \A i \in 1 .. k : s[i] = l[i]
  BY DEF Begins
<1>4. Len(e) \in Nat
  BY <1>1
<1> HIDE DEF l
<1>5. k =< Len(e)
  <2>1. CASE k = Len(l)
    <3>1. k \in 1 .. k
      BY <1>1, <1>2, <1>4, <2>1
    <3> QED
      BY <1>1, <1>2, <1>3, <2>1, <3>1
  <2> QED
    BY <1>1, <1>2, <1>3, <1>4, <2>1
<1>6. \A i \in 1 .. k : s[i] = e[i]
  BY <1>1, <1>2, <1>3, <1>4, <1>5
<1>7. s = SubSeq(e, 1, k)
  <2> DEFINE p == SubSeq(e, 1, k)
  <2>1. k \in 0 .. Len(e)
    BY <1>2, <1>4, <1>5
  <2>2. p \in Seq(Token) /\ Len(p) = k /\ \A i \in 1 .. k : p[i] = e[i]
    BY <1>1, <2>1, Pieces
  <2> HIDE DEF p
  <2>3. Len(s) = Len(p) /\ \A i \in 1 .. Len(s) : s[i] = p[i]
    BY <1>6, <2>2
  <2>4. s = p
    BY <1>2, <2>2, <2>3, SeqEqual
  <2> QED
    BY <2>4 DEF p
<1>8. CASE k = Len(e)
  <2>1. s = e
    BY <1>1, <1>7, <1>8, SubSeqFull
  <2> QED
    BY <2>1, ReplyUnderstood
<1>9. CASE k # Len(e)
  <2>1. k \in 0 .. Len(e) - 1
    BY <1>2, <1>4, <1>5, <1>9
  <2> QED
    BY <1>7, <2>1, HalfReply
<1> QED
  BY <1>8, <1>9

LEMMA ReadMeant ==
  ASSUME IInv, NEW c \in Conn, client[c] # "closed", meant[c] # Thrown,
         ReadNewline(c) \/ ReadEnds(c)
  PROVE  result' \in {Nothing, meant[c]}
<1> USE DEF IInv
<1>1. meant[c] = Nothing \/ meant[c] \in Answer
  BY DEF TypeOK
<1>2. CASE meant[c] = Nothing
  <2>1. down[c] = << >> /\ line = << >>
    BY <1>2 DEF Stream
  <2>2. ~ ReadNewline(c)
    BY <2>1 DEF ReadNewline
  <2> QED
    BY <2>1, <2>2 DEF ReadEnds, Return
<1>3. CASE meant[c] \in Answer
  <2> DEFINE l == Append(Encode(meant[c]), Newline)
  <2>1. /\ line \in Seq(Token \ {Newline}) /\ line \in Seq(Token)
        /\ down[c] \in Seq(Token) /\ out[c] \in Seq(Token)
    <3>1. Token \ {Newline} \subseteq Token
      OBVIOUS
    <3> QED
      BY <3>1, SeqMonotonic DEF TypeOK
  <2>2. Len(l) \in Nat /\ Begins(Cat(line, Cat(down[c], out[c])), l)
    BY <1>3, EncodedLine DEF OfAnswer
  <2> HIDE DEF l
  <2>3. Begins(Cat(line, down[c]), l)
    BY <2>1, <2>2, BeginsSooner
  <2>4. CASE ReadNewline(c)
    <3>1. PICK i \in DOMAIN down[c] :
             /\ Newline \notin Range(SubSeq(down[c], 1, i - 1))
             /\ result' = ParseReply(line \o SubSeq(down[c], 1, i - 1))
      BY <2>4 DEF ReadNewline, Return
    <3> DEFINE j == i - 1
               p == SubSeq(down[c], 1, j)
               q == SubSeq(down[c], j + 1, Len(down[c]))
    <3>2. i \in 1 .. Len(down[c]) /\ Len(down[c]) \in Nat
      BY <2>1
    <3>3. j \in 0 .. Len(down[c])
      BY <3>2
    <3>4. p \in Seq(Token) /\ q \in Seq(Token) /\ Cat(p, q) = down[c]
      <4> HIDE DEF j
      <4>1. p \o q = down[c]
        BY <2>1, <3>3, Rejoined
      <4> QED
        BY <2>1, <3>3, <4>1, Pieces DEF Cat
    <3>5. result' = ParseReply(Cat(line, p)) /\ Newline \notin Range(p)
      BY <3>1 DEF Cat
    <3> HIDE DEF j, p, q
    <3>6. Begins(Cat(line, p), l)
      BY <2>1, <2>2, <2>3, <3>4, BeginsSooner
    <3>7. Cat(line, p) \in Seq(Token \ {Newline})
      <4>1. p \in Seq(Token \ {Newline})
        BY <3>4, <3>5, Plain
      <4> QED
        BY <2>1, <4>1, CatIs
    <3> QED
      BY <1>3, <3>5, <3>6, <3>7, LineUnderstood DEF l
  <2>5. CASE ReadEnds(c)
    <3>1. result' = Nothing \/ result' = ParseReply(line)
      BY <2>5 DEF ReadEnds, Return
    <3>2. Begins(line, l)
      <4>1. << >> \in Seq(Token) /\ Cat(line, << >>) = line /\ Cat(<< >>, down[c]) = down[c]
        BY <2>1, ConcatEmptySeq DEF Cat
      <4>2. Begins(Cat(line, Cat(<< >>, down[c])), l)
        BY <2>3, <4>1
      <4> QED
        BY <2>1, <2>2, <4>1, <4>2, BeginsSooner
    <3> QED
      BY <1>3, <2>1, <3>1, <3>2, LineUnderstood DEF l
  <2> QED
    BY <2>4, <2>5
<1> QED
  BY <1>1, <1>2, <1>3

\* An exchange returns what frame.Next said on its connection, or nothing: for every
\* answer, every way the reply is cut into reads, every moment either side dies or
\* gives up (IpcClient::exchange, read_line, parse_reply; ipcserver handle).
THEOREM OutcomeAlwaysMeant ==
  Spec => OutcomeMeant
<1>1. ASSUME IInv, Next, NEW c \in Conn, client[c] # "closed", client'[c] = "closed",
             meant[c] # Thrown
      PROVE  result' \in {Nothing, meant[c]}
  <2>1. ASSUME NEW d \in Conn, Client(d) PROVE result' \in {Nothing, meant[c]}
    <3>1. \A r : Return(d, r) => d = c /\ result' = r
      <4> SUFFICES ASSUME NEW r, Return(d, r) PROVE d = c /\ result' = r
        OBVIOUS
      <4> QED
        BY <1>1 DEF Return, IInv, TypeOK
    <3>2. CASE BrokenPipe(d) \/ GiveUp(d)
      BY <3>1, <3>2 DEF BrokenPipe, GiveUp
    <3>3. CASE ReadNewline(d) \/ ReadEnds(d)
      <4>1. d = c
        BY <3>1, <3>3 DEF ReadNewline, ReadEnds
      <4> QED
        BY <1>1, <3>3, <4>1, ReadMeant
    <3>4. /\ client'[c] = "closed" /\ client[c] # "closed"
          /\ client \in [Conn -> {"closed", "writing", "reading"}]
      BY <1>1 DEF IInv, TypeOK
    <3>5. ~ Connect(d)
      BY <3>4 DEF Connect
    <3>6. ~ WritePiece(d)
      BY <3>4 DEF WritePiece
    <3>7. ~ \E n \in 1 .. Len(down[d]) : Read(d, n)
      BY <3>4 DEF Read
    <3> QED
      BY <2>1, <3>2, <3>3, <3>5, <3>6, <3>7 DEF Client
  <2>2. client' = client => FALSE
    BY <1>1
  <2>3. \A d \in Conn : Handler(d) => client' = client
    BY DEF Handler, Accept, Takes, Answered, Confused, HasToSay, Write, HandlerReturns,
           Deadline, TooLate, HangUp
  <2>4. ConnectFails => client' = client
    BY DEF ConnectFails, sockets
  <2>5. Process => client' = client
    BY DEF Process, Listen, ListenFails, Terminate, ServeReturns, WorkerReturns, Exit, Kill,
           Die, Restart, sockets
  <2> QED
    BY <1>1, <2>1, <2>2, <2>3, <2>4, <2>5 DEF Next
<1>2. IInv /\ [Next]_vars
        => [\A c \in Conn :
              client[c] # "closed" /\ client'[c] = "closed" /\ meant[c] # Thrown
                => result' \in {Nothing, meant[c]}]_vars
  BY <1>1
<1> QED
  BY <1>2, Inductive, PTL DEF Spec, OutcomeMeant

\* Whatever line a client has read, in whatever pieces and from whomever, the parser
\* takes it for JSON exactly when it is, and binds every name to the last of its
\* values (json.hpp, sax_parse_internal and json_sax_dom_parser).
THEOREM LinesAgree == Spec => []ParserAgrees
<1>1. TypeOK => ParserAgrees
  BY ParserRight DEF TypeOK, ParserAgrees
<1> QED
  BY <1>1, TypeCorrect, PTL
=============================================================================
