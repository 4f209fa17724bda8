------------------------- MODULE HttpBackendProofs -------------------------
(***************************************************************************)
(* Proofs about the http backend, for all calls, bodies and responses: the *)
(* order and completeness of what the client is told, and the request the  *)
(* server receives.                                                        *)
(***************************************************************************)
EXTENDS HttpBackend, KeySequencesProofs, FiniteSetTheorems

-----------------------------------------------------------------------------
(* The inductive invariant *)

Tokens == UNION {Elements(r) : r \in Responses}
Answers == Responses \cup {<<>>}
Pieces == Tokens \cup Elements(Body)
Values == {NULL} \cup {t.value : t \in Tokens}
NoCall == [command |-> "NONE", filters |-> {}, body_only |-> FALSE,
           passed |-> FALSE, attributes |-> {}]

Fields == {"id", "body", "ttl", "hide"}
Jprocs == [id : Values, body : Values, ttl : Values, hide : Values,
           is_key : BOOLEAN, key : Values]
Working == pc \in {"perform", "parse", "waiting"}
Looked == MessageCommands \cup ListCommands

Types ==
    /\ TypeOK
    /\ incoming \in Seq(Pieces) /\ sent \in Seq(Pieces)
    /\ buffer \in [size : Nat, where : Nat, text : Seq(Pieces)]
    /\ jproc \in Jprocs
    /\ response \in Answers
    /\ call \in Calls \cup {NoCall}

(* A command that is worked on is the client's, or cancelled. *)
CallInv ==
    Working =>
       /\ call \in Calls
       /\ command \in {call.command, "NONE"}
       /\ call.command # "CREATE_MESSAGE" =>
             get_body_only = (call.command \in MessageCommands /\ call.body_only)

(* How far the transfer has come. *)
TransferInv ==
    Working =>
       /\ transfer \in {"running", "ok", "failed"}
       /\ transfer = "ok" => incoming = <<>> /\ buffer.where = buffer.size
       /\ pc = "waiting" => transfer = "running"
       /\ pc = "parse" => transfer = "ok" /\ ~get_body_only /\ call.command \in Looked
       /\ pc # "parse" => at = 1 /\ reported = <<>>
       /\ call.command = "CREATE_MESSAGE" =>
             /\ buffer.text = Body /\ buffer.size = Len(Body)
             /\ sent = SubSeq(Body, 1, buffer.where)
             /\ incoming = <<>>

(* The value of a key in s[b+1] .. s[e]: the last one. *)
ValueIn(s, b, e, name) ==
    LET values == {i \in b+2 .. e : s[i-1].type = "key" /\ s[i-1].value = name}
    IN  IF values = {} THEN NULL ELSE s[Last(values)].value

Opened(s, b, i) ==
    /\ b \in 1..i-1 /\ s[b].type = "object_begin"
    /\ \A j \in b+1..i-1 : s[j].type \notin {"object_begin", "object_end"}

(* Between objects the fields are empty, in one they are those read so far. *)
Between(r, i, j) ==
    /\ ~InObject(r, i)
    /\ \A name \in Fields : j[name] = NULL
    /\ ~j.is_key

Within(r, b, i, j) ==
    /\ Opened(r, b, i)
    /\ \A name \in Fields : j[name] = ValueIn(r, b, i-1, name)
    /\ j.is_key <=> r[i-1].type = "key"
    /\ j.is_key => j.key = r[i-1].value

FieldsRead(r, i, j) == Between(r, i, j) \/ \E b \in 1..i-1 : Within(r, b, i, j)

(* Where what is told of ends: each report belongs to one such token. *)
Ending == IF call.command \in ListCommands THEN "string" ELSE "object_end"
Reports == Positions(response, Ending)

(* Of the n things told of all end before the token that is looked at, and no others do. *)
ParseInv ==
    /\ \E n \in 0..Len(Reports) :
          /\ reported = SubSeq(Expected, 1, n)
          /\ \A k \in 1..Len(Reports) : k <= n <=> Reports[k] < at
    /\ call.command \in MessageCommands => FieldsRead(response, at, jproc)

ToldInv ==
    /\ \E n \in 0..Len(Expected) : reported = SubSeq(Expected, 1, n)
    /\ pc = "parse" /\ command # "NONE" => ParseInv

DoneInv ==
    "no_fds" \notin Faults =>
       /\ CompleteMeansAll
       /\ pc = "idle" /\ ret = "0" /\ call.command # "NONE" => transfer = "ok"

(***************************************************************************)
(* All of this but DoneInv depends on the frontend's command only while    *)
(* the backend works on it.                                                *)
(***************************************************************************)
ExchangeInv ==
    /\ Types /\ UrlIsCurrent /\ CallInv /\ TransferInv /\ BufferIsResponse /\ RequestSaysCommand
    /\ ToldInv

IndInv == ExchangeInv /\ DoneInv

-----------------------------------------------------------------------------
(* Requests *)

(* Odd and even numbers. *)
LEMMA OddAndEven ==
    ASSUME NEW j \in Nat
    PROVE  /\ (2*j) % 2 = 0
           /\ \A i \in Nat : i = 2*j + 1 => i % 2 = 1 /\ i \div 2 = j
           /\ (2*j) \div 2 = j
OBVIOUS

LEMMA OddUpto ==
    ASSUME NEW n \in Nat, NEW i \in 1 .. 2*n, i % 2 = 1
    PROVE  \E j \in 1..n : i = 2*j - 1
<1>1. i = 2 * (i \div 2) + 1 /\ i \div 2 \in Nat
  OBVIOUS
<1>2. (i \div 2) + 1 \in 1..n
  BY <1>1
<1> QED BY <1>1, <1>2

LEMMA EvenUpto ==
    ASSUME NEW n \in Nat, NEW i \in 1 .. 2*n, i % 2 = 0
    PROVE  \E j \in 1..n : i = 2*j
<1>1. i = 2 * (i \div 2) /\ i \div 2 \in Nat
  OBVIOUS
<1>2. i \div 2 \in 1..n
  BY <1>1
<1> QED BY <1>1, <1>2

Words == {"match_hidden", "limit", "wait", "detail", "marker", "ttl", "hide", "?", "&"}

(* A query with the parameters s, in order, each behind its separator. *)
Spells(query, s) ==
    /\ query \in Seq(Words)
    /\ Len(query) = 2 * Len(s)
    /\ \A i \in 1..Len(s) : /\ query[2*i] = s[i]
                            /\ query[2*i - 1] = IF i = 1 THEN "?" ELSE "&"

(* A server reads the parameters, each once, out of such a query. *)
LEMMA SpellsParameters ==
    ASSUME NEW s \in Seq(Words), NoDuplicates(s), NEW query, Spells(query, s)
    PROVE  /\ WellSeparated(query)
           /\ Parameters(query) = Elements(s)
           /\ Len(query) = 2 * Cardinality(Elements(s))
<1>1. /\ DOMAIN query = 1 .. 2 * Len(s) /\ DOMAIN s = 1..Len(s) /\ Len(s) \in Nat
      /\ \A i \in 1..Len(s) : /\ query[2*i] = s[i]
                              /\ query[2*i - 1] = IF i = 1 THEN "?" ELSE "&"
  BY DEF Spells
<1>2. WellSeparated(query)
  <2> SUFFICES ASSUME NEW i \in 1 .. 2 * Len(s), i % 2 = 1
               PROVE  query[i] = IF i = 1 THEN "?" ELSE "&"
    BY <1>1 DEF WellSeparated
  <2>1. PICK j \in 1..Len(s) : i = 2*j - 1
    BY <1>1, OddUpto
  <2>2. i = 1 <=> j = 1
    BY <1>1, <2>1
  <2> QED BY <1>1, <2>1, <2>2
<1>3. Parameters(query) = Elements(s)
  <2>1. ASSUME NEW x \in Parameters(query) PROVE x \in Elements(s)
    <3>1. PICK i \in 1 .. 2 * Len(s) : i % 2 = 0 /\ x = query[i]
      BY <1>1 DEF Parameters
    <3>2. PICK j \in 1..Len(s) : i = 2*j
      BY <1>1, <3>1, EvenUpto
    <3>3. x = s[j]
      BY <1>1, <3>1, <3>2
    <3> QED BY <1>1, <3>3 DEF Elements
  <2>2. ASSUME NEW x \in Elements(s) PROVE x \in Parameters(query)
    <3>1. PICK i \in 1..Len(s) : x = s[i]
      BY <1>1 DEF Elements
    <3>2. 2*i \in 1 .. 2 * Len(s) /\ (2*i) % 2 = 0 /\ query[2*i] = x
      BY <1>1, <3>1
    <3> QED BY <1>1, <3>2 DEF Parameters
  <2> QED BY <2>1, <2>2
<1>4. Cardinality(Elements(s)) = Len(s)
  <2>1. s \in Bijection(1..Len(s), Elements(s))
    <3>1. s \in [1..Len(s) -> Elements(s)]
      BY <1>1 DEF Elements
    <3>2. \A x \in Elements(s) : \E i \in 1..Len(s) : s[i] = x
      BY <1>1 DEF Elements
    <3>3. \A i, j \in 1..Len(s) : s[i] = s[j] => i = j
      BY <1>1 DEF NoDuplicates
    <3> QED BY <3>1, <3>2, <3>3 DEF Bijection, Injection, Surjection, IsInjective
  <2>2. ExistsBijection(1..Len(s), Elements(s))
    BY <2>1 DEF ExistsBijection
  <2> QED BY <1>1, <2>2, FS_CountingElements
<1> QED BY <1>2, <1>3, <1>4 DEF Spells

(* The names of filters and attributes are different ones. *)
LEMMA NamesDiffer ==
    /\ FilterNames \in Seq(Words) /\ NoDuplicates(FilterNames)
    /\ Elements(FilterNames) = {"match_hidden", "limit", "wait", "detail", "marker"}
    /\ AttributeNames \in Seq(Words) /\ NoDuplicates(AttributeNames)
    /\ Elements(AttributeNames) = {"ttl", "hide"}
<1>1. FilterNames \in Seq(Words) /\ DOMAIN FilterNames = 1..5
  BY DEF FilterNames, Words
<1>2. AttributeNames \in Seq(Words) /\ DOMAIN AttributeNames = 1..2
  BY DEF AttributeNames, Words
<1>3. /\ FilterNames[1] = "match_hidden" /\ FilterNames[2] = "limit"
      /\ FilterNames[3] = "wait" /\ FilterNames[4] = "detail" /\ FilterNames[5] = "marker"
  BY DEF FilterNames
<1>4. AttributeNames[1] = "ttl" /\ AttributeNames[2] = "hide"
  BY DEF AttributeNames
<1>5. NoDuplicates(FilterNames)
  <2> SUFFICES ASSUME NEW i \in 1..5, NEW j \in 1..5, FilterNames[i] = FilterNames[j]
               PROVE  i = j
    BY <1>1 DEF NoDuplicates
  <2>1. i \in {1, 2, 3, 4, 5} /\ j \in {1, 2, 3, 4, 5}
    OBVIOUS
  <2> QED BY <1>3, <2>1
<1>6. Elements(FilterNames) = {"match_hidden", "limit", "wait", "detail", "marker"}
  <2>1. ASSUME NEW x \in Elements(FilterNames)
        PROVE  x \in {"match_hidden", "limit", "wait", "detail", "marker"}
    <3>1. PICK i \in 1..5 : x = FilterNames[i]
      BY <1>1 DEF Elements
    <3>2. i \in {1, 2, 3, 4, 5}
      OBVIOUS
    <3> QED BY <1>3, <3>1, <3>2
  <2>2. \A i \in 1..5 : FilterNames[i] \in Elements(FilterNames)
    BY <1>1 DEF Elements
  <2>3. 1 \in 1..5 /\ 2 \in 1..5 /\ 3 \in 1..5 /\ 4 \in 1..5 /\ 5 \in 1..5
    OBVIOUS
  <2>4. {"match_hidden", "limit", "wait", "detail", "marker"} \subseteq Elements(FilterNames)
    BY <1>3, <2>2, <2>3
  <2> QED BY <2>1, <2>4
<1>7. NoDuplicates(AttributeNames)
  <2> SUFFICES ASSUME NEW i \in 1..2, NEW j \in 1..2, AttributeNames[i] = AttributeNames[j]
               PROVE  i = j
    BY <1>2 DEF NoDuplicates
  <2>1. i \in {1, 2} /\ j \in {1, 2}
    OBVIOUS
  <2> QED BY <1>4, <2>1
<1>8. Elements(AttributeNames) = {"ttl", "hide"}
  <2>1. ASSUME NEW x \in Elements(AttributeNames) PROVE x \in {"ttl", "hide"}
    <3>1. PICK i \in 1..2 : x = AttributeNames[i]
      BY <1>2 DEF Elements
    <3>2. i \in {1, 2}
      OBVIOUS
    <3> QED BY <1>4, <3>1, <3>2
  <2>2. \A i \in 1..2 : AttributeNames[i] \in Elements(AttributeNames)
    BY <1>2 DEF Elements
  <2>3. 1 \in 1..2 /\ 2 \in 1..2
    OBVIOUS
  <2>4. {"ttl", "hide"} \subseteq Elements(AttributeNames)
    BY <1>4, <2>2, <2>3
  <2> QED BY <2>1, <2>4
<1> QED BY <1>1, <1>2, <1>5, <1>6, <1>7, <1>8

(* The text of a list of names, with a separator in front. *)
LEMMA JoinedText ==
    ASSUME NEW names \in Seq(Words), NEW chosen, NEW separator \in Words
    PROVE  LET set == Kept(names, chosen)
               text == After(separator, Joined(names, chosen))
           IN  /\ set \in Seq(Words) /\ text \in Seq(Words)
               /\ Len(text) = 2 * Len(set)
               /\ Joined(names, chosen) = <<>> <=> set = <<>>
               /\ \A i \in 1..Len(set) : /\ text[2*i] = set[i]
                                         /\ text[2*i - 1] = IF i = 1 THEN separator ELSE "&"
<1> DEFINE set == Kept(names, chosen)
           j == Joined(names, chosen)
           text == After(separator, j)
<1>1. set \in Seq(Words)
  BY KeptElements
<1>2. j = [i \in 1 .. 2 * Len(set) - 1 |-> IF i % 2 = 1 THEN set[(i + 1) \div 2] ELSE "&"]
  BY DEF Joined
<1>3. text = IF j = <<>> THEN <<>> ELSE <<separator>> \o j
  BY DEF After
<1> HIDE DEF set, j, text
<1>4. Len(set) \in Nat /\ DOMAIN set = 1..Len(set) /\ (set = <<>> <=> Len(set) = 0)
  BY <1>1
<1>5. CASE Len(set) = 0
  <2>1. j = <<>>
    BY <1>2, <1>5
  <2>2. text = <<>> /\ set = <<>>
    BY <1>3, <1>4, <1>5, <2>1
  <2>3. text \in Seq(Words) /\ Len(text) = 0
    BY <2>2
  <2>4. Len(text) = 2 * Len(set) /\ ~ \E i \in 1..Len(set) : TRUE
    BY <1>5, <2>3
  <2>5. j = <<>> <=> set = <<>>
    BY <2>1, <2>2
  <2> QED BY <1>1, <2>3, <2>4, <2>5 DEF set, j, text
<1>6. CASE Len(set) # 0
  <2>1. 2 * Len(set) - 1 \in Nat
    BY <1>4, <1>6
  <2>2. ASSUME NEW i \in 1 .. 2 * Len(set) - 1 PROVE j[i] \in Words
    <3>1. i \in 1 .. 2 * Len(set)
      BY <1>4
    <3>2. ASSUME NEW k \in 1..Len(set), i = 2*k - 1 PROVE (i + 1) \div 2 = k
      <4>1. i + 1 = 2*k /\ k \in Nat
        BY <1>4, <3>2
      <4> QED BY <4>1, OddAndEven
    <3>3. i % 2 = 1 => (i + 1) \div 2 \in 1..Len(set)
      BY <1>4, <3>1, <3>2, OddUpto
    <3> QED BY <1>1, <1>2, <1>4, <3>3 DEF Words
  <2>3. j \in Seq(Words) /\ Len(j) = 2 * Len(set) - 1
    <3>1. j \in [1 .. 2 * Len(set) - 1 -> Words]
      BY <1>2, <2>2
    <3> QED BY <2>1, <3>1
  <2>4. j # <<>>
    BY <1>6, <2>1, <2>3
  <2>5. <<separator>> \in Seq(Words) /\ Len(<<separator>>) = 1
    OBVIOUS
  <2>6. /\ text \in Seq(Words) /\ Len(text) = 2 * Len(set)
        /\ \A i \in 1 .. 2 * Len(set) : text[i] = IF i <= 1 THEN separator ELSE j[i - 1]
    <3>1. text = <<separator>> \o j
      BY <1>3, <2>4
    <3>2. /\ text \in Seq(Words) /\ Len(text) = 1 + Len(j)
          /\ \A i \in 1 .. 1 + Len(j) : text[i] = IF i <= 1 THEN <<separator>>[i] ELSE j[i - 1]
      BY <2>3, <2>5, <3>1, ConcatProperties
    <3> QED BY <1>4, <2>3, <3>2
  <2>7. ASSUME NEW i \in 1..Len(set)
        PROVE  text[2*i] = set[i] /\ text[2*i - 1] = IF i = 1 THEN separator ELSE "&"
    <3>1. /\ 2*i \in 1 .. 2 * Len(set) /\ 2*i - 1 \in 1 .. 2 * Len(set)
          /\ ~ (2*i <= 1)
      BY <1>4
    <3>2. text[2*i] = j[2*i - 1]
      BY <2>6, <3>1
    <3>3. j[2*i - 1] = set[i]
      <4>1. i - 1 \in Nat /\ 2*i - 1 = 2 * (i - 1) + 1 /\ (2*i - 1) + 1 = 2*i
        BY <1>4
      <4>2. 2*i - 1 \in 1 .. 2 * Len(set) - 1 /\ (2*i - 1) % 2 = 1 /\ ((2*i - 1) + 1) \div 2 = i
        BY <1>4, <4>1, OddAndEven
      <4> QED BY <1>2, <4>2
    <3>4. CASE i = 1
      BY <2>6, <3>1, <3>2, <3>3, <3>4
    <3>5. CASE i # 1
      <4>1. ~ (2*i - 1 <= 1) /\ 2*i - 2 \in 1 .. 2 * Len(set) - 1 /\ (2*i - 2) % 2 = 0
        BY <1>4, <3>5
      <4>2. j[2*i - 2] = "&"
        BY <1>2, <4>1
      <4>3. (2*i - 1) - 1 = 2*i - 2
        OBVIOUS
      <4>4. text[2*i - 1] = j[2*i - 2]
        BY <2>6, <3>1, <4>1, <4>3
      <4> QED BY <3>2, <3>3, <3>5, <4>2, <4>4
    <3> QED BY <3>4, <3>5
  <2> QED BY <1>1, <1>4, <1>6, <2>4, <2>6, <2>7 DEF set, j, text
<1> QED BY <1>5, <1>6

(* What a server is to read out of a query. *)
Reads(query, parameters) ==
    /\ WellSeparated(query)
    /\ Parameters(query) = parameters
    /\ Len(query) = 2 * Cardinality(parameters)

(* The listings are asked for without their filters. *)
Carries(query, c) ==
    IF c.command \in ListCommands THEN query = <<>> ELSE Reads(query, Given(c))

(* One list of names, behind "?". *)
LEMMA OneListReads ==
    ASSUME NEW names \in Seq(Words), NoDuplicates(names), NEW chosen \in SUBSET Elements(names)
    PROVE  Reads(After("?", Joined(names, chosen)), chosen)
<1> DEFINE set == Kept(names, chosen)
           text == After("?", Joined(names, chosen))
<1>1. set \in Seq(Words) /\ Elements(set) = chosen
  <2>1. set \in Seq(Words) /\ Elements(set) = Elements(names) \cap chosen
    BY KeptElements
  <2> QED BY <2>1
<1>2. NoDuplicates(set)
  BY KeptNoDuplicates
<1>3. "?" \in Words
  BY DEF Words
<1>4. Spells(text, set)
  BY <1>3, JoinedText DEF Spells
<1>5. Reads(text, Elements(set))
  <2> HIDE DEF set, text
  <2> QED BY <1>1, <1>2, <1>4, SpellsParameters DEF Reads
<1> QED BY <1>1, <1>5

(* A list behind "?", and one behind what it makes necessary. *)
LEMMA TwoListsRead ==
    ASSUME NEW c \in Calls
    PROVE  Reads(UpdateQuery(c), c.filters \cup c.attributes)
<1> DEFINE f == Kept(FilterNames, c.filters)
           a == Kept(AttributeNames, c.attributes)
           ftext == After("?", Joined(FilterNames, c.filters))
           separator == IF Joined(FilterNames, c.filters) = <<>> THEN "?" ELSE "&"
           atext == After(separator, Joined(AttributeNames, c.attributes))
           s == f \o a
           text == ftext \o atext
<1>1. c.filters \subseteq Elements(FilterNames) /\ c.attributes \subseteq Elements(AttributeNames)
  BY ConstantsAssumption
<1>2. /\ f \in Seq(Words) /\ Elements(f) = c.filters /\ NoDuplicates(f)
      /\ a \in Seq(Words) /\ Elements(a) = c.attributes /\ NoDuplicates(a)
  <2>1. f \in Seq(Words) /\ Elements(f) = Elements(FilterNames) \cap c.filters
    BY NamesDiffer, KeptElements
  <2>2. a \in Seq(Words) /\ Elements(a) = Elements(AttributeNames) \cap c.attributes
    BY NamesDiffer, KeptElements
  <2>3. NoDuplicates(f) /\ NoDuplicates(a)
    BY NamesDiffer, KeptNoDuplicates
  <2>4. Elements(f) = c.filters
    BY <1>1, <2>1
  <2>5. Elements(a) = c.attributes
    BY <1>1, <2>2
  <2> QED BY <2>1, <2>2, <2>3, <2>4, <2>5
<1>3. "?" \in Words /\ separator \in Words
  BY DEF Words
<1>4. /\ ftext \in Seq(Words) /\ Len(ftext) = 2 * Len(f)
      /\ Joined(FilterNames, c.filters) = <<>> <=> f = <<>>
      /\ \A i \in 1..Len(f) : /\ ftext[2*i] = f[i]
                              /\ ftext[2*i - 1] = IF i = 1 THEN "?" ELSE "&"
  BY <1>3, NamesDiffer, JoinedText
<1>5. /\ atext \in Seq(Words) /\ Len(atext) = 2 * Len(a)
      /\ \A i \in 1..Len(a) : /\ atext[2*i] = a[i]
                              /\ atext[2*i - 1] = IF i = 1 THEN separator ELSE "&"
  <2> HIDE DEF separator
  <2> QED BY <1>3, NamesDiffer, JoinedText
<1>6. separator = IF Len(f) = 0 THEN "?" ELSE "&"
  <2>1. f = <<>> <=> Len(f) = 0
    BY <1>2
  <2> QED BY <1>4, <2>1
<1>7. UpdateQuery(c) = text
  BY DEF UpdateQuery, filters_to_string, attributes_to_string
<1> HIDE DEF f, a, ftext, separator, atext
<1>8. /\ Len(f) \in Nat /\ Len(a) \in Nat
      /\ s \in Seq(Words) /\ Len(s) = Len(f) + Len(a)
      /\ \A i \in 1 .. Len(f) + Len(a) : s[i] = IF i <= Len(f) THEN f[i] ELSE a[i - Len(f)]
  <2>1. Len(f) \in Nat /\ Len(a) \in Nat
    BY <1>2
  <2> QED BY <1>2, <2>1, ConcatProperties
<1>9. /\ text \in Seq(Words) /\ Len(text) = 2 * Len(f) + 2 * Len(a)
      /\ \A i \in 1 .. 2 * Len(f) + 2 * Len(a) :
            text[i] = IF i <= 2 * Len(f) THEN ftext[i] ELSE atext[i - 2 * Len(f)]
  <2>1. /\ text \in Seq(Words) /\ Len(text) = Len(ftext) + Len(atext)
        /\ \A i \in 1 .. Len(ftext) + Len(atext) :
              text[i] = IF i <= Len(ftext) THEN ftext[i] ELSE atext[i - Len(ftext)]
    <3>1. ftext \in Seq(Words) /\ atext \in Seq(Words)
      BY <1>4, <1>5
    <3> QED BY <3>1, ConcatProperties
  <2> QED BY <1>4, <1>5, <2>1
<1> HIDE DEF s, text
<1>10. Spells(text, s)
  <2>1. ASSUME NEW i \in 1..Len(s)
        PROVE  text[2*i] = s[i] /\ text[2*i - 1] = IF i = 1 THEN "?" ELSE "&"
    <3>1. /\ 2*i \in 1 .. 2 * Len(f) + 2 * Len(a) /\ 2*i - 1 \in 1 .. 2 * Len(f) + 2 * Len(a)
          /\ i \in 1 .. Len(f) + Len(a)
      BY <1>8
    <3>2. CASE i <= Len(f)
      <4>1. i \in 1..Len(f) /\ 2*i <= 2 * Len(f) /\ 2*i - 1 <= 2 * Len(f)
        BY <1>8, <3>2
      <4>2. text[2*i] = ftext[2*i] /\ text[2*i - 1] = ftext[2*i - 1] /\ s[i] = f[i]
        BY <1>8, <1>9, <3>1, <3>2, <4>1
      <4> QED BY <1>4, <4>1, <4>2
    <3>3. CASE ~ (i <= Len(f))
      <4> DEFINE k == i - Len(f)
      <4>1. /\ k \in 1..Len(a) /\ ~ (2*i <= 2 * Len(f)) /\ ~ (2*i - 1 <= 2 * Len(f))
            /\ 2*i - 2 * Len(f) = 2*k /\ (2*i - 1) - 2 * Len(f) = 2*k - 1
            /\ i = 1 <=> (k = 1 /\ Len(f) = 0)
        BY <1>8, <3>1, <3>3
      <4>2. text[2*i] = atext[2*k] /\ text[2*i - 1] = atext[2*k - 1] /\ s[i] = a[k]
        <5>1. text[2*i] = atext[2*i - 2 * Len(f)]
          BY <1>9, <3>1, <4>1
        <5>2. text[2*i - 1] = atext[(2*i - 1) - 2 * Len(f)]
          BY <1>9, <3>1, <4>1
        <5>3. s[i] = a[k]
          BY <1>8, <3>1, <3>3
        <5> QED BY <4>1, <5>1, <5>2, <5>3
      <4> HIDE DEF k
      <4> QED BY <1>5, <1>6, <4>1, <4>2
    <3> QED BY <3>2, <3>3
  <2>2. Len(text) = 2 * Len(s)
    BY <1>8, <1>9
  <2> QED BY <1>9, <2>1, <2>2 DEF Spells
<1>11. \A x \in Elements(f) : x \notin Elements(a)
  BY <1>1, <1>2, NamesDiffer
<1>12. DOMAIN f = 1..Len(f) /\ DOMAIN a = 1..Len(a) /\ DOMAIN s = 1 .. Len(f) + Len(a)
  BY <1>2, <1>8
<1>13. NoDuplicates(s)
  <2> SUFFICES ASSUME NEW i \in 1 .. Len(f) + Len(a), NEW j \in 1 .. Len(f) + Len(a), s[i] = s[j]
               PROVE  i = j
    BY <1>12 DEF NoDuplicates
  <2>1. \A k \in 1 .. Len(f) + Len(a) :
           \/ k \in DOMAIN f /\ s[k] = f[k]
           \/ k - Len(f) \in DOMAIN a /\ s[k] = a[k - Len(f)]
    BY <1>8, <1>12
  <2>2. CASE i \in DOMAIN f /\ s[i] = f[i] /\ j \in DOMAIN f /\ s[j] = f[j]
    BY <1>2, <2>2 DEF NoDuplicates
  <2>3. CASE i - Len(f) \in DOMAIN a /\ s[i] = a[i - Len(f)] /\ j - Len(f) \in DOMAIN a /\ s[j] = a[j - Len(f)]
    <3>1. i - Len(f) = j - Len(f)
      BY <1>2, <2>3 DEF NoDuplicates
    <3> QED BY <1>8, <3>1
  <2>4. ASSUME NEW k \in DOMAIN f, NEW l \in DOMAIN a PROVE f[k] # a[l]
    BY <1>11 DEF Elements
  <2> QED BY <2>1, <2>2, <2>3, <2>4
<1>14. Elements(s) = c.filters \cup c.attributes
  <2>1. ASSUME NEW x \in Elements(s) PROVE x \in Elements(f) \cup Elements(a)
    <3>1. PICK i \in 1 .. Len(f) + Len(a) : x = s[i]
      BY <1>12 DEF Elements
    <3>2. CASE i <= Len(f)
      BY <1>8, <1>12, <3>1, <3>2 DEF Elements
    <3>3. CASE ~ (i <= Len(f))
      <4>1. i - Len(f) \in DOMAIN a /\ x = a[i - Len(f)]
        BY <1>8, <1>12, <3>1, <3>3
      <4> QED BY <4>1 DEF Elements
    <3> QED BY <3>2, <3>3
  <2>2. ASSUME NEW x \in Elements(f) PROVE x \in Elements(s)
    <3>1. PICK i \in 1..Len(f) : x = f[i]
      BY <1>12 DEF Elements
    <3>2. i \in DOMAIN s /\ s[i] = x
      BY <1>8, <1>12, <3>1
    <3> QED BY <3>2 DEF Elements
  <2>3. ASSUME NEW x \in Elements(a) PROVE x \in Elements(s)
    <3>1. PICK i \in 1..Len(a) : x = a[i]
      BY <1>12 DEF Elements
    <3>2. /\ Len(f) + i \in 1 .. Len(f) + Len(a) /\ ~ (Len(f) + i <= Len(f))
          /\ (Len(f) + i) - Len(f) = i
      BY <1>8
    <3>3. s[Len(f) + i] = x
      BY <1>8, <3>1, <3>2
    <3> QED BY <1>12, <3>2, <3>3 DEF Elements
  <2> QED BY <1>2, <2>1, <2>2, <2>3
<1> QED BY <1>7, <1>8, <1>10, <1>13, <1>14, SpellsParameters DEF Reads

(* The query of each command. *)
LEMMA QueriesRead ==
    ASSUME NEW c \in Calls
    PROVE  /\ Reads(UpdateQuery(c), c.filters \cup c.attributes)
           /\ Reads(After("?", filters_to_string(c)), c.filters)
           /\ Reads(After("?", attributes_to_string(c)), c.attributes)
           /\ Reads(<<>>, {})
<1>1. c.filters \subseteq Elements(FilterNames) /\ c.attributes \subseteq Elements(AttributeNames)
  BY ConstantsAssumption
<1>2. Reads(<<>>, {})
  <2>1. Cardinality({}) = 0
    BY FS_EmptySet
  <2> QED BY <2>1 DEF Reads, WellSeparated, Parameters
<1> QED BY <1>1, <1>2, TwoListsRead, OneListReads, NamesDiffer
          DEF filters_to_string, attributes_to_string

-----------------------------------------------------------------------------
(* Responses *)

(* A response is a sequence of tokens, and its objects are flat. *)
LEMMA ResponseTokens ==
    ASSUME NEW r \in Answers
    PROVE  /\ r \in Seq(Tokens) /\ DOMAIN r = 1..Len(r) /\ Len(r) \in Nat
           /\ \A i \in 1..Len(r) :
                 /\ r[i] \in Tokens /\ r[i].type \in TokenTypes /\ r[i].value \in Values
                 /\ r[i].type \in {"key", "object_end"} => InObject(r, i)
                 /\ InObject(r, i) /\ r[i-1].type = "key" => r[i].type \in {"string", "int", "other", "bad"}
                 /\ InObject(r, i) /\ r[i-1].type # "key" => r[i].type \in {"key", "object_end", "bad"}
<1>1. CASE r \in Responses
  <2>1. r \in Seq(Elements(r)) /\ \A t \in Elements(r) : t.type \in TokenTypes
    BY <1>1, ConstantsAssumption
  <2>2. Elements(r) \subseteq Tokens
    BY <1>1 DEF Tokens
  <2>3. r \in Seq(Tokens)
    BY <2>1, <2>2, SeqMonotonic
  <2>4. DOMAIN r = 1..Len(r) /\ Len(r) \in Nat
    BY <2>3
  <2>5. ASSUME NEW i \in 1..Len(r)
        PROVE  r[i] \in Tokens /\ r[i].type \in TokenTypes /\ r[i].value \in Values
    <3>1. r[i] \in Elements(r)
      BY <2>4 DEF Elements
    <3> QED BY <2>1, <2>2, <3>1 DEF Values
  <2> QED BY <1>1, <2>3, <2>4, <2>5, FlatAssumption
<1>2. CASE r = <<>>
  <2>1. r \in Seq(Tokens) /\ Len(r) = 0 /\ DOMAIN r = 1..0
    BY <1>2
  <2> QED BY <2>1
<1> QED BY <1>1, <1>2 DEF Answers

(* The positions of the tokens of one type, in order. *)
LEMMA PositionsInOrder ==
    ASSUME NEW A, NEW s \in Seq(A), NEW type
    PROVE  LET p == Positions(s, type)
           IN  /\ p \in Seq(1..Len(s))
               /\ \A k \in 1..Len(p) : p[k] \in 1..Len(s) /\ s[p[k]].type = type
               /\ \A i \in 1..Len(s) : s[i].type = type => \E k \in 1..Len(p) : p[k] = i
               /\ \A k, l \in 1..Len(p) : k < l => p[k] < p[l]
<1> DEFINE id == [i \in 1..Len(s) |-> i]
           S == {i \in DOMAIN s : s[i].type = type}
           p == Kept(id, S)
<1>1. DOMAIN s = 1..Len(s) /\ Len(s) \in Nat
  OBVIOUS
<1>2. id \in [1..Len(s) -> 1..Len(s)] /\ \A i \in 1..Len(s) : id[i] = i
  OBVIOUS
<1>3. id \in Seq(1..Len(s)) /\ Len(id) = Len(s)
  <2> HIDE DEF id
  <2> QED BY <1>1, <1>2
<1>4. Positions(s, type) = p
  BY DEF Positions
<1>5. \A i \in 1..Len(s) : i \in S <=> s[i].type = type
  BY <1>1
<1> HIDE DEF id, S
<1>6. p \in Seq(1..Len(s)) /\ \E e : Embeds(e, p, id, S, Len(id))
  BY <1>3, KeptEmbeds
<1>7. PICK e : Embeds(e, p, id, S, Len(id))
  BY <1>6
<1> HIDE DEF p
<1>8. /\ e \in [1..Len(p) -> 1..Len(s)]
      /\ \A k, l \in 1..Len(p) : k < l => e[k] < e[l]
      /\ \A k \in 1..Len(p) : p[k] = id[e[k]] /\ id[e[k]] \in S
      /\ \A i \in 1..Len(s) : id[i] \in S => \E k \in 1..Len(p) : e[k] = i
  BY <1>3, <1>7 DEF Embeds
<1>9. \A k \in 1..Len(p) : p[k] = e[k] /\ e[k] \in 1..Len(s) /\ e[k] \in S
  BY <1>2, <1>8
<1>10. \A k \in 1..Len(p) : p[k] \in 1..Len(s) /\ s[p[k]].type = type
  BY <1>5, <1>9
<1>11. \A i \in 1..Len(s) : s[i].type = type => \E k \in 1..Len(p) : p[k] = i
  BY <1>2, <1>5, <1>8, <1>9
<1>12. \A k, l \in 1..Len(p) : k < l => p[k] < p[l]
  BY <1>8, <1>9
<1> QED BY <1>4, <1>6, <1>10, <1>11, <1>12

(* One more token is looked at: does what is told of next end with it? *)
LEMMA NextReport ==
    ASSUME NEW R \in Seq(Nat), \A k, l \in 1..Len(R) : k < l => R[k] < R[l],
           NEW n \in 0..Len(R), NEW i \in Nat, \A k \in 1..Len(R) : k <= n <=> R[k] < i
    PROVE  /\ (\A k \in 1..Len(R) : R[k] # i) =>
                 \A k \in 1..Len(R) : k <= n <=> R[k] < i + 1
           /\ (\E k \in 1..Len(R) : R[k] = i) =>
                 /\ n + 1 \in 1..Len(R) /\ R[n + 1] = i
                 /\ \A k \in 1..Len(R) : k <= n + 1 <=> R[k] < i + 1
<1>1. Len(R) \in Nat /\ \A k \in 1..Len(R) : R[k] \in Nat
  OBVIOUS
<1>2. ASSUME \A k \in 1..Len(R) : R[k] # i
      PROVE  \A k \in 1..Len(R) : k <= n <=> R[k] < i + 1
  BY <1>1, <1>2
<1>3. ASSUME NEW k \in 1..Len(R), R[k] = i
      PROVE  /\ n + 1 \in 1..Len(R) /\ R[n + 1] = i
             /\ \A l \in 1..Len(R) : l <= n + 1 <=> R[l] < i + 1
  <2>1. ~ (k <= n)
    BY <1>1, <1>3
  <2>2. n + 1 \in 1..Len(R)
    BY <1>1, <2>1
  <2>3. k = n + 1
    <3>1. ~ (R[n + 1] < i)
      BY <2>2
    <3>2. ~ (n + 1 < k)
      BY <1>3, <2>2, <3>1
    <3> QED BY <1>1, <2>1, <3>2
  <2>4. ASSUME NEW l \in 1..Len(R) PROVE l <= n + 1 <=> R[l] < i + 1
    <3>1. CASE l <= n
      BY <1>1, <3>1
    <3>2. CASE l = n + 1
      BY <1>1, <1>3, <2>3, <3>2
    <3>3. CASE l > n + 1
      BY <1>1, <1>3, <2>3, <3>3
    <3> QED BY <1>1, <3>1, <3>2, <3>3
  <2> QED BY <1>3, <2>2, <2>3, <2>4
<1> QED BY <1>2, <1>3

(* A prefix, and one that is longer by one. *)
LEMMA PrefixGrows ==
    ASSUME NEW A, NEW s \in Seq(A), NEW n \in Nat, n + 1 \in 1..Len(s)
    PROVE  /\ SubSeq(s, 1, n) \in Seq(A) /\ Len(SubSeq(s, 1, n)) = n
           /\ Append(SubSeq(s, 1, n), s[n + 1]) = SubSeq(s, 1, n + 1)
<1>1. Len(s) \in Nat /\ n + 1 \in 1 .. Len(s) /\ 1 \in 1..Len(s) /\ n + 1 - 1 = n
  OBVIOUS
<1>2. SubSeq(s, 1, n + 1) = SubSeq(s, 1, n) \o <<s[n + 1]>>
  <2>1. SubSeq(s, 1, n + 1) = SubSeq(s, 1, (n + 1) - 1) \o <<s[n + 1]>>
    BY <1>1, SubSeqRecursiveSecond
  <2> QED BY <1>1, <2>1
<1>3. SubSeq(s, 1, n) \in Seq(A) /\ Len(SubSeq(s, 1, n)) = n
  <2>1. \A i \in 1..n : s[i] \in A
    BY <1>1
  <2>2. 1 <= n => n - 1 + 1 = n
    OBVIOUS
  <2> QED BY <2>1, SubSeqProperties
<1>4. s[n + 1] \in A
  BY <1>1
<1>5. Append(SubSeq(s, 1, n), s[n + 1]) = SubSeq(s, 1, n) \o <<s[n + 1]>>
  BY <1>3, <1>4, AppendIsConcat
<1> QED BY <1>2, <1>3, <1>5

-----------------------------------------------------------------------------
(* What the callback for each token makes of the fields *)

LEMMA LastIs ==
    ASSUME NEW S \in SUBSET Int, NEW m \in S, \A k \in S : k <= m
    PROVE  Last(S) = m
<1>1. \A i \in S : (\A k \in S : k <= i) => i = m
  OBVIOUS
<1> QED BY <1>1 DEF Last

LEMMA OpenedIsInObject ==
    ASSUME NEW r, NEW i \in Nat, NEW b, Opened(r, b, i)
    PROVE  InObject(r, i)
BY DEF Opened, InObject

(* Tokens between two objects. *)
LEMMA BetweenGoesOn ==
    ASSUME NEW r \in Answers, NEW i \in 1..Len(r), NEW j,
           Between(r, i, j), r[i].type # "object_begin"
    PROVE  Between(r, i+1, j)
<1>0. Len(r) \in Nat
  BY ResponseTokens
<1>1. ~InObject(r, i+1)
  <2> SUFFICES ASSUME NEW b \in 1 .. i+1-1, r[b].type = "object_begin",
                      \A k \in b+1 .. i+1-1 : r[k].type # "object_end"
               PROVE  FALSE
    BY DEF InObject
  <2>1. b \in 1..i-1
    <3>1. b # i
      OBVIOUS
    <3> QED BY <1>0, <3>1
  <2>2. \A k \in b+1 .. i-1 : r[k].type # "object_end"
    BY <1>0
  <2> QED BY <2>1, <2>2 DEF Between, InObject
<1> QED BY <1>1 DEF Between

LEMMA ObjectOpens ==
    ASSUME NEW r \in Answers, NEW i \in 1..Len(r), NEW j \in Jprocs,
           Between(r, i, j), r[i].type = "object_begin"
    PROVE  Within(r, i, i+1, Unset(j))
<1>0. Len(r) \in Nat
  BY ResponseTokens
<1>1. i \in Nat /\ i >= 1
  BY <1>0
<1>2. Opened(r, i, i+1)
  BY <1>1 DEF Opened
<1>3. \A name : ValueIn(r, i, i+1-1, name) = NULL
  BY <1>1 DEF ValueIn
<1>4. /\ \A name \in Fields : Unset(j)[name] = NULL
      /\ Unset(j).is_key = j.is_key
  BY DEF Between, Fields, Unset, Jprocs
<1>5. i+1-1 = i
  BY <1>1
<1> QED BY <1>2, <1>3, <1>4, <1>5 DEF Within, Between

(* In an object the token before, or the object's begin, tells what may follow. *)
LEMMA OpenedFollows ==
    ASSUME NEW r \in Answers, NEW i \in 1..Len(r), NEW b, Opened(r, b, i)
    PROVE  /\ b \in 1..i-1 /\ r[b].type = "object_begin" /\ i-1 \in 1..Len(r)
           /\ r[i-1].type = "key" => b + 1 <= i-1
           /\ r[i].type \notin {"object_begin", "object_end"} => Opened(r, b, i+1)
           /\ \A k \in b+1..i-1 : r[k].type \notin {"object_begin", "object_end"}
<1>1. Len(r) \in Nat
  BY ResponseTokens
<1>2. /\ b \in 1..i-1 /\ r[b].type = "object_begin" /\ i-1 \in 1..Len(r)
      /\ \A k \in b+1..i-1 : r[k].type \notin {"object_begin", "object_end"}
  BY <1>1 DEF Opened
<1>3. r[i-1].type = "key" => b + 1 <= i-1
  <2>1. i-1 = b => r[i-1].type # "key"
    BY <1>2
  <2> QED BY <1>1, <1>2, <2>1
<1>4. r[i].type \notin {"object_begin", "object_end"} => Opened(r, b, i+1)
  <2>1. b \in 1 .. i+1-1
    BY <1>1, <1>2
  <2>2. \A k \in b+1 .. i+1-1 : k \in b+1..i-1 \/ k = i
    BY <1>1, <1>2
  <2> QED BY <1>2, <2>1, <2>2 DEF Opened
<1> QED BY <1>2, <1>3, <1>4

(* How the value of a field changes with one more token. *)
LEMMA ValueInGrows ==
    ASSUME NEW r \in Answers, NEW i \in 1..Len(r), NEW b, Opened(r, b, i), NEW name
    PROVE  ValueIn(r, b, i, name) =
             IF r[i-1].type = "key" /\ r[i-1].value = name
               THEN r[i].value ELSE ValueIn(r, b, i-1, name)
<1> DEFINE V(e) == {k \in b+2 .. e : r[k-1].type = "key" /\ r[k-1].value = name}
<1>1. \A e : ValueIn(r, b, e, name) = IF V(e) = {} THEN NULL ELSE r[Last(V(e))].value
  BY DEF ValueIn
<1>2. Len(r) \in Nat /\ b \in Nat /\ i \in Nat
  BY ResponseTokens, OpenedFollows
<1>3. CASE r[i-1].type = "key" /\ r[i-1].value = name
  <2>1. i \in V(i)
    BY <1>2, <1>3, OpenedFollows
  <2>2. V(i) \in SUBSET Int /\ \A k \in V(i) : k <= i
    BY <1>2
  <2>3. Last(V(i)) = i
    <3> HIDE DEF V
    <3> QED BY <2>1, <2>2, LastIs
  <2>4. V(i) # {}
    BY <2>1
  <2> HIDE DEF V
  <2> QED BY <1>1, <1>3, <2>3, <2>4
<1>4. CASE ~ (r[i-1].type = "key" /\ r[i-1].value = name)
  <2>1. V(i) = V(i-1)
    BY <1>2, <1>4
  <2> HIDE DEF V
  <2> QED BY <1>1, <1>4, <2>1
<1> QED BY <1>3, <1>4

LEMMA KeyRead ==
    ASSUME NEW r \in Answers, NEW i \in 1..Len(r), NEW j \in Jprocs,
           NEW b, Within(r, b, i, j), r[i].type = "key"
    PROVE  Within(r, b, i+1, [j EXCEPT !.is_key = TRUE, !.key = r[i].value])
<1> DEFINE k == [j EXCEPT !.is_key = TRUE, !.key = r[i].value]
<1>1. Opened(r, b, i) /\ i+1-1 = i
  BY ResponseTokens DEF Within
<1>2. Opened(r, b, i+1)
  BY <1>1, OpenedFollows
<1>3. r[i-1].type # "key"
  BY <1>1, ResponseTokens, OpenedIsInObject
<1>4. \A name : ValueIn(r, b, i, name) = ValueIn(r, b, i-1, name)
  BY <1>1, <1>3, ValueInGrows
<1>5. /\ \A name \in Fields : k[name] = j[name]
      /\ k.is_key = TRUE /\ k.key = r[i].value
  BY DEF Fields, Jprocs
<1> HIDE DEF k
<1> QED BY <1>1, <1>2, <1>4, <1>5 DEF Within, k

LEMMA ValueRead ==
    ASSUME NEW r \in Answers, NEW i \in 1..Len(r), NEW j \in Jprocs,
           NEW b, Within(r, b, i, j), j.is_key, j.key \in Fields,
           r[i].type \notin {"object_begin", "object_end", "key"}
    PROVE  Within(r, b, i+1, [j EXCEPT !.is_key = FALSE, ![j.key] = r[i].value])
<1> DEFINE k == [j EXCEPT !.is_key = FALSE, ![j.key] = r[i].value]
<1>1. Opened(r, b, i) /\ i+1-1 = i
  BY ResponseTokens DEF Within
<1>2. Opened(r, b, i+1)
  BY <1>1, OpenedFollows
<1>3. r[i-1].type = "key" /\ j.key = r[i-1].value
  BY DEF Within
<1>4. \A name : ValueIn(r, b, i, name) =
                   IF j.key = name THEN r[i].value ELSE ValueIn(r, b, i-1, name)
  BY <1>1, <1>3, ValueInGrows
<1>5. /\ \A name \in Fields : k[name] = IF j.key = name THEN r[i].value ELSE j[name]
      /\ k.is_key = FALSE
  BY DEF Fields, Jprocs
<1> HIDE DEF k
<1>6. \A name \in Fields : k[name] = ValueIn(r, b, i, name)
  BY <1>4, <1>5 DEF Within
<1>7. ~k.is_key /\ ~ (r[i+1-1].type = "key")
  BY <1>1, <1>5
<1>8. \A name \in Fields : k[name] = ValueIn(r, b, i+1-1, name)
  BY <1>1, <1>6
<1>9. k.is_key <=> r[i+1-1].type = "key"
  BY <1>7
<1>10. k.is_key => k.key = r[i+1-1].value
  BY <1>7
<1>11. Within(r, b, i+1, k)
  BY <1>2, <1>8, <1>9, <1>10 DEF Within
<1> QED BY <1>11 DEF k

LEMMA ObjectCloses ==
    ASSUME NEW r \in Answers, NEW i \in 1..Len(r), NEW j \in Jprocs,
           NEW b, Within(r, b, i, j), r[i].type = "object_end"
    PROVE  MessageAt(r, i) = Told(j) /\ Between(r, i+1, Clean(j))
<1> DEFINE B == {k \in 1..i : r[k].type = "object_begin"}
<1>1. Opened(r, b, i) /\ Len(r) \in Nat
  BY ResponseTokens DEF Within
<1>2. b \in B /\ B \in SUBSET Int /\ \A k \in B : k <= b
  BY <1>1, OpenedFollows
<1>3. Last(B) = b
  <2> HIDE DEF B
  <2> QED BY <1>2, LastIs
<1>4. \A name : Field(r, i, name) = ValueIn(r, b, i-1, name)
  BY <1>3 DEF Field, ValueIn
<1>5. \A name \in Fields : Field(r, i, name) = j[name]
  BY <1>4 DEF Within
<1>6. MessageAt(r, i) = Told(j)
  BY <1>5 DEF MessageAt, Told, Fields
<1>7. ~InObject(r, i+1)
  <2> SUFFICES ASSUME NEW c \in 1 .. i+1-1, r[c].type = "object_begin",
                      \A k \in c+1 .. i+1-1 : r[k].type # "object_end"
               PROVE  FALSE
    BY DEF InObject
  <2>1. c # i
    OBVIOUS
  <2>2. i \in c+1 .. i+1-1
    BY <1>1, <2>1
  <2> QED BY <2>2
<1>8. ~j.is_key
  <2>1. r[i-1].type # "key"
    BY <1>1, ResponseTokens, OpenedIsInObject
  <2> QED BY <2>1 DEF Within
<1>9. (\A name \in Fields : Clean(j)[name] = NULL) /\ Clean(j).is_key = j.is_key
  BY DEF Fields, Clean, Unset, Jprocs
<1> QED BY <1>6, <1>7, <1>8, <1>9 DEF Between

-----------------------------------------------------------------------------
(* What the client is to be told *)

LEMMA CommandsDiffer ==
    /\ \A c \in ListCommands : c \notin MessageCommands /\ c # "CREATE_MESSAGE" /\ c # "NONE"
    /\ \A c \in MessageCommands : c \notin ListCommands /\ c # "CREATE_MESSAGE" /\ c # "NONE"
    /\ \A c \in DeleteCommands : c \notin Looked /\ c # "CREATE_MESSAGE" /\ c # "NONE"
    /\ "CREATE_MESSAGE" \notin Looked /\ "NONE" \notin Looked /\ "NONE" \notin AllCommands
    /\ AllCommands = Looked \cup DeleteCommands \cup {"CREATE_MESSAGE"}
BY DEF ListCommands, MessageCommands, DeleteCommands, Looked, AllCommands

(* The reports are the positions of the tokens they end with, in order. *)
LEMMA ReportsAre ==
    ASSUME response \in Answers
    PROVE  /\ Reports \in Seq(Nat) /\ Len(Reports) \in Nat
           /\ \A k, l \in 1..Len(Reports) : k < l => Reports[k] < Reports[l]
           /\ \A k \in 1..Len(Reports) :
                 Reports[k] \in 1..Len(response) /\ response[Reports[k]].type = Ending
           /\ \A i \in 1..Len(response) : response[i].type = Ending =>
                 \E k \in 1..Len(Reports) : Reports[k] = i
<1>1. response \in Seq(Tokens) /\ Len(response) \in Nat
  BY ResponseTokens
<1>2. /\ Reports \in Seq(1..Len(response))
      /\ \A k \in 1..Len(Reports) :
            Reports[k] \in 1..Len(response) /\ response[Reports[k]].type = Ending
      /\ \A i \in 1..Len(response) : response[i].type = Ending =>
            \E k \in 1..Len(Reports) : Reports[k] = i
      /\ \A k, l \in 1..Len(Reports) : k < l => Reports[k] < Reports[l]
  BY <1>1, PositionsInOrder DEF Reports
<1>3. 1..Len(response) \subseteq Nat
  OBVIOUS
<1>4. Reports \in Seq(Nat) /\ Len(Reports) \in Nat
  BY <1>2, <1>3, SeqMonotonic
<1> QED BY <1>2, <1>4

LEMMA ExpectedIs ==
    ASSUME response \in Answers
    PROVE  /\ Expected \in Seq(Elements(Expected)) /\ Len(Expected) \in Nat
           /\ call.command \in ListCommands =>
                 /\ Len(Expected) = Len(Reports)
                 /\ \A k \in 1..Len(Reports) : Expected[k] = response[Reports[k]].value
           /\ call.command \in MessageCommands /\ ~call.body_only =>
                 /\ Len(Expected) = Len(Reports)
                 /\ \A k \in 1..Len(Reports) : Expected[k] = MessageAt(response, Reports[k])
           /\ call.command \in MessageCommands /\ call.body_only =>
                 Expected = <<[id |-> NULL, body |-> response, ttl |-> NULL, hide |-> NULL]>>
           /\ call.command \notin Looked => Expected = <<>>
<1> DEFINE strings == Positions(response, "string")
           ends == Positions(response, "object_end")
           one == [id |-> NULL, body |-> response, ttl |-> NULL, hide |-> NULL]
<1>1. Len(Reports) \in Nat
  BY ReportsAre
<1>2. ASSUME NEW n \in Nat, NEW S, Expected \in [1..n -> S]
      PROVE  Expected \in Seq(Elements(Expected)) /\ Len(Expected) = n
  <2>1. Expected \in Seq(S) /\ Len(Expected) = n
    BY <1>2
  <2>2. Expected \in [1..n -> Elements(Expected)]
    BY <1>2 DEF Elements
  <2> QED BY <2>1, <2>2
<1>3. CASE call.command \in ListCommands
  <2>1. Reports = strings
    BY <1>3 DEF Reports, Ending
  <2>2. Expected = [i \in 1..Len(strings) |-> response[strings[i]].value]
    BY <1>3, CommandsDiffer DEF Expected
  <2> HIDE DEF strings
  <2> DEFINE S == {response[strings[i]].value : i \in 1..Len(strings)}
  <2>3. Expected \in [1..Len(Reports) -> S]
    BY <2>1, <2>2
  <2>4. \A k \in 1..Len(Reports) : Expected[k] = response[Reports[k]].value
    BY <2>1, <2>2
  <2> HIDE DEF S
  <2>5. Expected \in Seq(Elements(Expected)) /\ Len(Expected) = Len(Reports)
    BY <1>1, <1>2, <2>3
  <2> QED BY <1>1, <1>3, <2>4, <2>5, CommandsDiffer DEF Looked
<1>4. CASE call.command \in MessageCommands /\ ~call.body_only
  <2>1. Reports = ends
    BY <1>4, CommandsDiffer DEF Reports, Ending
  <2>2. Expected = [i \in 1..Len(ends) |-> MessageAt(response, ends[i])]
    BY <1>4, CommandsDiffer DEF Expected
  <2> HIDE DEF ends
  <2> DEFINE S == {MessageAt(response, ends[i]) : i \in 1..Len(ends)}
  <2>3. Expected \in [1..Len(Reports) -> S]
    BY <2>1, <2>2
  <2>4. \A k \in 1..Len(Reports) : Expected[k] = MessageAt(response, Reports[k])
    BY <2>1, <2>2
  <2> HIDE DEF S
  <2>5. Expected \in Seq(Elements(Expected)) /\ Len(Expected) = Len(Reports)
    BY <1>1, <1>2, <2>3
  <2> QED BY <1>1, <1>4, <2>4, <2>5, CommandsDiffer DEF Looked
<1>5. CASE call.command \in MessageCommands /\ call.body_only
  <2>1. Expected = <<one>>
    BY <1>5, CommandsDiffer DEF Expected
  <2> HIDE DEF one
  <2>2. <<one>> \in [1..1 -> {one}]
    OBVIOUS
  <2>3. Expected \in Seq(Elements(Expected)) /\ Len(Expected) = 1
    BY <1>2, <2>1, <2>2
  <2> QED BY <1>5, <2>1, <2>3, CommandsDiffer DEF Looked, one
<1>6. CASE call.command \notin Looked
  <2>1. Expected = <<>>
    BY <1>6 DEF Expected, Looked
  <2>2. Expected \in Seq(Elements(Expected)) /\ Len(Expected) = 0
    BY <2>1
  <2> QED BY <1>6, <2>1, <2>2 DEF Looked
<1>7. call.body_only \/ ~call.body_only
  OBVIOUS
<1> QED BY <1>3, <1>4, <1>5, <1>6, <1>7 DEF Looked

LEMMA ExpectedSame ==
    ASSUME UNCHANGED <<call, response>>
    PROVE  Expected' = Expected /\ Reports' = Reports
BY DEF Expected, Reports, Ending

(* Nothing told of yet. *)
LEMMA NothingTold ==
    ASSUME response \in Answers
    PROVE  SubSeq(Expected, 1, 0) = <<>> /\ 0 \in 0..Len(Expected)
<1>1. Len(Expected) \in Nat
  BY ExpectedIs
<1> QED BY <1>1, SubSeqEmpty

-----------------------------------------------------------------------------
(* The first state *)

LEMMA InitInv == Init => IndInv
<1> SUFFICES ASSUME Init PROVE IndInv
  OBVIOUS
<1>1. response \in Answers /\ call = NoCall /\ call.command = "NONE"
  BY DEF Init, Answers, NoCall
<1>2. Types
  <2>1. <<>> \in Seq(Pieces) /\ Len(<<>>) = 0
    OBVIOUS
  <2>2. TypeOK
    <3>1. buffer.size = 0 /\ buffer.where = 0 /\ buffer.text = <<>>
      BY DEF Init, NewBuffer
    <3>2. at \in 1..Len(buffer.text)+1
      BY <3>1, <2>1 DEF Init
    <3>3. jproc.is_key \in BOOLEAN /\ request.method = "NONE"
      BY DEF Init, NoRequest, NewJproc
    <3>4. buffer.size \in Nat /\ buffer.where \in 0..buffer.size
      BY <3>1
    <3>5. /\ server = NULL /\ port = NULL /\ baseurl = NULL /\ command = "NONE"
          /\ get_body_only = FALSE /\ transfer = "none" /\ pc = "idle" /\ ret = "0"
      BY DEF Init
    <3> QED BY <3>2, <3>3, <3>4, <3>5 DEF TypeOK
  <2>3. buffer \in [size : Nat, where : Nat, text : Seq(Pieces)]
    BY <2>1 DEF Init, NewBuffer
  <2>4. jproc \in Jprocs
    BY DEF Init, NewJproc, Jprocs, Values
  <2> QED BY <1>1, <2>1, <2>2, <2>3, <2>4 DEF Init, Types
<1>3. UrlIsCurrent
  BY DEF Init, UrlIsCurrent
<1>4. CallInv /\ TransferInv /\ BufferIsResponse /\ RequestSaysCommand
  BY DEF Init, CallInv, TransferInv, BufferIsResponse, RequestSaysCommand, Working
<1>5. ToldInv
  BY <1>1, NothingTold DEF Init, ToldInv
<1>6. DoneInv
  BY <1>1 DEF Init, DoneInv, CompleteMeansAll
<1> QED BY <1>2, <1>3, <1>4, <1>5, <1>6 DEF IndInv, ExchangeInv

-----------------------------------------------------------------------------
(* What steps leave alone *)

LEMMA UrlFrame ==
    ASSUME UrlIsCurrent, UNCHANGED options
    PROVE  UrlIsCurrent'
BY DEF UrlIsCurrent, options

LEMMA NotWorking ==
    ASSUME pc' \in {"idle", "destroyed"}
    PROVE  CallInv' /\ TransferInv' /\ BufferIsResponse' /\ RequestSaysCommand'
BY DEF CallInv, TransferInv, BufferIsResponse, RequestSaysCommand, Working

LEMMA CallFrame ==
    ASSUME CallInv, Working, UNCHANGED <<call, get_body_only>>, command' \in {command, "NONE"}
    PROVE  CallInv'
<1>1. /\ call \in Calls /\ command \in {call.command, "NONE"}
      /\ call.command # "CREATE_MESSAGE" =>
            get_body_only = (call.command \in MessageCommands /\ call.body_only)
  BY DEF CallInv
<1>2. call' \in Calls /\ command' \in {call'.command, "NONE"}
  BY <1>1
<1>3. call'.command # "CREATE_MESSAGE" =>
         get_body_only' = (call'.command \in MessageCommands /\ call'.body_only)
  BY <1>1
<1> QED BY <1>2, <1>3 DEF CallInv

LEMMA RequestFrame ==
    ASSUME RequestSaysCommand, Working, UNCHANGED <<call, request>>
    PROVE  RequestSaysCommand'
BY DEF RequestSaysCommand, Working

LEMMA BufferFrame ==
    ASSUME BufferIsResponse, Working, UNCHANGED <<call, incoming, buffer, response>>,
           transfer' = "failed" \/ transfer # "failed"
    PROVE  BufferIsResponse'
BY DEF BufferIsResponse, Working

LEMMA ToldFrame ==
    ASSUME ToldInv, UNCHANGED <<call, response, reported>>, pc' # "parse"
    PROVE  ToldInv'
<1>1. Expected' = Expected
  BY ExpectedSame
<1> QED BY <1>1 DEF ToldInv

LEMMA DoneFrame ==
    ASSUME pc' # "idle" \/ ret' # "0"
    PROVE  DoneInv'
BY DEF DoneInv, CompleteMeansAll

(* Only the options change. *)
LEMMA OptionsFrame ==
    ASSUME ExchangeInv,
           UNCHANGED <<command, get_body_only, request, transfer, incoming, buffer, parsing, pc,
                       ret, call, response, reported, sent>>
    PROVE  /\ CallInv' /\ TransferInv' /\ BufferIsResponse' /\ RequestSaysCommand'
           /\ ToldInv' /\ (DoneInv => DoneInv')
<1>1. Expected' = Expected /\ Reports' = Reports
  BY ExpectedSame
<1>2. CallInv' /\ TransferInv'
  BY DEF IndInv, ExchangeInv, CallInv, TransferInv, Working, parsing
<1>3. BufferIsResponse' /\ RequestSaysCommand'
  BY DEF IndInv, ExchangeInv, BufferIsResponse, RequestSaysCommand
<1>4. ParseInv' <=> ParseInv
  BY <1>1 DEF ParseInv, parsing
<1>5. ToldInv'
  BY <1>1, <1>4 DEF IndInv, ExchangeInv, ToldInv
<1>6. DoneInv => DoneInv'
  BY <1>1 DEF DoneInv, CompleteMeansAll
<1> QED BY <1>2, <1>3, <1>5, <1>6

-----------------------------------------------------------------------------
(* Options *)

LEMMA SetServerInv ==
    ASSUME ExchangeInv, NEW s \in Servers, SetServer(s)
    PROVE  ExchangeInv' /\ (DoneInv => DoneInv')
<1>1. Types /\ UrlIsCurrent /\ s # NULL
  BY ConstantsAssumption DEF IndInv, ExchangeInv
<1>2. UNCHANGED <<command, get_body_only, request, transfer, incoming, buffer, parsing, pc,
                  ret, call, response, reported, sent>>
  BY DEF SetServer
<1>3. /\ port' = port
      /\ \/ server' = s /\ BuildUrl
         \/ server' = NULL /\ baseurl' = baseurl
  BY DEF SetServer
<1>4. /\ server' \in Servers \cup {NULL} /\ port' \in Ports \cup {NULL}
      /\ baseurl' \in (Servers \X Ports) \cup {NULL}
      /\ UrlIsCurrent'
  <2>1. /\ server \in Servers \cup {NULL} /\ port \in Ports \cup {NULL}
        /\ baseurl \in (Servers \X Ports) \cup {NULL}
    BY <1>1 DEF Types, TypeOK
  <2>2. CASE server' = s /\ BuildUrl
    <3>1. CASE port' = NULL
      <4>1. baseurl' = baseurl
        BY <2>2, <3>1 DEF BuildUrl
      <4> QED BY <1>3, <2>1, <2>2, <3>1, <4>1 DEF UrlIsCurrent
    <3>2. CASE port' # NULL
      <4>1. baseurl' = <<server', port'>> \/ baseurl' = NULL
        BY <1>1, <2>2, <3>2 DEF BuildUrl
      <4>2. port' \in Ports /\ server' \in Servers
        BY <1>3, <2>1, <2>2, <3>2
      <4>3. <<server', port'>> \in Servers \X Ports
        BY <4>2
      <4> QED BY <1>3, <2>1, <2>2, <3>2, <4>1, <4>3 DEF UrlIsCurrent
    <3> QED BY <3>1, <3>2
  <2>3. CASE server' = NULL /\ baseurl' = baseurl
    BY <1>1, <1>3, <2>1, <2>3 DEF UrlIsCurrent
  <2> QED BY <1>3, <2>2, <2>3
<1>5. Types'
  BY <1>1, <1>2, <1>4 DEF Types, TypeOK, parsing
<1> QED BY <1>2, <1>4, <1>5, OptionsFrame DEF ExchangeInv

LEMMA SetPortInv ==
    ASSUME ExchangeInv, NEW p \in Ports \cup {NULL}, SetPort(p)
    PROVE  ExchangeInv' /\ (DoneInv => DoneInv')
<1>1. Types /\ UrlIsCurrent
  BY DEF IndInv, ExchangeInv
<1>2. UNCHANGED <<command, get_body_only, request, transfer, incoming, buffer, parsing, pc,
                  ret, call, response, reported, sent>>
  BY DEF SetPort
<1>3. port' = p /\ server' = server /\ BuildUrl
  BY DEF SetPort
<1>4. /\ server' \in Servers \cup {NULL} /\ port' \in Ports \cup {NULL}
      /\ baseurl' \in (Servers \X Ports) \cup {NULL}
      /\ UrlIsCurrent'
  <2>1. /\ server \in Servers \cup {NULL} /\ port \in Ports \cup {NULL}
        /\ baseurl \in (Servers \X Ports) \cup {NULL}
    BY <1>1 DEF Types, TypeOK
  <2>2. CASE server' = NULL \/ port' = NULL
    <3>1. baseurl' = baseurl
      BY <1>3, <2>2 DEF BuildUrl
    <3> QED BY <1>1, <1>3, <2>1, <2>2, <3>1 DEF UrlIsCurrent
  <2>3. CASE server' # NULL /\ port' # NULL
    <3>1. baseurl' = <<server', port'>> \/ baseurl' = NULL
      BY <1>1, <1>3, <2>3 DEF BuildUrl
    <3>2. port' \in Ports /\ server' \in Servers
      BY <1>3, <2>1, <2>3
    <3>3. <<server', port'>> \in Servers \X Ports
      BY <3>2
    <3> QED BY <1>1, <1>3, <2>1, <3>1, <3>2, <3>3 DEF UrlIsCurrent
  <2> QED BY <2>2, <2>3
<1>5. Types'
  BY <1>1, <1>2, <1>4 DEF Types, TypeOK, parsing
<1> QED BY <1>2, <1>4, <1>5, OptionsFrame DEF ExchangeInv

LEMMA DestroyInv == ASSUME IndInv, destroy PROVE IndInv'
<1>1. Types /\ UrlIsCurrent /\ ToldInv
  BY DEF IndInv, ExchangeInv
<1>2. /\ pc' = "destroyed" /\ server' = NULL /\ baseurl' = NULL /\ request' = NoRequest
      /\ transfer' = "none" /\ incoming' = <<>> /\ buffer' = NewBuffer /\ at' = 1
      /\ UNCHANGED <<port, command, get_body_only, jproc, ret, call, response, reported, sent>>
  BY DEF destroy
<1>3. Types'
  <2>1. <<>> \in Seq(Pieces) /\ Len(<<>>) = 0
    OBVIOUS
  <2>2. TypeOK'
    BY <1>1, <1>2, <2>1 DEF Types, TypeOK, NoRequest, NewBuffer
  <2>3. buffer' \in [size : Nat, where : Nat, text : Seq(Pieces)]
    BY <1>2, <2>1 DEF NewBuffer
  <2> QED BY <1>1, <1>2, <2>1, <2>2, <2>3 DEF Types
<1>4. UrlIsCurrent'
  BY <1>2 DEF UrlIsCurrent
<1>5. CallInv' /\ TransferInv' /\ BufferIsResponse' /\ RequestSaysCommand'
  BY <1>2, NotWorking
<1>6. ToldInv'
  BY <1>1, <1>2, ToldFrame
<1>7. DoneInv'
  BY <1>2, DoneFrame
<1> QED BY <1>3, <1>4, <1>5, <1>6, <1>7 DEF IndInv, ExchangeInv

-----------------------------------------------------------------------------
(* Steps without a change of the request, the buffer or the reports *)

(* Only pc and what was returned change, or how the transfer and the command stand. *)
LEMMA TypesFrame ==
    ASSUME Types, UNCHANGED <<options, get_body_only, request, incoming, buffer, parsing,
                              call, response, reported, sent>>,
           command' \in {command, "NONE"}, transfer' \in {"none", "running", "ok", "failed"},
           pc' \in {"idle", "perform", "parse", "waiting"},
           ret' \in {"0", "EAGAIN", "EINVAL", "ENOMEM", "garbage"}
    PROVE  Types'
BY DEF Types, TypeOK, options, parsing

(* process returns for good, but not with 0. *)
LEMMA FailedInv ==
    ASSUME IndInv, UNCHANGED <<options, command, get_body_only, request, transfer, incoming, buffer,
                               parsing, call, response, reported, sent>>,
           pc' = "idle", ret' \in {"EINVAL", "ENOMEM", "garbage"}
    PROVE  IndInv'
<1>1. Types'
  BY TypesFrame DEF IndInv, ExchangeInv, Types, TypeOK
<1>2. UrlIsCurrent' /\ ToldInv' /\ DoneInv'
  BY UrlFrame, ToldFrame, DoneFrame DEF IndInv, ExchangeInv
<1>3. CallInv' /\ TransferInv' /\ BufferIsResponse' /\ RequestSaysCommand'
  BY NotWorking
<1> QED BY <1>1, <1>2, <1>3 DEF IndInv, ExchangeInv

LEMMA ProcessErrorInv == ASSUME IndInv, ProcessError PROVE IndInv'
BY FailedInv DEF ProcessError, Return

(* The command waits, or goes on. *)
LEMMA WaitInv ==
    ASSUME IndInv, Working, pc # "parse", transfer = "running" \/ pc' = "perform",
           UNCHANGED <<options, get_body_only, request, transfer, incoming, buffer,
                       parsing, call, response, reported, sent>>,
           command' \in {command, "NONE"}, pc' \in {"perform", "waiting"}, ret' \in {ret, "EAGAIN"}
    PROVE  IndInv'
<1>1. Types'
  BY TypesFrame DEF IndInv, ExchangeInv, Types, TypeOK
<1>2. UrlIsCurrent' /\ ToldInv' /\ DoneInv'
  BY UrlFrame, ToldFrame, DoneFrame DEF IndInv, ExchangeInv
<1>3. CallInv' /\ BufferIsResponse' /\ RequestSaysCommand'
  BY CallFrame, BufferFrame, RequestFrame DEF IndInv, ExchangeInv
<1>4. TransferInv'
  <2>1. /\ transfer \in {"running", "ok", "failed"}
        /\ transfer = "ok" => incoming = <<>> /\ buffer.where = buffer.size
        /\ at = 1 /\ reported = <<>>
        /\ call.command = "CREATE_MESSAGE" =>
             /\ buffer.text = Body /\ buffer.size = Len(Body)
             /\ sent = SubSeq(Body, 1, buffer.where)
             /\ incoming = <<>>
    BY DEF IndInv, ExchangeInv, TransferInv
  <2>2. /\ pc' = "waiting" => transfer' = "running"
        /\ pc' # "parse"
    OBVIOUS
  <2> QED BY <2>1, <2>2 DEF TransferInv, parsing
<1> QED BY <1>1, <1>2, <1>3, <1>4 DEF IndInv, ExchangeInv

LEMMA EventRaisedInv == ASSUME IndInv, event_raised PROVE IndInv'
BY WaitInv DEF event_raised, Working

(* The frontend forgets the command, whatever makes it, while the backend waits. *)
LEMMA ForgottenInv ==
    ASSUME IndInv, pc = "waiting", command' = "NONE",
           UNCHANGED <<options, get_body_only, request, transfer, incoming, buffer,
                       parsing, pc, ret, call, response, reported, sent>>
    PROVE  IndInv'
<1>1. transfer = "running"
  BY DEF IndInv, ExchangeInv, TransferInv, Working
<1> QED BY <1>1, WaitInv DEF Working

LEMMA CancelInv == ASSUME IndInv, burrow_cancel PROVE IndInv'
BY ForgottenInv DEF burrow_cancel

LEMMA ProcessBlocksInv == ASSUME IndInv, ProcessBlocks PROVE IndInv'
<1>1. CASE Return("EAGAIN")
  BY <1>1, WaitInv DEF ProcessBlocks, Return, Working
<1>2. CASE "no_fds" \in Faults /\ Return("0")
  <2>1. UNCHANGED <<options, command, get_body_only, request, transfer, incoming, buffer, parsing,
                    call, response, reported, sent>>
    BY DEF ProcessBlocks
  <2>2. pc' = "idle" /\ ret' = "0"
    BY <1>2 DEF Return
  <2>3. Types'
    BY <2>1, <2>2, TypesFrame DEF IndInv, ExchangeInv, Types, TypeOK
  <2>4. UrlIsCurrent' /\ ToldInv'
    BY <2>1, <2>2, UrlFrame, ToldFrame DEF IndInv, ExchangeInv
  <2>5. CallInv' /\ TransferInv' /\ BufferIsResponse' /\ RequestSaysCommand'
    BY <2>2, NotWorking
  <2>6. DoneInv'
    BY <1>2 DEF DoneInv
  <2> QED BY <2>3, <2>4, <2>5, <2>6 DEF IndInv, ExchangeInv
<1> QED BY <1>1, <1>2 DEF ProcessBlocks

LEMMA StutterInv ==
    ASSUME ExchangeInv, UNCHANGED vars
    PROVE  ExchangeInv' /\ (DoneInv => DoneInv')
<1>1. Types'
  BY DEF ExchangeInv, Types, TypeOK, vars, options, parsing
<1>2. UrlIsCurrent'
  BY UrlFrame DEF ExchangeInv, vars
<1>3. /\ CallInv' /\ TransferInv' /\ BufferIsResponse' /\ RequestSaysCommand'
      /\ ToldInv' /\ (DoneInv => DoneInv')
  BY OptionsFrame DEF vars
<1> QED BY <1>1, <1>2, <1>3 DEF ExchangeInv

(* While the backend is idle the frontend's command does not matter, except to DoneInv. *)
LEMMA IdleCommandInv ==
    ASSUME ExchangeInv, pc = "idle", command' \in AllCommands \cup {"NONE"},
           UNCHANGED <<options, get_body_only, request, transfer, incoming, buffer, parsing, pc,
                       ret, call, response, reported, sent>>
    PROVE  ExchangeInv'
<1>1. Types'
  BY DEF ExchangeInv, Types, TypeOK, options, parsing
<1>2. UrlIsCurrent' /\ ToldInv'
  BY UrlFrame, ToldFrame DEF ExchangeInv
<1>3. CallInv' /\ TransferInv' /\ BufferIsResponse' /\ RequestSaysCommand'
  BY NotWorking
<1> QED BY <1>1, <1>2, <1>3 DEF ExchangeInv

-----------------------------------------------------------------------------
(* Inside curl_multi_perform *)

(* The transfer ends, well or not. *)
LEMMA TransferEndsInv == ASSUME IndInv, TransferEnds \/ TransferFails PROVE IndInv'
<1>1. /\ pc = "perform" /\ transfer = "running" /\ transfer' \in {"ok", "failed"}
      /\ transfer' = "ok" => incoming = <<>> /\ buffer.where = buffer.size
      /\ UNCHANGED <<options, command, get_body_only, request, incoming, buffer, parsing, pc, ret,
                     call, response, reported, sent>>
  BY DEF TransferEnds, TransferFails
<1>2. Types'
  BY <1>1, TypesFrame DEF IndInv, ExchangeInv, Types, TypeOK
<1>3. UrlIsCurrent' /\ ToldInv' /\ DoneInv'
  BY <1>1, UrlFrame, ToldFrame, DoneFrame DEF IndInv, ExchangeInv
<1>4. CallInv' /\ BufferIsResponse' /\ RequestSaysCommand'
  BY <1>1, CallFrame, BufferFrame, RequestFrame DEF IndInv, ExchangeInv, Working
<1>5. TransferInv'
  BY <1>1 DEF IndInv, ExchangeInv, TransferInv, Working, parsing
<1> QED BY <1>2, <1>3, <1>4, <1>5 DEF IndInv, ExchangeInv

LEMMA SplitAt ==
    ASSUME NEW A, NEW s \in Seq(A), NEW n \in 0..Len(s)
    PROVE  /\ SubSeq(s, 1, n) \in Seq(A) /\ Len(SubSeq(s, 1, n)) = n
           /\ SubSeq(s, n+1, Len(s)) \in Seq(A)
           /\ SubSeq(s, 1, n) \o SubSeq(s, n+1, Len(s)) = s
<1>1. Len(s) \in Nat /\ n \in Nat /\ n <= Len(s) /\ 1-1 = 0
  OBVIOUS
<1>2. SubSeq(s, 1, n) \in Seq(A) /\ Len(SubSeq(s, 1, n)) = n
  <2>1. \A i \in 1..n : s[i] \in A
    BY <1>1
  <2>2. n \in Int /\ n-1+1 = n /\ (1 <= n \/ n = 0)
    BY <1>1
  <2> QED BY <2>1, <2>2, SubSeqProperties
<1>3. SubSeq(s, n+1, Len(s)) \in Seq(A)
  <2>1. \A i \in n+1..Len(s) : s[i] \in A
    BY <1>1
  <2> QED BY <1>1, <2>1, SubSeqProperties
<1>4. SubSeq(s, 1, n) \o SubSeq(s, n+1, Len(s)) = SubSeq(s, 1, Len(s))
  <2>1. 1 \in 1 .. Len(s)+1 /\ n \in 1-1 .. Len(s) /\ Len(s) \in n .. Len(s)
    BY <1>1
  <2> QED BY <2>1, ConcatAdjacentSubSeq
<1>5. SubSeq(s, 1, Len(s)) = s
  BY SubSeqFull
<1> QED BY <1>2, <1>3, <1>4, <1>5

LEMMA Associative == ASSUME NEW A PROVE \A s, t, u \in Seq(A) : (s \o t) \o u = s \o (t \o u)
BY ConcatAssociative

LEMMA ReceiveInv == ASSUME IndInv, NEW n \in Nat \ {0}, Receive(n) PROVE IndInv'
<1>1. Types /\ CallInv /\ TransferInv /\ BufferIsResponse /\ RequestSaysCommand /\ ToldInv /\ UrlIsCurrent
  BY DEF IndInv, ExchangeInv
<1>2. /\ pc = "perform" /\ transfer = "running" /\ n <= Len(incoming)
      /\ UNCHANGED <<options, command, get_body_only, request, parsing, pc, ret, call, response,
                     reported, sent>>
  BY DEF Receive
<1>3. Working /\ pc' = "perform"
  BY <1>2 DEF Working
<1>4. /\ incoming \in Seq(Pieces) /\ buffer \in [size : Nat, where : Nat, text : Seq(Pieces)]
      /\ at = 1 /\ reported = <<>> /\ at \in 1..Len(buffer.text)+1
      /\ buffer.where \in 0..buffer.size
  BY <1>1, <1>2, <1>3 DEF Types, TypeOK, TransferInv
<1>5. Len(incoming) \in Nat /\ incoming # <<>> /\ Len(buffer.text) \in Nat
  <2>1. Len(incoming) \in Nat /\ Len(buffer.text) \in Nat
    BY <1>4
  <2>2. Len(incoming) # 0
    BY <1>2, <2>1
  <2> QED BY <2>1, <2>2
<1>6. call.command # "CREATE_MESSAGE"
  BY <1>1, <1>3, <1>5 DEF TransferInv
<1>7. UrlIsCurrent' /\ CallInv' /\ RequestSaysCommand' /\ ToldInv' /\ DoneInv'
  BY <1>1, <1>2, <1>3, UrlFrame, CallFrame, RequestFrame, ToldFrame, DoneFrame
<1>8. CASE /\ Write(SubSeq(incoming, 1, n))
           /\ incoming' = SubSeq(incoming, n + 1, Len(incoming))
           /\ UNCHANGED transfer
  <2> DEFINE chunk == SubSeq(incoming, 1, n)
             T == buffer.text
             grown == T \o chunk
  <2>1. /\ buffer.text \o incoming = response
        /\ buffer.size = Len(buffer.text) /\ buffer.where = buffer.size
    BY <1>1, <1>2, <1>6 DEF BufferIsResponse
  <2>2. /\ Len(chunk) = n
        /\ grown \in Seq(Pieces) /\ Len(grown) = Len(buffer.text) + n
        /\ incoming' \in Seq(Pieces)
        /\ grown \o incoming' = buffer.text \o incoming
    <3>1. n \in 0..Len(incoming)
      BY <1>2, <1>5
    <3>2. T \in Seq(Pieces) /\ incoming \in Seq(Pieces)
      BY <1>4
    <3>3. chunk = SubSeq(incoming, 1, n) /\ incoming' = SubSeq(incoming, n+1, Len(incoming))
      BY <1>8
    <3> HIDE DEF T, chunk
    <3>4. /\ chunk \in Seq(Pieces) /\ Len(chunk) = n
          /\ incoming' \in Seq(Pieces) /\ chunk \o incoming' = incoming
      BY <3>1, <3>2, <3>3, SplitAt
    <3>5. T \o chunk \in Seq(Pieces) /\ Len(T \o chunk) = Len(T) + n
      BY <3>2, <3>4, ConcatProperties
    <3>6. (T \o chunk) \o incoming' = T \o (chunk \o incoming')
      <4>1. T \in Seq(Pieces)
        BY <3>2
      <4>2. chunk \in Seq(Pieces)
        BY <3>4
      <4>3. incoming' \in Seq(Pieces)
        BY <3>4
      <4> QED BY <4>1, <4>2, <4>3, Associative, SMTT(60)
    <3>7. (T \o chunk) \o incoming' = T \o incoming
      BY <3>4, <3>6
    <3> QED BY <3>4, <3>5, <3>7 DEF T
  <2>3. buffer' = [size |-> Len(buffer.text) + n, where |-> Len(buffer.text) + n, text |-> grown]
    <3>1. (IF buffer.size = 0 THEN 0 ELSE buffer.where) = Len(buffer.text)
      BY <2>1
    <3>2. chunk = SubSeq(incoming, 1, n)
      OBVIOUS
    <3>3. T \in Seq(Pieces)
      BY <1>4
    <3> HIDE DEF T
    <3>4. SubSeq(T, 1, Len(T)) = T
      BY <3>3, SubSeqFull
    <3> HIDE DEF chunk
    <3>5. buffer' = [size |-> buffer.size + Len(chunk), where |-> Len(buffer.text) + Len(chunk),
                     text |-> SubSeq(buffer.text, 1, Len(buffer.text)) \o chunk]
      BY <1>8, <3>1, <3>2 DEF Write
    <3> QED BY <2>1, <2>2, <3>4, <3>5 DEF T
  <2> HIDE DEF T, chunk, grown
  <2>4. buffer' \in [size : Nat, where : Nat, text : Seq(Pieces)]
    BY <1>5, <2>2, <2>3
  <2>5. /\ buffer'.size = Len(buffer'.text) /\ buffer'.where = buffer'.size
        /\ buffer'.text \o incoming' = response
        /\ Len(buffer'.text) \in Nat
    <3>1. buffer'.size = Len(buffer.text) + n /\ buffer'.where = Len(buffer.text) + n
      BY <2>3
    <3>2. buffer'.text = grown
      BY <2>3
    <3>3. grown \o incoming' = response
      BY <2>1, <2>2, Zenon
    <3>4. Len(grown) \in Nat /\ Len(grown) = Len(buffer.text) + n
      BY <1>5, <2>2
    <3> QED BY <3>1, <3>2, <3>3, <3>4
  <2>6. Types'
    <3>1. at' \in 1..Len(buffer'.text)+1 /\ buffer'.size \in Nat /\ buffer'.where \in 0..buffer'.size
      BY <1>2, <1>4, <2>5 DEF parsing
    <3> QED BY <1>1, <1>2, <1>8, <2>2, <2>4, <3>1 DEF Types, TypeOK, options, parsing
  <2>7. BufferIsResponse'
    BY <1>2, <2>5 DEF BufferIsResponse
  <2>8. TransferInv'
    BY <1>2, <1>3, <1>4, <1>6, <1>8 DEF TransferInv, parsing
  <2> QED BY <1>7, <2>6, <2>7, <2>8 DEF IndInv, ExchangeInv
<1>9. CASE /\ buffer' = [buffer EXCEPT !.size = IF @ = 0 THEN n ELSE @]
           /\ transfer' = "failed"
           /\ UNCHANGED incoming
  <2>1. /\ buffer' \in [size : Nat, where : Nat, text : Seq(Pieces)]
        /\ buffer'.text = buffer.text /\ buffer'.size \in Nat /\ buffer'.where \in 0..buffer'.size
    BY <1>4, <1>9
  <2>2. Types'
    BY <1>1, <1>2, <1>4, <1>9, <2>1 DEF Types, TypeOK, options, parsing
  <2>3. BufferIsResponse'
    BY <1>9 DEF BufferIsResponse
  <2>4. TransferInv'
    BY <1>2, <1>3, <1>4, <1>6, <1>9 DEF TransferInv, parsing
  <2> QED BY <1>7, <2>2, <2>3, <2>4 DEF IndInv, ExchangeInv
<1> QED BY <1>8, <1>9 DEF Receive

LEMMA SendInv == ASSUME IndInv, NEW n \in Nat \ {0}, Send(n) PROVE IndInv'
<1>1. Types /\ CallInv /\ TransferInv /\ BufferIsResponse /\ RequestSaysCommand /\ ToldInv /\ UrlIsCurrent
  BY DEF IndInv, ExchangeInv
<1>2. /\ pc = "perform" /\ transfer = "running" /\ call.command = "CREATE_MESSAGE"
      /\ n <= buffer.size - buffer.where
      /\ sent' = sent \o Chunk(n)
      /\ buffer' = [buffer EXCEPT !.where = @ + n]
      /\ UNCHANGED <<options, command, get_body_only, request, transfer, incoming, parsing, pc, ret,
                     call, response, reported>>
  BY DEF Send
<1>3. Working /\ pc' = "perform"
  BY <1>2 DEF Working
<1>4. /\ buffer \in [size : Nat, where : Nat, text : Seq(Pieces)]
      /\ at = 1 /\ reported = <<>> /\ at \in 1..Len(buffer.text)+1
      /\ buffer.where \in 0..buffer.size
      /\ buffer.text = Body /\ buffer.size = Len(Body)
      /\ sent = SubSeq(Body, 1, buffer.where)
      /\ incoming = <<>>
  BY <1>1, <1>2, <1>3 DEF Types, TypeOK, TransferInv
<1>5. Body \in Seq(Pieces)
  BY <1>4
<1>6. UrlIsCurrent' /\ CallInv' /\ RequestSaysCommand' /\ ToldInv' /\ DoneInv'
  BY <1>1, <1>2, <1>3, UrlFrame, CallFrame, RequestFrame, ToldFrame, DoneFrame
<1>7. /\ buffer' \in [size : Nat, where : Nat, text : Seq(Pieces)]
      /\ buffer'.text = Body /\ buffer'.size = Len(Body) /\ buffer'.where = buffer.where + n
      /\ buffer'.where \in 0..Len(Body)
  <2>1. buffer.size \in Nat /\ buffer.where \in Nat /\ Len(Body) \in Nat
    BY <1>4, <1>5
  <2>2. buffer.where + n \in 0..Len(Body)
    BY <1>2, <1>4, <2>1
  <2>3. /\ buffer'.text = buffer.text /\ buffer'.size = buffer.size
        /\ buffer'.where = buffer.where + n
    BY <1>2, <1>4
  <2>4. buffer.where + n \in Nat
    BY <2>1
  <2>5. buffer' \in [size : Nat, where : Nat, text : Seq(Pieces)]
    BY <1>2, <1>4, <2>4
  <2> QED BY <1>4, <2>2, <2>3, <2>5
<1>8. sent' = SubSeq(Body, 1, buffer'.where) /\ sent' \in Seq(Pieces)
  <2> DEFINE w == buffer.where
  <2>1. sent' = SubSeq(Body, 1, w) \o SubSeq(Body, w + 1, w + n)
    BY <1>2, <1>4 DEF Chunk
  <2>2. w \in Nat /\ w + n \in 0..Len(Body) /\ Len(Body) \in Nat
    BY <1>4, <1>5, <1>7
  <2> HIDE DEF w
  <2>3. 1 \in 1 .. Len(Body)+1 /\ w \in 1-1 .. Len(Body) /\ w + n \in w .. Len(Body)
    BY <2>2
  <2>4. sent' = SubSeq(Body, 1, w + n)
    BY <1>5, <2>1, <2>3, ConcatAdjacentSubSeq
  <2>5. SubSeq(Body, 1, w + n) \in Seq(Pieces)
    BY <1>5, <2>2, SplitAt
  <2> QED BY <1>7, <2>4, <2>5 DEF w
<1>9. Types'
  <2>1. at' \in 1..Len(buffer'.text)+1 /\ buffer'.size \in Nat /\ buffer'.where \in 0..buffer'.size
    BY <1>2, <1>4, <1>7 DEF parsing
  <2> QED BY <1>1, <1>2, <1>7, <1>8, <2>1 DEF Types, TypeOK, options, parsing
<1>10. BufferIsResponse'
  BY <1>2 DEF BufferIsResponse
<1>11. TransferInv'
  BY <1>2, <1>3, <1>4, <1>7, <1>8 DEF TransferInv, parsing
<1> QED BY <1>6, <1>9, <1>10, <1>11 DEF IndInv, ExchangeInv

-----------------------------------------------------------------------------
(* The command functions *)

(* Nothing has been told of when a command function is done. *)
LEMMA NothingToldYet ==
    ASSUME response' \in Answers, reported' = <<>>, pc' # "parse"
    PROVE  ToldInv'
<1>1. (response \in Answers)' => (SubSeq(Expected, 1, 0) = <<>> /\ 0 \in 0..Len(Expected))'
  BY NothingTold, PTL
<1>2. 0 \in 0..Len(Expected') /\ reported' = SubSeq(Expected', 1, 0)
  BY <1>1, Zenon
<1> QED BY <1>2 DEF ToldInv

LEMMA SetupFailsInv ==
    ASSUME ExchangeInv, NEW c \in Calls, Called(c), UNCHANGED options, get_body_only' \in BOOLEAN,
           NEW r \in {"ENOMEM", "garbage"}, SetupFails(r)
    PROVE  IndInv'
<1>1. Types /\ UrlIsCurrent
  BY DEF IndInv, ExchangeInv
<1>2. /\ call' = c /\ command' = c.command /\ reported' = <<>> /\ sent' = <<>>
      /\ pc' = "idle" /\ ret' = r
      /\ UNCHANGED <<options, request, transfer, incoming, response, buffer, parsing>>
  BY DEF Called, SetupFails, Return
<1>3. c.command \in AllCommands
  BY ConstantsAssumption
<1>4. <<>> \in Seq(Pieces)
  OBVIOUS
<1>5. Types'
  BY <1>1, <1>2, <1>3, <1>4 DEF Types, TypeOK, options, parsing
<1>6. UrlIsCurrent' /\ DoneInv'
  BY <1>1, <1>2, UrlFrame, DoneFrame
<1>7. CallInv' /\ TransferInv' /\ BufferIsResponse' /\ RequestSaysCommand'
  BY <1>2, NotWorking
<1>8. ToldInv'
  BY <1>2, <1>5, NothingToldYet DEF Types
<1> QED BY <1>5, <1>6, <1>7, <1>8 DEF IndInv, ExchangeInv

(* The body to be sent, or room for the response. *)
StartBuffer(c, b, answers) ==
    \/ c.command # "CREATE_MESSAGE" /\ b = NewBuffer /\ answers = Responses
    \/ /\ c.command = "CREATE_MESSAGE" /\ answers = {<<>>}
       /\ b = [size |-> Len(Body), where |-> 0, text |-> Body]

LEMMA StartTransferInv ==
    ASSUME ExchangeInv, NEW c \in Calls, Called(c), UNCHANGED options, get_body_only' \in BOOLEAN,
           c.command # "CREATE_MESSAGE" =>
              get_body_only' = (c.command \in MessageCommands /\ c.body_only),
           NEW method \in {"GET", "POST", "PUT", "DELETE"}, NEW path, NEW query, NEW b, NEW answers,
           StartTransfer([method |-> method, path |-> path, query |-> query], b, answers),
           Understood[method][Len(path) + 1] = c.command, Carries(query, c),
           StartBuffer(c, b, answers)
    PROVE  IndInv'
<1>1. Types /\ UrlIsCurrent
  BY DEF IndInv, ExchangeInv
<1>2. /\ call' = c /\ command' = c.command /\ reported' = <<>> /\ sent' = <<>>
      /\ pc' = "perform" /\ at' = 1 /\ buffer' = b
      /\ response' \in answers /\ incoming' = response'
      /\ transfer' \in {"failed", "running"}
      /\ request' = [method |-> method, path |-> path, query |-> query]
      /\ UNCHANGED <<options, ret, jproc>>
  BY DEF Called, StartTransfer
<1>3. c.command \in AllCommands /\ Working'
  BY <1>2, ConstantsAssumption DEF Working
<1>4. <<>> \in Seq(Pieces) /\ Len(<<>>) = 0
  OBVIOUS
<1>5. Body \in Seq(Pieces) /\ Len(Body) \in Nat
  <2>1. Body \in Seq(Elements(Body)) /\ Elements(Body) \subseteq Pieces
    BY ConstantsAssumption DEF Pieces
  <2>2. Body \in Seq(Pieces)
    BY <2>1, SeqMonotonic
  <2> QED BY <2>2
<1>6. response' \in Answers /\ response' \in Seq(Pieces)
  <2>1. response' \in Answers
    BY <1>2 DEF StartBuffer, Answers
  <2>2. response' \in Seq(Tokens)
    <3>1. (response \in Answers)' => (response \in Seq(Tokens))'
      BY ResponseTokens, Zenon
    <3> QED BY <2>1, <3>1
  <2>3. Tokens \subseteq Pieces
    BY DEF Pieces
  <2> QED BY <2>1, <2>2, <2>3, SeqMonotonic
<1>7. /\ buffer' \in [size : Nat, where : Nat, text : Seq(Pieces)]
      /\ buffer'.size \in Nat /\ buffer'.where \in 0..buffer'.size
      /\ 1 \in 1..Len(buffer'.text)+1
  <2>1. CASE b = NewBuffer
    BY <1>2, <1>4, <2>1 DEF NewBuffer
  <2>2. CASE b = [size |-> Len(Body), where |-> 0, text |-> Body]
    BY <1>2, <1>5, <2>2
  <2> QED BY <2>1, <2>2 DEF StartBuffer
<1>8. Types'
  BY <1>1, <1>2, <1>3, <1>4, <1>6, <1>7 DEF Types, TypeOK, options
<1>9. UrlIsCurrent' /\ DoneInv' /\ ToldInv'
  BY <1>1, <1>2, <1>6, UrlFrame, DoneFrame, NothingToldYet
<1>10. CallInv'
  BY <1>2, <1>3 DEF CallInv
<1>11. BufferIsResponse' /\ TransferInv'
  <2>1. CASE c.command # "CREATE_MESSAGE" /\ b = NewBuffer
    <3>1. buffer'.text = <<>> /\ buffer'.size = 0 /\ buffer'.where = 0 /\ Len(<<>>) = 0
      BY <1>2, <2>1 DEF NewBuffer
    <3>2. <<>> \o response' = response'
      BY <1>6, ConcatEmptySeq
    <3>3. BufferIsResponse'
      BY <1>2, <3>1, <3>2 DEF BufferIsResponse
    <3>4. TransferInv'
      BY <1>2, <2>1, <3>1 DEF TransferInv
    <3> QED BY <3>3, <3>4
  <2>2. CASE /\ c.command = "CREATE_MESSAGE" /\ answers = {<<>>}
             /\ b = [size |-> Len(Body), where |-> 0, text |-> Body]
    <3>1. buffer'.text = Body /\ buffer'.size = Len(Body) /\ buffer'.where = 0
      BY <1>2, <2>2
    <3>2. SubSeq(Body, 1, 0) = <<>>
      BY SubSeqEmpty
    <3>3. BufferIsResponse'
      BY <1>2, <2>2 DEF BufferIsResponse
    <3>4. TransferInv'
      BY <1>2, <2>2, <3>1, <3>2 DEF TransferInv
    <3> QED BY <3>3, <3>4
  <2> QED BY <2>1, <2>2 DEF StartBuffer
<1>12. RequestSaysCommand'
  <2>1. request'.method = method /\ request'.path = path /\ request'.query = query
    BY <1>2
  <2>2. WellSeparated(<<>>)
    BY QueriesRead DEF Reads
  <2> QED BY <1>2, <2>1, <2>2 DEF RequestSaysCommand, Carries, Reads
<1> QED BY <1>8, <1>9, <1>10, <1>11, <1>12 DEF IndInv, ExchangeInv

(* What the server makes of the method and the number of names. *)
LEMMA UnderstoodIs ==
    /\ Understood["GET"][1] = "GET_ACCOUNTS" /\ Understood["GET"][2] = "GET_QUEUES"
    /\ Understood["GET"][3] = "GET_MESSAGES" /\ Understood["GET"][4] = "GET_MESSAGE"
    /\ Understood["DELETE"][1] = "DELETE_ACCOUNTS" /\ Understood["DELETE"][2] = "DELETE_QUEUES"
    /\ Understood["DELETE"][3] = "DELETE_MESSAGES" /\ Understood["DELETE"][4] = "DELETE_MESSAGE"
    /\ Understood["POST"][3] = "UPDATE_MESSAGES" /\ Understood["POST"][4] = "UPDATE_MESSAGE"
    /\ Understood["PUT"][4] = "CREATE_MESSAGE"
    /\ Len(<<>>) + 1 = 1 /\ Len(<<"account">>) + 1 = 2 /\ Len(<<"account", "queue">>) + 1 = 3
    /\ Len(<<"account", "queue", "message_id">>) + 1 = 4
    /\ Len(Append(<<"account", "queue">>, "message_id")) + 1 = 4
<1>1. /\ Understood["GET"] = <<"GET_ACCOUNTS", "GET_QUEUES", "GET_MESSAGES", "GET_MESSAGE">>
      /\ Understood["DELETE"] =
            <<"DELETE_ACCOUNTS", "DELETE_QUEUES", "DELETE_MESSAGES", "DELETE_MESSAGE">>
      /\ Understood["POST"] = <<NULL, NULL, "UPDATE_MESSAGES", "UPDATE_MESSAGE">>
      /\ Understood["PUT"] = <<NULL, NULL, NULL, "CREATE_MESSAGE">>
  BY DEF Understood
<1>2. Understood["GET"][1] = "GET_ACCOUNTS" /\ Understood["GET"][2] = "GET_QUEUES"
  BY <1>1
<1>3. Understood["GET"][3] = "GET_MESSAGES" /\ Understood["GET"][4] = "GET_MESSAGE"
  BY <1>1
<1>4. Understood["DELETE"][1] = "DELETE_ACCOUNTS" /\ Understood["DELETE"][2] = "DELETE_QUEUES"
  BY <1>1
<1>5. Understood["DELETE"][3] = "DELETE_MESSAGES" /\ Understood["DELETE"][4] = "DELETE_MESSAGE"
  BY <1>1
<1>6. Understood["POST"][3] = "UPDATE_MESSAGES" /\ Understood["POST"][4] = "UPDATE_MESSAGE"
  BY <1>1
<1>7. Understood["PUT"][4] = "CREATE_MESSAGE"
  BY <1>1
<1>8. /\ Len(<<>>) + 1 = 1 /\ Len(<<"account">>) + 1 = 2 /\ Len(<<"account", "queue">>) + 1 = 3
      /\ Len(<<"account", "queue", "message_id">>) + 1 = 4
  OBVIOUS
<1>9. Len(Append(<<"account", "queue">>, "message_id")) + 1 = 4
  <2> DEFINE names == {"account", "queue", "message_id"}
             two == <<"account", "queue">>
  <2>1. two \in Seq(names) /\ Len(two) = 2 /\ "message_id" \in names
    OBVIOUS
  <2>2. ASSUME NEW x, x = "message_id" PROVE Len(Append(two, x)) = Len(two) + 1
    <3> HIDE DEF names, two
    <3>1. two \in Seq(names) /\ x \in names
      BY <2>1, <2>2
    <3> QED BY <3>1, AppendProperties
  <2> HIDE DEF names, two
  <2>3. Len(Append(two, "message_id")) + 1 = 4
    BY <2>1, <2>2
  <2> QED BY <2>3 DEF two
<1> QED BY <1>2, <1>3, <1>4, <1>5, <1>6, <1>7, <1>8, <1>9

LEMMA GettingInv == ASSUME ExchangeInv, NEW c \in Calls, common_getting(c) PROVE IndInv'
<1> DEFINE queue == <<"account", "queue">>
           path == IF c.command \in OneMessage THEN Append(queue, "message_id") ELSE queue
           method == CASE c.command \in {"GET_MESSAGES", "GET_MESSAGE"} -> "GET"
                       [] c.command \in Updates -> "POST"
                       [] c.command \in {"DELETE_MESSAGES", "DELETE_MESSAGE"} -> "DELETE"
           query == IF c.command \in Updates THEN UpdateQuery(c)
                                             ELSE After("?", filters_to_string(c))
<1>1. /\ c.command \in MessageCommands /\ Called(c) /\ get_body_only' = c.body_only
      /\ Request(method, path, query, NewBuffer, Responses)
      /\ UNCHANGED options
  BY DEF common_getting
<1>2. c.body_only \in BOOLEAN
  BY ConstantsAssumption
<1>3. c.command \in {"GET_MESSAGES", "GET_MESSAGE", "DELETE_MESSAGES", "DELETE_MESSAGE",
                     "UPDATE_MESSAGES", "UPDATE_MESSAGE"}
  BY <1>1 DEF MessageCommands
<1>4. /\ method \in {"GET", "POST", "PUT", "DELETE"}
      /\ Understood[method][Len(path) + 1] = c.command
  <2>1. Len(path) + 1 = IF c.command \in OneMessage THEN 4 ELSE 3
    BY UnderstoodIs
  <2> HIDE DEF path
  <2>2. CASE c.command \in {"GET_MESSAGES", "GET_MESSAGE"}
    <3>1. method = "GET"
      BY <2>2 DEF Updates
    <3> QED BY <2>1, <2>2, <3>1, UnderstoodIs DEF OneMessage
  <2>3. CASE c.command \in {"DELETE_MESSAGES", "DELETE_MESSAGE"}
    <3>1. method = "DELETE"
      BY <2>3 DEF Updates
    <3> QED BY <2>1, <2>3, <3>1, UnderstoodIs DEF OneMessage
  <2>4. CASE c.command \in {"UPDATE_MESSAGES", "UPDATE_MESSAGE"}
    <3>1. method = "POST"
      BY <2>4 DEF Updates
    <3> QED BY <2>1, <2>4, <3>1, UnderstoodIs DEF OneMessage
  <2> QED BY <1>3, <2>2, <2>3, <2>4
<1>5. Carries(query, c)
  <2>1. CASE c.command \in Updates
    <3>1. Given(c) = c.filters \cup c.attributes
      BY <2>1 DEF Given, Updates
    <3> QED BY <1>3, <2>1, <3>1, QueriesRead DEF Carries, ListCommands
  <2>2. CASE c.command \notin Updates
    <3>1. Given(c) = c.filters
      BY <1>3, <2>2 DEF Given
    <3> QED BY <1>3, <2>2, <3>1, QueriesRead DEF Carries, ListCommands
  <2> QED BY <2>1, <2>2
<1>6. c.command # "CREATE_MESSAGE"
  BY <1>3
<1> HIDE DEF method, path, query
<1>7. StartBuffer(c, NewBuffer, Responses)
  BY <1>6 DEF StartBuffer
<1>8. get_body_only' \in BOOLEAN /\ get_body_only' = (c.command \in MessageCommands /\ c.body_only)
  BY <1>1, <1>2
<1>9. CASE StartTransfer([method |-> method, path |-> path, query |-> query], NewBuffer, Responses)
  BY <1>1, <1>4, <1>5, <1>7, <1>8, <1>9, StartTransferInv
<1>10. CASE SetupFails("ENOMEM")
  BY <1>1, <1>8, <1>10, SetupFailsInv
<1> QED BY <1>1, <1>9, <1>10 DEF Request

LEMMA GetlistsInv == ASSUME ExchangeInv, NEW c \in Calls, common_getlists(c) PROVE IndInv'
<1> DEFINE path == IF c.command = "GET_QUEUES" THEN <<"account">> ELSE <<>>
           query == <<>>
<1>1. /\ c.command \in {"GET_ACCOUNTS", "GET_QUEUES"} /\ Called(c) /\ get_body_only' = FALSE
      /\ Request("GET", path, query, NewBuffer, Responses)
      /\ UNCHANGED options
  BY DEF common_getlists, ListCommands
<1>2. Understood["GET"][Len(path) + 1] = c.command
  BY <1>1, UnderstoodIs
<1>3. Carries(query, c)
  BY <1>1 DEF Carries, ListCommands
<1>4. c.command # "CREATE_MESSAGE" /\ c.command \notin MessageCommands
  BY <1>1 DEF MessageCommands
<1> HIDE DEF path, query
<1>5. StartBuffer(c, NewBuffer, Responses)
  BY <1>4 DEF StartBuffer
<1>6. get_body_only' \in BOOLEAN /\ get_body_only' = (c.command \in MessageCommands /\ c.body_only)
  BY <1>1, <1>4
<1>7. CASE StartTransfer([method |-> "GET", path |-> path, query |-> query], NewBuffer, Responses)
  BY <1>1, <1>2, <1>3, <1>5, <1>6, <1>7, StartTransferInv
<1>8. CASE SetupFails("ENOMEM")
  BY <1>1, <1>6, <1>8, SetupFailsInv
<1> QED BY <1>1, <1>7, <1>8 DEF Request

LEMMA DeleteInv == ASSUME ExchangeInv, NEW c \in Calls, common_delete(c) PROVE IndInv'
<1> DEFINE path == IF c.command = "DELETE_QUEUES" THEN <<"account">> ELSE <<>>
           query == After("?", filters_to_string(c))
<1>1. /\ c.command \in {"DELETE_ACCOUNTS", "DELETE_QUEUES"} /\ Called(c) /\ get_body_only' = FALSE
      /\ Request("DELETE", path, query, NewBuffer, Responses)
      /\ UNCHANGED options
  BY DEF common_delete, DeleteCommands
<1>2. Understood["DELETE"][Len(path) + 1] = c.command
  BY <1>1, UnderstoodIs
<1>3. Carries(query, c)
  <2>1. Given(c) = c.filters
    BY <1>1 DEF Given, Updates
  <2> QED BY <1>1, <2>1, QueriesRead DEF Carries, ListCommands
<1>4. c.command # "CREATE_MESSAGE" /\ c.command \notin MessageCommands
  BY <1>1 DEF MessageCommands
<1> HIDE DEF path, query
<1>5. StartBuffer(c, NewBuffer, Responses)
  BY <1>4 DEF StartBuffer
<1>6. get_body_only' \in BOOLEAN /\ get_body_only' = (c.command \in MessageCommands /\ c.body_only)
  BY <1>1, <1>4
<1>7. CASE StartTransfer([method |-> "DELETE", path |-> path, query |-> query], NewBuffer, Responses)
  BY <1>1, <1>2, <1>3, <1>5, <1>6, <1>7, StartTransferInv
<1>8. CASE SetupFails("ENOMEM")
  BY <1>1, <1>6, <1>8, SetupFailsInv
<1> QED BY <1>1, <1>7, <1>8 DEF Request

LEMMA CreateInv == ASSUME ExchangeInv, NEW c \in Calls, create_message(c) PROVE IndInv'
<1> DEFINE path == <<"account", "queue", "message_id">>
           query == After("?", attributes_to_string(c))
           body == [size |-> Len(Body), where |-> 0, text |-> Body]
<1>1. /\ c.command = "CREATE_MESSAGE" /\ Called(c)
      /\ Request("PUT", path, query, body, {<<>>}) \/ SetupFails("garbage")
      /\ UNCHANGED <<options, get_body_only>>
  BY DEF create_message
<1>2. Understood["PUT"][Len(path) + 1] = c.command
  BY <1>1, UnderstoodIs
<1>3. Carries(query, c)
  <2>1. Given(c) = c.attributes
    BY <1>1 DEF Given
  <2> QED BY <1>1, <2>1, QueriesRead DEF Carries, ListCommands
<1>4. StartBuffer(c, body, {<<>>})
  BY <1>1 DEF StartBuffer
<1>5. get_body_only' \in BOOLEAN
  BY <1>1 DEF IndInv, ExchangeInv, Types, TypeOK
<1> HIDE DEF path, query, body
<1>6. CASE StartTransfer([method |-> "PUT", path |-> path, query |-> query], body, {<<>>})
  BY <1>1, <1>2, <1>3, <1>4, <1>5, <1>6, StartTransferInv
<1>7. CASE SetupFails("ENOMEM") \/ SetupFails("garbage")
  BY <1>1, <1>5, <1>7, SetupFailsInv
<1> QED BY <1>1, <1>6, <1>7 DEF Request

-----------------------------------------------------------------------------
(* process, with a response *)

(* All of the response is in the buffer. *)
LEMMA BufferComplete ==
    ASSUME IndInv, Working, transfer = "ok", call.command # "CREATE_MESSAGE"
    PROVE  buffer.text = response /\ buffer.size = Len(response)
<1>1. incoming = <<>> /\ buffer.text \o incoming = response /\ buffer.size = Len(buffer.text)
  BY DEF IndInv, ExchangeInv, TransferInv, BufferIsResponse, Working
<1>2. buffer.text \in Seq(Pieces)
  BY DEF IndInv, ExchangeInv, Types
<1>3. buffer.text \o <<>> = buffer.text
  BY <1>2, ConcatEmptySeq
<1> QED BY <1>1, <1>3

(* process returns 0. *)
LEMMA CompleteInv ==
    ASSUME Types, UrlIsCurrent, transfer = "ok", pc' = "idle", ret' = "0", command' \in {command, "NONE"},
           jproc' \in Jprocs, at' \in 1..Len(buffer.text)+1,
           UNCHANGED <<options, get_body_only, request, transfer, incoming, buffer, call, response, sent>>,
           \E n \in 0..Len(Expected) : reported' = SubSeq(Expected, 1, n),
           command' = call.command /\ command' # "NONE" =>
              reported' = Expected /\ (command' = "CREATE_MESSAGE" => sent = Body)
    PROVE  IndInv'
<1>1. Expected' = Expected
  BY ExpectedSame
<1>2. jproc'.is_key \in BOOLEAN
  BY DEF Jprocs
<1>3. Types'
  BY <1>2 DEF Types, TypeOK, options
<1>4. UrlIsCurrent'
  BY UrlFrame
<1>5. CallInv' /\ TransferInv' /\ BufferIsResponse' /\ RequestSaysCommand'
  BY NotWorking
<1>6. ToldInv'
  BY <1>1 DEF ToldInv
<1>7. DoneInv'
  BY <1>1 DEF DoneInv, CompleteMeansAll
<1> QED BY <1>3, <1>4, <1>5, <1>6, <1>7 DEF IndInv, ExchangeInv

LEMMA ProcessCompleteInv == ASSUME IndInv, ProcessComplete PROVE IndInv'
<1>1. /\ pc = "perform" /\ transfer = "ok"
      /\ UNCHANGED <<options, get_body_only, request, transfer, incoming, buffer, at,
                     call, response, sent>>
  BY DEF ProcessComplete
<1>2. Types /\ UrlIsCurrent /\ CallInv /\ TransferInv /\ BufferIsResponse /\ RequestSaysCommand /\ Working
  BY <1>1 DEF IndInv, ExchangeInv, Working
<1>3. /\ call \in Calls /\ command \in {call.command, "NONE"} /\ reported = <<>> /\ at = 1
      /\ call.command # "CREATE_MESSAGE" =>
            get_body_only = (call.command \in MessageCommands /\ call.body_only)
      /\ call.command = "CREATE_MESSAGE" => sent = Body
  <2>1. /\ call \in Calls /\ command \in {call.command, "NONE"} /\ reported = <<>> /\ at = 1
        /\ call.command # "CREATE_MESSAGE" =>
              get_body_only = (call.command \in MessageCommands /\ call.body_only)
    BY <1>1, <1>2 DEF CallInv, TransferInv
  <2>2. ASSUME call.command = "CREATE_MESSAGE" PROVE sent = Body
    <3>1. sent = SubSeq(Body, 1, Len(Body))
      BY <1>1, <1>2, <2>2 DEF TransferInv
    <3>2. Body \in Seq(Elements(Body))
      BY ConstantsAssumption
    <3> QED BY <3>1, <3>2, SubSeqFull
  <2> QED BY <2>1, <2>2
<1>4. /\ response \in Answers /\ jproc \in Jprocs /\ at \in 1..Len(buffer.text)+1
      /\ call.command \in AllCommands
  BY <1>2, <1>3, ConstantsAssumption DEF Types, TypeOK
<1>5. SubSeq(Expected, 1, 0) = <<>> /\ 0 \in 0..Len(Expected)
  BY <1>4, NothingTold
<1>6. CASE /\ command \in Looked /\ get_body_only
           /\ Tell([id |-> NULL, body |-> buffer.text, ttl |-> NULL, hide |-> NULL])
           /\ Return("0") /\ UNCHANGED jproc
  <2> DEFINE one == [id |-> NULL, body |-> buffer.text, ttl |-> NULL, hide |-> NULL]
  <2>1. command = call.command /\ call.command # "CREATE_MESSAGE"
    BY <1>3, <1>6, CommandsDiffer
  <2>2. call.command \in MessageCommands /\ call.body_only
    BY <1>3, <1>6, <2>1
  <2>3. Expected = <<one>>
    BY <1>1, <1>2, <1>4, <2>1, <2>2, BufferComplete, ExpectedIs
  <2> HIDE DEF one
  <2>4. /\ reported' = Append(<<>>, one) /\ command' \in {command, "NONE"}
        /\ pc' = "idle" /\ ret' = "0"
    BY <1>3, <1>6 DEF Tell, Return, one
  <2>5. reported' = Expected
    BY <2>3, <2>4
  <2>6. Len(Expected) \in 0..Len(Expected) /\ Expected = SubSeq(Expected, 1, Len(Expected))
    <3>1. Expected \in Seq(Elements(Expected)) /\ Len(Expected) \in Nat
      BY <1>4, ExpectedIs
    <3> QED BY <3>1, SubSeqFull
  <2>7. \E n \in 0..Len(Expected) : reported' = SubSeq(Expected, 1, n)
    BY <2>5, <2>6
  <2>8. jproc' \in Jprocs /\ at' \in 1..Len(buffer.text)+1
    BY <1>1, <1>4, <1>6
  <2>9. ~ (command' = "CREATE_MESSAGE")
    BY <2>1, <2>4
  <2> QED BY <1>1, <1>2, <2>4, <2>5, <2>7, <2>8, <2>9, CompleteInv
<1>7. CASE /\ command \in Looked /\ ~get_body_only /\ pc' = "parse"
           /\ jproc' = NewJproc /\ UNCHANGED <<told, ret>>
  <2>1. command = call.command /\ call.command # "CREATE_MESSAGE" /\ call.command \in Looked
    BY <1>3, <1>7, CommandsDiffer
  <2>2. NewJproc \in Jprocs
    BY DEF NewJproc, Jprocs, Values
  <2>3. jproc'.is_key \in BOOLEAN
    BY <1>7, <2>2 DEF Jprocs
  <2>4. Types'
    BY <1>1, <1>2, <1>7, <2>2, <2>3 DEF Types, TypeOK, options, told
  <2>5. UrlIsCurrent' /\ CallInv' /\ BufferIsResponse' /\ RequestSaysCommand' /\ DoneInv'
    BY <1>1, <1>2, <1>7, UrlFrame, CallFrame, BufferFrame, RequestFrame, DoneFrame DEF told
  <2>6. TransferInv'
    BY <1>1, <1>2, <1>7, <2>1 DEF TransferInv, told
  <2>7. ToldInv'
    <3>1. Expected' = Expected /\ Reports' = Reports
      BY <1>1, ExpectedSame
    <3>2. FieldsRead(response, 1, NewJproc)
      <4>1. ~InObject(response, 1)
        BY DEF InObject
      <4>2. (\A name \in Fields : NewJproc[name] = NULL) /\ ~NewJproc.is_key
        BY DEF NewJproc, Fields
      <4> QED BY <4>1, <4>2 DEF FieldsRead, Between
    <3>3. Len(Reports) \in Nat /\ \A k \in 1..Len(Reports) : ~ (k <= 0) /\ ~ (Reports[k] < 1)
      BY <1>4, ReportsAre
    <3>4. 0 \in 0..Len(Reports) /\ \A k \in 1..Len(Reports) : k <= 0 <=> Reports[k] < 1
      BY <3>3
    <3>5. at' = 1 /\ jproc' = NewJproc /\ response' = response /\ reported' = SubSeq(Expected, 1, 0)
      BY <1>1, <1>3, <1>5, <1>7 DEF told
    <3>6. \E n \in 0..Len(Reports) :
             /\ reported' = SubSeq(Expected, 1, n)
             /\ \A k \in 1..Len(Reports) : k <= n <=> Reports[k] < 1
      BY <3>4, <3>5
    <3>7. ParseInv'
      BY <3>1, <3>2, <3>5, <3>6 DEF ParseInv
    <3>8. \E n \in 0..Len(Expected) : reported' = SubSeq(Expected, 1, n)
      BY <1>5, <3>5
    <3> QED BY <3>1, <3>7, <3>8 DEF ToldInv
  <2> QED BY <2>4, <2>5, <2>6, <2>7 DEF IndInv, ExchangeInv
<1>8. CASE /\ command \notin Looked \/ (~get_body_only /\ buffer.size = 0)
           /\ Return("0") /\ UNCHANGED <<told, jproc>>
  <2>1. /\ reported' = <<>> /\ command' = command /\ pc' = "idle" /\ ret' = "0" /\ jproc' = jproc
    BY <1>3, <1>8 DEF told, Return
  <2>2. ASSUME command = call.command, command # "NONE" PROVE Expected = <<>>
    <3>1. CASE call.command \notin Looked
      BY <1>4, <3>1, ExpectedIs
    <3>2. CASE call.command \in Looked
      <4>1. ~get_body_only /\ buffer.size = 0 /\ call.command # "CREATE_MESSAGE"
        BY <1>8, <2>2, <3>2, CommandsDiffer
      <4>2. Len(response) = 0
        BY <1>1, <1>2, <4>1, BufferComplete
      <4>3. Len(Reports) = 0
        <5>1. Len(Reports) \in Nat /\ \A k \in 1..Len(Reports) : Reports[k] \in 1..Len(response)
          BY <1>4, ReportsAre
        <5>2. Len(Reports) # 0 => 1 \in 1..Len(Reports)
          BY <5>1
        <5> QED BY <4>2, <5>1, <5>2
      <4>4. ~ (call.command \in MessageCommands /\ call.body_only)
        BY <1>3, <4>1
      <4>5. Len(Expected) = 0 /\ Expected \in Seq(Elements(Expected))
        BY <1>4, <3>2, <4>3, <4>4, ExpectedIs DEF Looked
      <4> QED BY <4>5
    <3> QED BY <3>1, <3>2
  <2>3. \E n \in 0..Len(Expected) : reported' = SubSeq(Expected, 1, n)
    BY <1>5, <2>1
  <2>4. command' = call.command /\ command' # "NONE" =>
           reported' = Expected /\ (command' = "CREATE_MESSAGE" => sent = Body)
    BY <1>3, <2>1, <2>2
  <2>5. jproc' \in Jprocs /\ at' \in 1..Len(buffer.text)+1 /\ command' \in {command, "NONE"}
    BY <1>1, <1>4, <2>1
  <2> QED BY <1>1, <1>2, <2>1, <2>3, <2>4, <2>5, CompleteInv
<1> QED BY <1>6, <1>7, <1>8 DEF ProcessComplete, Looked

-----------------------------------------------------------------------------
(* The parse *)

LEMMA Parsing ==
    ASSUME IndInv, pc = "parse"
    PROVE  /\ transfer = "ok" /\ call.command \in Looked /\ call.command # "CREATE_MESSAGE"
           /\ call \in Calls /\ command \in {call.command, "NONE"}
           /\ ~ (call.command \in MessageCommands /\ call.body_only)
           /\ buffer.text = response /\ response \in Answers
           /\ at \in 1..Len(response)+1 /\ Len(response) \in Nat
           /\ jproc \in Jprocs /\ Len(Expected) = Len(Reports)
           /\ command # "NONE" => ParseInv
           /\ \E n \in 0..Len(Expected) : reported = SubSeq(Expected, 1, n)
<1>1. Working
  BY DEF Working
<1>2. transfer = "ok" /\ ~get_body_only /\ call.command \in Looked
  BY <1>1 DEF IndInv, ExchangeInv, TransferInv
<1>3. call.command # "CREATE_MESSAGE"
  BY <1>2, CommandsDiffer
<1>4. /\ call \in Calls /\ command \in {call.command, "NONE"}
      /\ ~ (call.command \in MessageCommands /\ call.body_only)
  BY <1>1, <1>2, <1>3 DEF IndInv, ExchangeInv, CallInv
<1>5. buffer.text = response
  BY <1>1, <1>2, <1>3, BufferComplete
<1>6. response \in Answers /\ at \in 1..Len(response)+1 /\ jproc \in Jprocs
  BY <1>5 DEF IndInv, ExchangeInv, Types, TypeOK
<1>7. Len(response) \in Nat
  BY <1>6, ResponseTokens
<1>8. Len(Expected) = Len(Reports)
  BY <1>2, <1>4, <1>6, ExpectedIs DEF Looked
<1>9. /\ command # "NONE" => ParseInv
      /\ \E n \in 0..Len(Expected) : reported = SubSeq(Expected, 1, n)
  BY DEF IndInv, ExchangeInv, ToldInv
<1> QED BY <1>2, <1>3, <1>4, <1>5, <1>6, <1>7, <1>8, <1>9

(* A token that is accepted. *)
LEMMA AcceptInv ==
    ASSUME IndInv, pc = "parse", at <= Len(buffer.text), Accept, jproc' \in Jprocs,
           UNCHANGED <<options, get_body_only, request, transfer, incoming, buffer,
                       call, response, sent>>,
           command' \in {command, "NONE"},
           \E n \in 0..Len(Expected) : reported' = SubSeq(Expected, 1, n),
           command' # "NONE" => ParseInv'
    PROVE  IndInv'
<1>1. Types /\ UrlIsCurrent /\ CallInv /\ TransferInv /\ BufferIsResponse /\ RequestSaysCommand /\ Working
  BY DEF IndInv, ExchangeInv, Working
<1>2. at' = at + 1 /\ pc' = "parse" /\ ret' = ret
  BY DEF Accept
<1>3. at' \in 1..Len(buffer.text)+1 /\ jproc'.is_key \in BOOLEAN
  <2>1. Len(response) \in Nat /\ buffer.text = response /\ at \in 1..Len(response)+1
    BY Parsing
  <2> QED BY <1>2, <2>1 DEF Jprocs
<1>4. Types'
  BY <1>1, <1>2, <1>3 DEF Types, TypeOK, options
<1>5. UrlIsCurrent' /\ CallInv' /\ BufferIsResponse' /\ RequestSaysCommand' /\ DoneInv'
  <2>1. transfer # "failed"
    BY Parsing
  <2> QED BY <1>1, <1>2, <2>1, UrlFrame, CallFrame, BufferFrame, RequestFrame, DoneFrame
<1>6. TransferInv'
  BY <1>1, <1>2 DEF TransferInv
<1>7. ToldInv'
  <2>1. Expected' = Expected
    BY ExpectedSame
  <2> QED BY <2>1 DEF ToldInv
<1> QED BY <1>4, <1>5, <1>6, <1>7 DEF IndInv, ExchangeInv

(* A token nothing ends with. *)
LEMMA NoReport ==
    ASSUME IndInv, pc = "parse", at <= Len(response), at' = at + 1, UNCHANGED <<call, response>>,
           ParseInv, reported' = reported, response[at].type # Ending,
           call.command \in MessageCommands => FieldsRead(response, at + 1, jproc')
    PROVE  ParseInv'
<1>1. Expected' = Expected /\ Reports' = Reports
  BY ExpectedSame
<1>2. response \in Answers /\ at \in Nat
  BY Parsing
<1>3. PICK n \in 0..Len(Reports) : /\ reported = SubSeq(Expected, 1, n)
                                   /\ \A k \in 1..Len(Reports) : k <= n <=> Reports[k] < at
  BY DEF ParseInv
<1>4. \A k \in 1..Len(Reports) : Reports[k] # at
  BY <1>2, ReportsAre
<1>5. \A k \in 1..Len(Reports) : k <= n <=> Reports[k] < at + 1
  <2>1. Reports \in Seq(Nat) /\ \A k, l \in 1..Len(Reports) : k < l => Reports[k] < Reports[l]
    BY <1>2, ReportsAre
  <2> QED BY <1>2, <1>3, <1>4, <2>1, NextReport
<1>6. \E m \in 0..Len(Reports) :
         /\ reported' = SubSeq(Expected, 1, m)
         /\ \A k \in 1..Len(Reports) : k <= m <=> Reports[k] < at + 1
  BY <1>3, <1>5
<1> QED BY <1>1, <1>6 DEF ParseInv

(* One more thing is told of, with the token it ends with. *)
LEMMA OneReport ==
    ASSUME IndInv, pc = "parse", at <= Len(response), at' = at + 1, UNCHANGED <<call, response>>,
           ParseInv, response[at].type = Ending, NEW x, reported' = Append(reported, x),
           call.command \in ListCommands => x = response[at].value,
           call.command \in MessageCommands => x = MessageAt(response, at),
           call.command \in MessageCommands => FieldsRead(response, at + 1, jproc')
    PROVE  ParseInv' /\ \E n \in 0..Len(Expected) : reported' = SubSeq(Expected, 1, n)
<1>1. Expected' = Expected /\ Reports' = Reports
  BY ExpectedSame
<1>2. /\ response \in Answers /\ at \in Nat /\ at \in 1..Len(response)
      /\ call.command \in Looked /\ ~ (call.command \in MessageCommands /\ call.body_only)
      /\ Len(Expected) = Len(Reports)
  BY Parsing
<1>3. PICK n \in 0..Len(Reports) : /\ reported = SubSeq(Expected, 1, n)
                                   /\ \A k \in 1..Len(Reports) : k <= n <=> Reports[k] < at
  BY DEF ParseInv
<1>4. \E k \in 1..Len(Reports) : Reports[k] = at
  BY <1>2, ReportsAre
<1>5. /\ n + 1 \in 1..Len(Reports) /\ Reports[n + 1] = at
      /\ \A k \in 1..Len(Reports) : k <= n + 1 <=> Reports[k] < at + 1
  <2>1. Reports \in Seq(Nat) /\ \A k, l \in 1..Len(Reports) : k < l => Reports[k] < Reports[l]
    BY <1>2, ReportsAre
  <2> QED BY <1>2, <1>3, <1>4, <2>1, NextReport
<1>6. x = Expected[n + 1]
  <2>1. CASE call.command \in ListCommands
    <3>1. Expected[n + 1] = response[Reports[n + 1]].value
      BY <1>2, <1>5, <2>1, ExpectedIs
    <3> QED BY <1>5, <2>1, <3>1
  <2>2. CASE call.command \in MessageCommands
    <3>1. Expected[n + 1] = MessageAt(response, Reports[n + 1])
      BY <1>2, <1>5, <2>2, ExpectedIs
    <3> QED BY <1>5, <2>2, <3>1
  <2> QED BY <1>2, <2>1, <2>2 DEF Looked
<1>7. reported' = SubSeq(Expected, 1, n + 1)
  <2>1. Expected \in Seq(Elements(Expected)) /\ n \in Nat /\ n + 1 \in 1..Len(Expected)
    BY <1>2, <1>5, ExpectedIs
  <2>2. Append(SubSeq(Expected, 1, n), Expected[n + 1]) = SubSeq(Expected, 1, n + 1)
    BY <2>1, PrefixGrows
  <2> QED BY <1>3, <1>6, <2>2
<1>8. n + 1 \in 0..Len(Reports)
  BY <1>5
<1>9. \E m \in 0..Len(Reports) :
         /\ reported' = SubSeq(Expected, 1, m)
         /\ \A k \in 1..Len(Reports) : k <= m <=> Reports[k] < at + 1
  BY <1>5, <1>7, <1>8
<1>10. ParseInv'
  BY <1>1, <1>9 DEF ParseInv
<1> QED BY <1>2, <1>7, <1>8, <1>10

LEMMA ListTokenInv ==
    ASSUME IndInv, pc = "parse", at <= Len(buffer.text), command \in ListCommands,
           UNCHANGED <<options, get_body_only, request, transfer, incoming, buffer,
                       call, response, sent>>,
           ListToken(response[at])
    PROVE  IndInv'
<1> DEFINE t == response[at]
<1>1. /\ call.command = command /\ ParseInv /\ jproc \in Jprocs /\ buffer.text = response
      /\ \E n \in 0..Len(Expected) : reported = SubSeq(Expected, 1, n)
  BY Parsing, CommandsDiffer
<1>2. Ending = "string" /\ call.command \in ListCommands /\ call.command \notin MessageCommands
  BY <1>1, CommandsDiffer DEF Ending
<1>3. CASE t.type \in {"array_begin", "array_end"} /\ Accept /\ UNCHANGED <<jproc, told>>
  <2>1. ParseInv'
    BY <1>1, <1>2, <1>3, NoReport DEF Accept, told
  <2> QED BY <1>1, <1>3, <2>1, AcceptInv DEF told
<1>4. CASE t.type = "string" /\ Tell(t.value) /\ Accept /\ UNCHANGED jproc
  <2>1. /\ reported' = Append(reported, t.value) /\ command' \in {command, "NONE"}
        /\ at' = at + 1
    BY <1>4 DEF Tell, Accept
  <2>2. ParseInv' /\ \E n \in 0..Len(Expected) : reported' = SubSeq(Expected, 1, n)
    BY <1>1, <1>2, <1>4, <2>1, OneReport
  <2> QED BY <1>1, <1>4, <2>1, <2>2, AcceptInv
<1>5. CASE Reject
  BY <1>5, FailedInv DEF Reject, Return, told, parsing
<1> QED BY <1>3, <1>4, <1>5 DEF ListToken

(* The fields after a token that ends no object. *)
LEMMA FieldsGoOn ==
    ASSUME NEW r \in Answers, NEW i \in 1..Len(r), NEW j \in Jprocs, NEW k, FieldsRead(r, i, j),
           \/ /\ r[i].type \in {"array_begin", "array_end"} /\ k = j
           \/ /\ r[i].type = "object_begin" /\ k = Unset(j)
           \/ /\ r[i].type = "key" /\ k = [j EXCEPT !.is_key = TRUE, !.key = r[i].value]
           \/ /\ r[i].type \in {"string", "int"} /\ j.is_key /\ j.key \in Fields
              /\ k = [j EXCEPT !.is_key = FALSE, ![j.key] = r[i].value]
           \/ /\ r[i].type = "int" /\ ~j.is_key /\ k = j
    PROVE  FieldsRead(r, i+1, k) /\ k \in Jprocs
<1>1. Len(r) \in Nat
  BY ResponseTokens
<1>2. i \in Nat /\ (\A b \in 1..i-1 : b \in 1 .. i+1-1) /\ i \in 1 .. i+1-1
  BY <1>1
<1>3. r[i].value \in Values
  BY ResponseTokens
<1>4. ASSUME NEW b \in 1..i-1, Within(r, b, i, j)
      PROVE  InObject(r, i) /\ (j.is_key <=> r[i-1].type = "key")
  BY <1>2, <1>4, OpenedIsInObject DEF Within
<1>5. CASE r[i].type \in {"array_begin", "array_end"} /\ k = j
  <2>1. ~InObject(r, i)
    BY <1>5, ResponseTokens
  <2>2. Between(r, i, j)
    BY <1>4, <2>1 DEF FieldsRead
  <2>3. Between(r, i+1, j)
    BY <1>5, <2>2, BetweenGoesOn
  <2> QED BY <1>5, <2>3 DEF FieldsRead
<1>6. CASE r[i].type = "object_begin" /\ k = Unset(j)
  <2>1. ~InObject(r, i)
    BY <1>6, ResponseTokens
  <2>2. Between(r, i, j)
    BY <1>4, <2>1 DEF FieldsRead
  <2>3. Within(r, i, i+1, k)
    BY <1>6, <2>2, ObjectOpens
  <2>4. k \in Jprocs
    BY <1>6 DEF Unset, Jprocs, Values
  <2> QED BY <1>2, <2>3, <2>4 DEF FieldsRead
<1>7. CASE r[i].type = "key" /\ k = [j EXCEPT !.is_key = TRUE, !.key = r[i].value]
  <2>1. InObject(r, i)
    BY <1>7, ResponseTokens
  <2>2. PICK b \in 1..i-1 : Within(r, b, i, j)
    BY <2>1 DEF FieldsRead, Between
  <2>3. Within(r, b, i+1, k)
    BY <1>7, <2>2, KeyRead
  <2>4. k \in Jprocs
    BY <1>3, <1>7 DEF Jprocs
  <2> QED BY <1>2, <2>3, <2>4 DEF FieldsRead
<1>8. CASE /\ r[i].type \in {"string", "int"} /\ j.is_key /\ j.key \in Fields
           /\ k = [j EXCEPT !.is_key = FALSE, ![j.key] = r[i].value]
  <2>1. PICK b \in 1..i-1 : Within(r, b, i, j)
    BY <1>8 DEF FieldsRead, Between
  <2>2. Within(r, b, i+1, k)
    <3>1. r[i].type \notin {"object_begin", "object_end", "key"}
      BY <1>8
    <3> QED BY <1>8, <2>1, <3>1, ValueRead
  <2>3. k \in Jprocs
    BY <1>3, <1>8 DEF Jprocs, Fields
  <2> QED BY <1>2, <2>2, <2>3 DEF FieldsRead
<1>9. CASE r[i].type = "int" /\ ~j.is_key /\ k = j
  <2>1. Between(r, i, j)
    <3> SUFFICES ASSUME NEW b \in 1..i-1, Within(r, b, i, j) PROVE FALSE
      BY DEF FieldsRead
    <3>1. InObject(r, i) /\ r[i-1].type # "key"
      BY <1>4, <1>9
    <3> QED BY <1>9, <3>1, ResponseTokens
  <2>2. Between(r, i+1, j)
    BY <1>9, <2>1, BetweenGoesOn
  <2> QED BY <1>9, <2>2 DEF FieldsRead
<1> QED BY <1>5, <1>6, <1>7, <1>8, <1>9

LEMMA MessageTokenInv ==
    ASSUME IndInv, pc = "parse", at <= Len(buffer.text), command \in MessageCommands,
           UNCHANGED <<options, get_body_only, request, transfer, incoming, buffer,
                       call, response, sent>>,
           MessageToken(response[at])
    PROVE  IndInv'
<1> DEFINE t == response[at]
<1>1. /\ call.command = command /\ ParseInv /\ jproc \in Jprocs /\ buffer.text = response
      /\ response \in Answers /\ at \in 1..Len(response)
      /\ \E n \in 0..Len(Expected) : reported = SubSeq(Expected, 1, n)
  BY Parsing, CommandsDiffer
<1>2. Ending = "object_end" /\ call.command \notin ListCommands
  BY <1>1, CommandsDiffer DEF Ending
<1>3. FieldsRead(response, at, jproc)
  BY <1>1 DEF ParseInv
<1>4. ASSUME Accept, UNCHANGED told, t.type # "object_end",
             \/ t.type \in {"array_begin", "array_end"} /\ jproc' = jproc
             \/ t.type = "object_begin" /\ jproc' = Unset(jproc)
             \/ t.type = "key" /\ jproc' = [jproc EXCEPT !.is_key = TRUE, !.key = t.value]
             \/ /\ t.type \in {"string", "int"} /\ jproc.is_key /\ jproc.key \in Fields
                /\ jproc' = [jproc EXCEPT !.is_key = FALSE, ![jproc.key] = t.value]
             \/ t.type = "int" /\ ~jproc.is_key /\ jproc' = jproc
      PROVE  IndInv'
  <2>1. FieldsRead(response, at+1, jproc') /\ jproc' \in Jprocs
    BY <1>1, <1>3, <1>4, FieldsGoOn
  <2>2. reported' = reported /\ command' = command /\ at' = at + 1
    BY <1>4 DEF told, Accept
  <2>3. ParseInv'
    BY <1>1, <1>2, <1>4, <2>1, <2>2, NoReport
  <2> QED BY <1>1, <1>4, <2>1, <2>2, <2>3, AcceptInv
<1>5. CASE t.type = "object_end" /\ Tell(Told(jproc)) /\ jproc' = Clean(jproc) /\ Accept
  <2>1. InObject(response, at)
    BY <1>1, <1>5, ResponseTokens
  <2>2. PICK b \in 1..at-1 : Within(response, b, at, jproc)
    BY <1>3, <2>1 DEF FieldsRead, Between
  <2>3. MessageAt(response, at) = Told(jproc) /\ Between(response, at+1, Clean(jproc))
    BY <1>1, <1>5, <2>2, ObjectCloses
  <2>4. FieldsRead(response, at+1, jproc')
    BY <1>5, <2>3 DEF FieldsRead
  <2>5. jproc' \in Jprocs
    BY <1>1, <1>5 DEF Clean, Unset, Jprocs, Values
  <2>6. /\ reported' = Append(reported, Told(jproc)) /\ command' \in {command, "NONE"}
        /\ at' = at + 1
    BY <1>5 DEF Tell, Accept
  <2>7. ParseInv' /\ \E n \in 0..Len(Expected) : reported' = SubSeq(Expected, 1, n)
    BY <1>1, <1>2, <1>5, <2>3, <2>4, <2>6, OneReport
  <2> QED BY <1>1, <1>5, <2>5, <2>6, <2>7, AcceptInv
<1>6. CASE Reject
  BY <1>6, FailedInv DEF Reject, Return, told, parsing
<1>7. CASE t.type \in {"string", "int"} /\ Value(t)
  <2>1. CASE /\ jproc.is_key /\ jproc.key \in IF t.type = "string" THEN {"id", "body"} ELSE {"ttl", "hide"}
             /\ jproc' = [jproc EXCEPT !.is_key = FALSE, ![jproc.key] = t.value]
             /\ Accept /\ UNCHANGED told
    <3>1. jproc.key \in Fields
      BY <2>1 DEF Fields
    <3> QED BY <1>4, <1>7, <2>1, <3>1
  <2>2. CASE ~jproc.is_key /\ t.type = "int" /\ Accept /\ UNCHANGED <<jproc, told>>
    BY <1>4, <2>2
  <2> QED BY <1>6, <1>7, <2>1, <2>2 DEF Value
<1>8. CASE t.type \in {"array_begin", "array_end"} /\ Accept /\ UNCHANGED <<jproc, told>>
  BY <1>4, <1>8
<1>9. CASE t.type = "object_begin" /\ jproc' = Unset(jproc) /\ Accept /\ UNCHANGED told
  BY <1>4, <1>9
<1>10. CASE /\ t.type = "key" /\ jproc' = [jproc EXCEPT !.is_key = TRUE, !.key = t.value]
            /\ Accept /\ UNCHANGED told
  BY <1>4, <1>10
<1> QED BY <1>5, <1>6, <1>7, <1>8, <1>9, <1>10 DEF MessageToken

LEMMA ParseTokenInv == ASSUME IndInv, ParseToken PROVE IndInv'
<1>1. /\ pc = "parse" /\ at <= Len(buffer.text)
      /\ UNCHANGED <<options, get_body_only, request, transfer, incoming, buffer,
                     call, response, sent>>
  BY DEF ParseToken
<1>2. buffer.text[at] = response[at]
  BY <1>1, Parsing
<1>3. CASE Reject
  BY <1>1, <1>3, FailedInv DEF Reject, Return, told, parsing
<1>4. CASE command \in MessageCommands /\ MessageToken(buffer.text[at])
  BY <1>1, <1>2, <1>4, MessageTokenInv
<1>5. CASE command \in ListCommands /\ ListToken(buffer.text[at])
  BY <1>1, <1>2, <1>5, ListTokenInv
<1>6. CASE command = "NONE" /\ Accept /\ UNCHANGED <<jproc, told>>
  <2>1. /\ jproc \in Jprocs
        /\ \E n \in 0..Len(Expected) : reported = SubSeq(Expected, 1, n)
    BY <1>1, Parsing
  <2> QED BY <1>1, <1>6, <2>1, AcceptInv DEF told
<1> QED BY <1>3, <1>4, <1>5, <1>6 DEF ParseToken

LEMMA ParseDoneInv == ASSUME IndInv, ParseDone PROVE IndInv'
<1>1. /\ pc = "parse" /\ at = Len(buffer.text) + 1
      /\ UNCHANGED <<options, command, get_body_only, request, transfer, incoming, buffer, parsing,
                     call, response, reported, sent>>
  BY DEF ParseDone
<1>2. CASE Return("EINVAL")
  BY <1>1, <1>2, FailedInv DEF Return
<1>3. CASE Return("0")
  <2>1. /\ transfer = "ok" /\ call.command # "CREATE_MESSAGE" /\ buffer.text = response
        /\ response \in Answers /\ jproc \in Jprocs /\ Len(Expected) = Len(Reports)
        /\ at \in 1..Len(response)+1 /\ Len(response) \in Nat
        /\ command # "NONE" => ParseInv
        /\ \E n \in 0..Len(Expected) : reported = SubSeq(Expected, 1, n)
    BY <1>1, Parsing
  <2>2. ASSUME command # "NONE" PROVE reported = Expected
    <3>1. PICK n \in 0..Len(Reports) : /\ reported = SubSeq(Expected, 1, n)
                                       /\ \A k \in 1..Len(Reports) : k <= n <=> Reports[k] < at
      BY <2>1, <2>2 DEF ParseInv
    <3>2. Len(Reports) \in Nat /\ \A k \in 1..Len(Reports) : Reports[k] \in 1..Len(response)
      BY <2>1, ReportsAre
    <3>3. n = Len(Reports)
      <4>1. CASE Len(Reports) = 0
        BY <4>1
      <4>2. CASE Len(Reports) # 0
        <5>1. Len(Reports) \in 1..Len(Reports)
          BY <3>2, <4>2
        <5>2. Reports[Len(Reports)] < at
          BY <1>1, <2>1, <3>2, <5>1
        <5> QED BY <3>1, <3>2, <5>1, <5>2
      <4> QED BY <4>1, <4>2
    <3>4. SubSeq(Expected, 1, Len(Expected)) = Expected
      BY <2>1, ExpectedIs, SubSeqFull
    <3> QED BY <2>1, <3>1, <3>3, <3>4
  <2>3. pc' = "idle" /\ ret' = "0"
    BY <1>3 DEF Return
  <2>4. jproc' = jproc /\ at' = at
    BY <1>1 DEF parsing
  <2> QED BY <1>1, <2>1, <2>2, <2>3, <2>4, CompleteInv DEF IndInv, ExchangeInv
<1> QED BY <1>2, <1>3 DEF ParseDone

-----------------------------------------------------------------------------
(* Every step *)

(* libcurl's steps, with a chunk of any length. *)
LEMMA CurlInv == ASSUME IndInv, CurlStep PROVE IndInv'
<1>1. ASSUME NEW r \in Responses, NEW n \in 1..Len(r), Receive(n) PROVE IndInv'
  <2>1. Len(r) \in Nat
    BY ResponseTokens DEF Answers
  <2>2. n \in Nat \ {0}
    BY <2>1
  <2> QED BY <1>1, <2>2, ReceiveInv
<1>2. ASSUME NEW n \in 1..Len(Body), Send(n) PROVE IndInv'
  <2>1. Body \in Seq(Elements(Body))
    BY ConstantsAssumption
  <2>2. n \in Nat \ {0}
    BY <2>1
  <2> QED BY <1>2, <2>2, SendInv
<1> QED BY <1>1, <1>2, TransferEndsInv DEF CurlStep

LEMMA NextInv == ASSUME IndInv, [Next]_vars PROVE IndInv'
<1>1. CASE \E s \in Servers : SetServer(s)
  BY <1>1, SetServerInv DEF IndInv
<1>2. CASE \E p \in Ports \cup {NULL} : SetPort(p)
  BY <1>2, SetPortInv DEF IndInv
<1>3. CASE CommandStep
  <2>1. ExchangeInv
    BY DEF IndInv
  <2> QED BY <1>3, <2>1, GettingInv, GetlistsInv, DeleteInv, CreateInv DEF CommandStep
<1>4. CASE CurlStep
  BY <1>4, CurlInv
<1>5. CASE ProcessStep
  BY <1>5, ProcessErrorInv, ProcessBlocksInv, ProcessCompleteInv, ParseTokenInv, ParseDoneInv
     DEF ProcessStep
<1>6. CASE event_raised \/ burrow_cancel \/ destroy
  BY <1>6, EventRaisedInv, CancelInv, DestroyInv
<1>7. CASE Closed \/ UNCHANGED vars
  BY <1>7, StutterInv DEF Closed, IndInv
<1> QED BY <1>1, <1>2, <1>3, <1>4, <1>5, <1>6, <1>7 DEF Next

(* The invariant holds in every state of every behaviour. *)
THEOREM Invariant == Spec => []IndInv
<1>1. Init => IndInv
  BY InitInv
<1>2. IndInv /\ [Next]_vars => IndInv'
  BY NextInv
<1> QED BY <1>1, <1>2, PTL DEF Spec

-----------------------------------------------------------------------------
(* What follows *)

(* Every variable has its type, and the parse never runs past the end of the buffer. *)
THEOREM TypeCorrect == Spec => []TypeOK
<1>1. IndInv => TypeOK
  BY DEF IndInv, ExchangeInv, Types
<1> QED BY <1>1, Invariant, PTL

(***************************************************************************)
(* If there is a server and a port, the URL is that of the ones set last,  *)
(* whichever order they are set in, whatever cannot be allocated and when  *)
(* a port is set to the empty string in between: set_option and the        *)
(* building of baseurl in curl_backend.c.                                  *)
(***************************************************************************)
THEOREM UrlStaysCurrent == Spec => []UrlIsCurrent
<1>1. IndInv => UrlIsCurrent
  BY DEF IndInv, ExchangeInv
<1> QED BY <1>1, Invariant, PTL

(***************************************************************************)
(* The chunks user_buffer_curl_write_function has stored and what is still *)
(* to come make up the response, for every response and every way to cut   *)
(* it into chunks.                                                         *)
(***************************************************************************)
THEOREM ChunksMakeTheResponse == Spec => []BufferIsResponse
<1>1. IndInv => BufferIsResponse
  BY DEF IndInv, ExchangeInv
<1> QED BY <1>1, Invariant, PTL

(***************************************************************************)
(* The request in libcurl's hands says what the client asked for: the      *)
(* command and, for every command but the two listings, each filter and    *)
(* attribute once, for every set of them.                                  *)
(***************************************************************************)
THEOREM RequestsAreUnderstood == Spec => []RequestSaysCommand
<1>1. IndInv => RequestSaysCommand
  BY DEF IndInv, ExchangeInv
<1> QED BY <1>1, Invariant, PTL

(***************************************************************************)
(* The client is told of a prefix of what the response holds, in its order *)
(* and each with its own fields only, whatever fails and whenever the      *)
(* client cancels: burrow_backend_http_parse_json.                         *)
(***************************************************************************)
THEOREM ToldInOrder == Spec => []ReportsInOrder
<1>1. IndInv => ReportsInOrder
  <2> SUFFICES ASSUME IndInv PROVE ReportsInOrder
    OBVIOUS
  <2>1. PICK n \in 0..Len(Expected) : reported = SubSeq(Expected, 1, n)
    BY DEF IndInv, ExchangeInv, ToldInv
  <2>2. Expected \in Seq(Elements(Expected)) /\ Len(Expected) \in Nat
    BY ExpectedIs DEF IndInv, ExchangeInv, Types
  <2>3. Len(reported) = n
    BY <2>1, <2>2, SplitAt
  <2> QED BY <2>1, <2>2, <2>3 DEF ReportsInOrder
<1> QED BY <1>1, Invariant, PTL

(***************************************************************************)
(* process returns 0 only when the client has been told of the whole       *)
(* response, or the server has the whole body, provided libcurl always has *)
(* a descriptor to wait for: without one, ProcessBlocks returns 0 early.   *)
(***************************************************************************)
THEOREM ZeroMeansComplete ==
    ASSUME "no_fds" \notin Faults
    PROVE  Spec => []CompleteMeansAll
<1>1. IndInv => CompleteMeansAll
  BY DEF IndInv, ExchangeInv, DoneInv
<1> QED BY <1>1, Invariant, PTL

(* In a well-formed response of messages a value has a key that is known and expected. *)
LEMMA WellFormedValue ==
    ASSUME IndInv, pc = "parse", command \in MessageCommands, WellFormed,
           at <= Len(response), response[at].type \in {"string", "int"}
    PROVE  /\ jproc.is_key
           /\ jproc.key \in IF response[at].type = "string" THEN {"id", "body"} ELSE {"ttl", "hide"}
<1>1. /\ call.command \in MessageCommands /\ call.command \notin ListCommands /\ ParseInv
      /\ response \in Answers /\ at \in 1..Len(response) /\ Len(response) \in Nat
  BY Parsing, CommandsDiffer
<1>2. /\ at > 1 /\ response[at-1].type = "key"
      /\ response[at-1].value \in
            IF response[at].type = "string" THEN {"id", "body"} ELSE {"ttl", "hide"}
  BY <1>1 DEF WellFormed
<1>3. FieldsRead(response, at, jproc)
  BY <1>1 DEF ParseInv
<1>4. InObject(response, at)
  <2>1. at-1 \in 1..Len(response)
    BY <1>1, <1>2
  <2>2. InObject(response, at-1)
    BY <1>1, <1>2, <2>1, ResponseTokens
  <2>3. PICK b \in 1 .. at-1-1 : /\ response[b].type = "object_begin"
                                 /\ \A j \in b+1 .. at-1-1 : response[j].type # "object_end"
    BY <2>2 DEF InObject
  <2>4. b \in 1..at-1 /\ \A j \in b+1 .. at-1 : j \in b+1 .. at-1-1 \/ j = at-1
    BY <1>1
  <2>5. \A j \in b+1 .. at-1 : response[j].type # "object_end"
    BY <1>2, <2>3, <2>4
  <2> QED BY <2>3, <2>4, <2>5 DEF InObject
<1>5. PICK b \in 1..at-1 : Within(response, b, at, jproc)
  BY <1>3, <1>4 DEF FieldsRead, Between
<1> QED BY <1>2, <1>5 DEF Within

(***************************************************************************)
(* A parse of a well-formed response ends with an error only at a token of *)
(* a message that could not be copied for want of memory, and so never if  *)
(* memory does not run out ("enomem" \notin Faults).                       *)
(***************************************************************************)
THEOREM WellFormedIsAccepted == Spec => GoodResponseAccepted
<1> DEFINE NoMemory == /\ call.command \in MessageCommands
                       /\ at <= Len(buffer.text) /\ NoMemoryFor(buffer.text[at])
<1>1. ASSUME IndInv, [Next]_vars
      PROVE  [pc = "parse" /\ pc' = "idle" /\ WellFormed => ret' = "0" \/ NoMemory]_vars
  <2> SUFFICES ASSUME Next, pc = "parse", pc' = "idle", WellFormed, ~NoMemory PROVE ret' = "0"
    BY <1>1
  <2>1. ParseToken \/ ParseDone
    BY DEF Next, SetServer, SetPort, CommandStep, common_getting, common_getlists, common_delete,
           create_message, Called, CurlStep, Receive, Send, TransferEnds, TransferFails,
           ProcessStep, ProcessError, ProcessBlocks, ProcessComplete, event_raised, burrow_cancel,
           destroy, Closed
  <2>2. /\ buffer.text = response /\ response \in Answers /\ command \in {call.command, "NONE"}
        /\ at \in 1..Len(response)+1 /\ Len(response) \in Nat
    BY <1>1, Parsing
  <2>3. CASE ParseDone
    <3>1. Balanced(buffer.text)
      BY <2>2 DEF WellFormed
    <3> QED BY <2>3, <3>1 DEF ParseDone, Return
  <2>4. CASE ParseToken
    <3> DEFINE t == response[at]
    <3>1. at <= Len(response) /\ at \in 1..Len(response) /\ buffer.text[at] = t
      BY <2>2, <2>4 DEF ParseToken
    <3>2. ~Accept
      BY DEF Accept
    <3>3. t.type \notin {"bad", "other"}
      BY <3>1 DEF WellFormed
    <3>4. CASE command \in MessageCommands /\ MessageToken(t)
      <4>1. call.command \in MessageCommands
        BY <2>2, <3>4, CommandsDiffer
      <4>2. ~NoMemoryFor(t)
        BY <2>2, <3>1, <4>1
      <4>3. t.type \in {"string", "int"} /\ Value(t)
        BY <3>2, <3>3, <3>4, <4>2 DEF MessageToken
      <4>4. /\ jproc.is_key
            /\ jproc.key \in IF t.type = "string" THEN {"id", "body"} ELSE {"ttl", "hide"}
        BY <1>1, <3>1, <3>4, <4>3, WellFormedValue
      <4> QED BY <3>2, <4>2, <4>3, <4>4 DEF Value
    <3>5. CASE command \in ListCommands /\ ListToken(t)
      <4>1. call.command \in ListCommands /\ call.command \notin MessageCommands
        BY <2>2, <3>5, CommandsDiffer
      <4>2. t.type \in {"array_begin", "array_end", "string"}
        BY <3>1, <4>1 DEF WellFormed
      <4> QED BY <3>2, <3>5, <4>2 DEF ListToken
    <3> QED BY <2>4, <3>1, <3>2, <3>3, <3>4, <3>5 DEF ParseToken
  <2> QED BY <2>1, <2>3, <2>4
<1> QED BY <1>1, Invariant, PTL DEF Spec, GoodResponseAccepted
=============================================================================
