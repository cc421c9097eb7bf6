---------------------------- MODULE DatesProofs ----------------------------
(***************************************************************************)
(* What the temporal engine makes of a phrase, and what a conversation is  *)
(* dated with. For the phrases whose meaning is stated (days, weekdays,    *)
(* times of the clock, weeks, weekends, months, quarters, years, seasons), *)
(* with whatever their patterns capture and on any day of the calendar,    *)
(* the message says one value and it is the one that is meant (of one      *)
(* expression of every other kind, that it says one value); and in         *)
(* conversations of such texts what the provider is sent is dated by the   *)
(* day of the request.                                                     *)
(***************************************************************************)
EXTENDS RequestPathProofs

-----------------------------------------------------------------------------
(* One rule after another *)
\* ProcessMessage folds the rules over the message: what it is after so many of them.

\* The rules tried on a message, and the texts they make of one of so many rules.
RulesFor(words, e) ==
    IF e.tag = "" THEN RulesInOrder ELSE Append(RulesInOrder, Rule(e.tag, {words}))

\* What the folds of the community modules take first off a set of indices.
LastOf(s) == CHOOSE x \in s : \A y \in s : x >= y

\* A message before any rule was tried.
TokensOf(words) == [k \in DOMAIN words |-> Word(words[k])]

\* f gives, for a set of rules, what they make of the words one after the other.
IsFold(f, S, words, rules, e, at) ==
    f = [s \in SUBSET S |->
            IF s = {} THEN TokensOf(words)
            ELSE ApplyRule(f[s \ {LastOf(s)}], rules[LastOf(s)], e, at)]

LEMMA LastIs ==
    ASSUME NEW n \in Nat, NEW s \in SUBSET (1..n), n \in s
    PROVE  LastOf(s) = n
<1>1. \A y \in s : n >= y
  OBVIOUS
<1>2. \A x \in s : (\A y \in s : x >= y) => x = n
  OBVIOUS
<1> QED
  BY <1>1, <1>2 DEF LastOf

\* There is such a function for any number of rules.
LEMMA FoldExists ==
    ASSUME NEW words, NEW rules, NEW e, NEW at, NEW n \in Nat
    PROVE  \E f : IsFold(f, 1..n, words, rules, e, at)
<1> DEFINE Bad == {k \in Nat : ~ \E f : IsFold(f, 1..k, words, rules, e, at)}
<1> SUFFICES ASSUME Bad # {} PROVE FALSE
  OBVIOUS
<1>1. PICK k \in Bad : \A j \in Bad : k <= j
  <2>1. Bad \in SUBSET Nat
    OBVIOUS
  <2> HIDE DEF Bad
  <2> QED
    BY <2>1, LeastNumber
<1>2. k # 0
  <2> SUFFICES ASSUME k = 0 PROVE FALSE
    OBVIOUS
  <2>1. 1..k = {}
    OBVIOUS
  <2>2. IsFold([s \in {{}} |-> TokensOf(words)], {}, words, rules, e, at)
    BY DEF IsFold
  <2> QED
    BY <2>1, <2>2
<1>3. k - 1 \in Nat /\ k - 1 \notin Bad
  BY <1>1, <1>2
<1>4. PICK f : IsFold(f, 1..(k - 1), words, rules, e, at)
  BY <1>3
<1> DEFINE g == [s \in SUBSET (1..k) |->
                   IF k \in s THEN ApplyRule(f[s \ {k}], rules[k], e, at) ELSE f[s]]
<1>5. ASSUME NEW s \in SUBSET (1..k)
      PROVE  g[s] = IF s = {} THEN TokensOf(words)
                    ELSE ApplyRule(g[s \ {LastOf(s)}], rules[LastOf(s)], e, at)
  <2>1. CASE k \in s
    <3>1. LastOf(s) = k
      BY <2>1, LastIs
    <3>2. s \ {k} \in SUBSET (1..k) /\ k \notin s \ {k} /\ s # {}
      BY <2>1
    <3>3. g[s \ {k}] = f[s \ {k}]
      BY <3>2
    <3> QED
      BY <2>1, <3>1, <3>2, <3>3
  <2>2. CASE k \notin s
    <3>1. s \in SUBSET (1..(k - 1))
      BY <2>2, <1>3
    <3>2. g[s] = f[s]
      BY <2>2
    <3>3. CASE s = {}
      BY <3>1, <3>2, <3>3, <1>4 DEF IsFold
    <3>4. CASE s # {}
      <4>1. s \ {LastOf(s)} \in SUBSET (1..k) /\ k \notin s \ {LastOf(s)}
        BY <2>2
      <4>2. g[s \ {LastOf(s)}] = f[s \ {LastOf(s)}]
        BY <4>1
      <4>3. f[s] = ApplyRule(f[s \ {LastOf(s)}], rules[LastOf(s)], e, at)
        BY <3>1, <3>4, <1>4 DEF IsFold
      <4> QED
        BY <3>2, <3>4, <4>2, <4>3
    <3> QED
      BY <3>3, <3>4
  <2> QED
    BY <2>1, <2>2
<1>6. g = [s \in SUBSET (1..k) |-> g[s]]
  OBVIOUS
<1>7. IsFold(g, 1..k, words, rules, e, at)
  <2> HIDE DEF g
  <2> QED
    BY <1>5, <1>6 DEF IsFold
<1> QED
  BY <1>7

\* What a message is after its rules: the fold, one rule at a time.
LEMMA ProcessIs ==
    ASSUME NEW words, NEW e, NEW at
    PROVE  ProcessMessage(words, e, at)
             = (CHOOSE f : IsFold(f, DOMAIN RulesFor(words, e), words,
                                  RulesFor(words, e), e, at))[DOMAIN RulesFor(words, e)]
BY DEF ProcessMessage, RulesFor, Seqs!FoldLeft, Seqs!MapThenFoldSet, LastOf, Seqs!Max,
       IsFold, TokensOf

\* t are the texts after 0, 1, ... n rules.
Steps(t, words, rules, e, at, n) ==
    /\ t[0] = TokensOf(words)
    /\ \A k \in 1..n : t[k] = ApplyRule(t[k - 1], rules[k], e, at)
    /\ ProcessMessage(words, e, at) = t[n]

LEMMA OneByOne ==
    ASSUME NEW words, NEW e, NEW at, NEW rules, NEW n \in Nat,
           rules = RulesFor(words, e), DOMAIN rules = 1..n
    PROVE  \E t : Steps(t, words, rules, e, at, n)
<1> DEFINE f == CHOOSE f : IsFold(f, 1..n, words, rules, e, at)
<1>1. IsFold(f, 1..n, words, rules, e, at)
  BY FoldExists
<1>2. ProcessMessage(words, e, at) = f[1..n]
  BY ProcessIs
<1> HIDE DEF f
<1> DEFINE t == [k \in 0..n |-> f[1..k]]
<1>3. t[0] = TokensOf(words)
  <2>1. 1..0 = {} /\ {} \in SUBSET (1..n) /\ 0 \in 0..n
    OBVIOUS
  <2> QED
    BY <2>1, <1>1 DEF IsFold
<1>4. ASSUME NEW k \in 1..n PROVE t[k] = ApplyRule(t[k - 1], rules[k], e, at)
  <2>1. k \in Nat /\ k >= 1 /\ k <= n /\ k \in 1..k /\ 1..k \in SUBSET (1..n)
    OBVIOUS
  <2>2. LastOf(1..k) = k
    BY <2>1, LastIs, 1..k \in SUBSET (1..k)
  <2>3. (1..k) \ {k} = 1..(k - 1) /\ k - 1 \in 0..n /\ k \in 0..n
    OBVIOUS
  <2>4. f[1..k] = ApplyRule(f[(1..k) \ {LastOf(1..k)}], rules[LastOf(1..k)], e, at)
    BY <2>1, <1>1 DEF IsFold
  <2> QED
    BY <2>2, <2>3, <2>4
<1>5. t[n] = f[1..n]
  OBVIOUS
<1> HIDE DEF t
<1> QED
  BY <1>2, <1>3, <1>4, <1>5 DEF Steps

\* f gives, for a set of places, the values at them in their order.
SaidSoFar(f, text) ==
    f = [s \in SUBSET DOMAIN text |->
            IF s = {} THEN <<>>
            ELSE IF text[LastOf(s)].value = Untouched THEN f[s \ {LastOf(s)}]
            ELSE Append(f[s \ {LastOf(s)}], text[LastOf(s)].value)]

LEMMA ValuesAre ==
    ASSUME NEW text
    PROVE  Values(text) = (CHOOSE f : SaidSoFar(f, text))[DOMAIN text]
BY DEF Values, Seqs!FoldLeft, Seqs!MapThenFoldSet, LastOf, Seqs!Max, SaidSoFar

\* A message that is one value says it.
LEMMA OneValue ==
    ASSUME NEW v, v # Untouched
    PROVE  Values(<<Value(v)>>) = <<v>>
<1> DEFINE text == <<Value(v)>>
           f == CHOOSE f : SaidSoFar(f, text)
           g == [s \in SUBSET {1} |-> IF s = {} THEN <<>> ELSE <<v>>]
<1>1. DOMAIN text = {1} /\ text[1].value = v
  <2>1. Len(text) = 1 /\ text \in Seq({Value(v)}) /\ text[1] = Value(v)
    OBVIOUS
  <2>2. DOMAIN text = 1..1
    BY <2>1
  <2>3. Value(v).value = v
    BY DEF Value
  <2> QED
    BY <2>1, <2>2, <2>3
<1>2. ASSUME NEW s \in SUBSET {1}, s # {} PROVE LastOf(s) = 1 /\ s \ {1} = {} /\ s = {1}
  <2>1. 1 \in s /\ \A x : x \in s => x = 1
    BY <1>2
  <2>2. s = {1} /\ s \in SUBSET (1..1)
    BY <2>1
  <2>3. LastOf(s) = 1
    BY <2>1, <2>2, LastIs, 1 \in Nat
  <2> QED
    BY <2>2, <2>3
<1>3. SaidSoFar(g, text)
  <2>1. ASSUME NEW s \in SUBSET {1}
        PROVE  g[s] = IF s = {} THEN <<>>
                      ELSE IF text[LastOf(s)].value = Untouched THEN g[s \ {LastOf(s)}]
                      ELSE Append(g[s \ {LastOf(s)}], text[LastOf(s)].value)
    <3>1. CASE s = {}
      BY <3>1
    <3>2. CASE s # {}
      <4>1. g[s] = <<v>> /\ g[s \ {LastOf(s)}] = <<>>
        BY <3>2, <1>2
      <4>2. text[LastOf(s)].value = v
        BY <3>2, <1>1, <1>2
      <4>3. Append(<<>>, v) = <<v>>
        OBVIOUS
      <4> HIDE DEF g, text
      <4> QED
        BY <3>2, <4>1, <4>2, <4>3
    <3> QED
      BY <3>1, <3>2
  <2>2. g = [s \in SUBSET {1} |-> g[s]]
    OBVIOUS
  <2> HIDE DEF g, text
  <2> QED
    BY <1>1, <2>1, <2>2 DEF SaidSoFar
<1>4. SaidSoFar(f, text)
  <2> HIDE DEF text, g
  <2> QED
    BY <1>3
<1>5. f[{1}] = <<v>>
  <2> HIDE DEF f, g
  <2>1. f[{}] = <<>>
    BY <1>4, <1>1 DEF SaidSoFar
  <2>2. LastOf({1}) = 1 /\ {1} \ {1} = {}
    BY <1>2
  <2>3. f[{1}] = Append(f[{1} \ {LastOf({1})}], text[LastOf({1})].value)
    <3> HIDE DEF text
    <3> QED
      BY <1>4, <1>1, <2>2 DEF SaidSoFar
  <2> HIDE DEF text
  <2> QED
    BY <2>1, <2>2, <2>3, <1>1, Append(<<>>, v) = <<v>>
<1>6. Values(text) = f[{1}]
  BY ValuesAre, <1>1
<1> QED
  BY <1>5, <1>6

-----------------------------------------------------------------------------
(* One rule *)
\* A rule leaves a message without its words alone, and replaces a message that is
\* one of its phrases by the value of its handler, where no later rule finds a word.

\* A rule needs of a message all the words of one of its phrases.
WordsIn(words) == {words[k] : k \in DOMAIN words}
Fits(rule, said) == \E p \in rule.phrases : \A i \in 1..Len(p) : p[i] \in said

\* The am or pm that was captured, for a phrase with one.
SuffixOf(words, e) == IF Seqs!Contains(words, "am/pm") THEN e.ampm ELSE ""

\* What the rule's handler makes of its tag and of what was captured.
Resolved(words, rule, e, at) ==
    Resolve([e EXCEPT !.tag = rule.tag, !.ampm = SuffixOf(words, e)], at)

\* A phrase has a word, and its first is not the empty one of a replaced token.
RulePhrase(p) == SomeSeq(p) /\ Len(p) > 0 /\ p[1] # ""

LEMMA PhraseIs ==
    ASSUME NEW rule, \A p \in rule.phrases : RulePhrase(p), NEW p \in rule.phrases
    PROVE  /\ SomeSeq(p) /\ p[1] # ""
           /\ Len(p) \in Nat \ {0}
<1>1. RulePhrase(p)
  OBVIOUS
<1>2. SomeSeq(p)
  BY <1>1 DEF RulePhrase
<1>3. Len(p) > 0
  BY <1>1, Zenon DEF RulePhrase
<1>4. p[1] # ""
  BY <1>1, Zenon DEF RulePhrase
<1>5. Len(p) \in Nat
  BY <1>2 DEF SomeSeq
<1>6. Len(p) \in Nat \ {0}
  BY <1>3, <1>5
<1> QED
  BY <1>2, <1>4, <1>6, Zenon

LEMMA TextIs ==
    ASSUME NEW V, NEW words \in Seq(V)
    PROVE  /\ TokensOf(words) \in Seq({Word(w) : w \in V})
           /\ Len(TokensOf(words)) = Len(words)
           /\ \A k \in 1..Len(words) : TokensOf(words)[k].word = words[k]
<1>1. DOMAIN words = 1..Len(words) /\ Len(words) \in Nat
  OBVIOUS
<1>2. \A k \in 1..Len(words) : Word(words[k]).word = words[k]
  BY DEF Word
<1>3. \A k \in 1..Len(words) : words[k] \in V
  OBVIOUS
<1> QED
  BY <1>1, <1>2, <1>3 DEF TokensOf

LEMMA RuleIdle ==
    ASSUME NEW text, NEW rule, NEW e, NEW at,
           \A p \in rule.phrases, i \in 1..Len(text) : ~Occurs(p, i, text)
    PROVE  ApplyRule(text, rule, e, at) = text
BY DEF ApplyRule

LEMMA DoesNotFit ==
    ASSUME NEW V, NEW words \in Seq(V), NEW rule, NEW e, NEW at,
           \A p \in rule.phrases : RulePhrase(p), ~Fits(rule, WordsIn(words))
    PROVE  ApplyRule(TokensOf(words), rule, e, at) = TokensOf(words)
<1>1. ASSUME NEW p \in rule.phrases, NEW i \in 1..Len(words), Occurs(p, i, TokensOf(words))
      PROVE  FALSE
  <2>1. Len(p) \in Nat
    BY PhraseIs
  <2>2. i + Len(p) - 1 <= Len(words)
    BY <1>1, TextIs DEF Occurs
  <2>3. ASSUME NEW k \in 1..Len(p) PROVE p[k] \in WordsIn(words)
    <3>1. i + k - 1 \in 1..Len(words)
      BY <2>1, <2>2
    <3>2. TokensOf(words)[i + k - 1].word = p[k]
      BY <1>1 DEF Occurs
    <3>3. words[i + k - 1] = p[k]
      BY <3>1, <3>2, TextIs
    <3> QED
      BY <3>1, <3>3 DEF WordsIn
  <2> QED
    BY <2>3 DEF Fits
<1> QED
  BY <1>1, RuleIdle, TextIs

\* After its phrase is replaced nothing is left for another rule.
LEMMA NothingLeft ==
    ASSUME NEW v, NEW rule, NEW e, NEW at, \A p \in rule.phrases : RulePhrase(p)
    PROVE  ApplyRule(<<Value(v)>>, rule, e, at) = <<Value(v)>>
<1>1. ASSUME NEW p \in rule.phrases, NEW i \in 1..Len(<<Value(v)>>),
             Occurs(p, i, <<Value(v)>>)
      PROVE  FALSE
  <2>1. p[1] # ""
    BY PhraseIs, Zenon
  <2>2. i = 1 /\ i + 1 - 1 = 1 /\ 1 \in 1..Len(p)
    <3>1. Len(<<Value(v)>>) = 1
      OBVIOUS
    <3>2. i \in 1..1
      BY <3>1, Zenon
    <3>3. Len(p) \in Nat \ {0}
      BY PhraseIs, Zenon
    <3>4. 1 \in 1..Len(p)
      BY <3>3
    <3> QED
      BY <3>2, <3>4
  <2>3. <<Value(v)>>[i + 1 - 1].word = p[1]
    <3>1. \A k \in 1..Len(p) : <<Value(v)>>[i + k - 1].word = p[k]
      BY <1>1 DEF Occurs
    <3> QED
      BY <2>2, <3>1, Zenon
  <2>4. Value(v).word = "" /\ <<Value(v)>>[1] = Value(v)
    BY DEF Value
  <2> QED
    BY <2>1, <2>2, <2>3, <2>4
<1> QED
  BY <1>1, RuleIdle

\* The rule with the whole message among its phrases replaces it by the value.
LEMMA RuleApplies ==
    ASSUME NEW V, NEW words \in Seq(V), words # <<>>, NEW rule, NEW e, NEW at,
           words \in rule.phrases, \A p \in rule.phrases : RulePhrase(p),
           NEW v, v = Resolved(words, rule, e, at),
           v # Untouched
    PROVE  ApplyRule(TokensOf(words), rule, e, at) = <<Value(v)>>
<1> DEFINE text == TokensOf(words)
           places == {x \in rule.phrases \X (1..Len(text)) : Occurs(x[1], x[2], text)}
           place == CHOOSE x \in places : \A y \in places : Len(y[1]) <= Len(x[1])
<1>1. Len(text) = Len(words) /\ Len(words) \in Nat \ {0}
  <2>1. Len(words) \in Nat \ {0}
    OBVIOUS
  <2> QED
    BY <2>1, TextIs
<1>2. Occurs(words, 1, text)
  <2>1. \A k \in 1..Len(words) : text[1 + k - 1].word = words[k]
    <3>1. \A k \in 1..Len(words) : 1 + k - 1 = k
      BY <1>1
    <3> QED
      BY <3>1, TextIs
  <2> HIDE DEF text
  <2> QED
    BY <1>1, <2>1 DEF Occurs
<1>3. <<words, 1>> \in places
  BY <1>1, <1>2
<1>4. ASSUME NEW x \in places PROVE Len(x[1]) <= Len(words)
  <2>1. x[1] \in rule.phrases /\ Occurs(x[1], x[2], text) /\ x[2] \in 1..Len(text)
    OBVIOUS
  <2>2. Len(x[1]) \in Nat
    BY <2>1, PhraseIs
  <2>3. x[2] + Len(x[1]) - 1 <= Len(text)
    BY <2>1 DEF Occurs
  <2> HIDE DEF text, places
  <2> QED
    BY <1>1, <2>1, <2>2, <2>3
<1>5. place \in places /\ \A y \in places : Len(y[1]) <= Len(place[1])
  <2>1. \A y \in places : Len(y[1]) <= Len(<<words, 1>>[1])
    BY <1>4
  <2> HIDE DEF places
  <2> QED
    BY <1>3, <2>1
<1>6. place[1] = words /\ place[2] = 1
  <2> HIDE DEF place
  <2>1. /\ place[1] \in rule.phrases /\ place[2] \in 1..Len(text)
        /\ Occurs(place[1], place[2], text) /\ Len(place[1]) >= Len(words)
    BY <1>3, <1>5
  <2>2. SomeSeq(place[1]) /\ Len(place[1]) \in Nat
    BY <2>1, PhraseIs
  <2>3. Len(place[1]) = Len(words) /\ place[2] = 1
    <3>1. place[2] + Len(place[1]) - 1 <= Len(words)
      BY <1>1, <2>1 DEF Occurs
    <3> QED
      BY <1>1, <2>1, <2>2, <3>1
  <2>4. \A k \in 1..Len(words) : place[1][k] = words[k]
    <3>1. \A k \in 1..Len(words) : text[1 + k - 1].word = place[1][k]
      BY <2>1, <2>3 DEF Occurs
    <3>2. \A k \in 1..Len(words) : 1 + k - 1 = k
      BY <1>1
    <3>3. \A k \in 1..Len(words) : text[k].word = words[k]
      BY TextIs
    <3> HIDE DEF text
    <3> QED
      BY <3>1, <3>2, <3>3
  <2>5. place[1] = words
    <3>1. PICK S : place[1] \in Seq(S)
      BY <2>2 DEF SomeSeq
    <3> HIDE DEF text
    <3> QED
      BY <2>3, <2>4, <3>1
  <2> HIDE DEF text
  <2> QED
    BY <2>3, <2>5
<1>7. ApplyRule(text, rule, e, at) = Replace(text, 1, Len(words), v)
  <2>1. places # {}
    BY <1>3
  <2>2. ApplyRule(text, rule, e, at)
          = Replace(text, place[2], Len(place[1]),
                    Resolve([e EXCEPT !.tag = rule.tag,
                                      !.ampm = IF Seqs!Contains(place[1], "am/pm") THEN e.ampm
                                               ELSE ""], at))
    BY <2>1 DEF ApplyRule
  <2> HIDE DEF place, places, text
  <2> QED
    BY <1>6, <2>2 DEF Resolved, SuffixOf
<1>8. Replace(text, 1, Len(words), v) = <<Value(v)>>
  <2>1. text \in Seq({Word(w) : w \in V})
    BY TextIs
  <2>2. SubSeq(text, 1, 1 - 1) = <<>> /\ SubSeq(text, 1 + Len(words), Len(text)) = <<>>
    <3> HIDE DEF text
    <3> QED
      BY <1>1, <2>1
  <2>3. <<>> \o <<Value(v)>> \o <<>> = <<Value(v)>>
    OBVIOUS
  <2> HIDE DEF text
  <2> QED
    BY <2>2, <2>3 DEF Replace
<1> QED
  BY <1>7, <1>8

\* A message that one rule replaces whole, and none before it fits, says its value.
LEMMA OnlyRule ==
    ASSUME NEW V, NEW words \in Seq(V), words # <<>>, NEW e, NEW at,
           NEW rules, NEW n \in Nat, rules = RulesFor(words, e), DOMAIN rules = 1..n,
           \A k \in 1..n : \A p \in rules[k].phrases : RulePhrase(p),
           NEW j \in 1..n, words \in rules[j].phrases,
           \A k \in 1..(j - 1) : ~Fits(rules[k], WordsIn(words)),
           NEW v, v = Resolved(words, rules[j], e, at),
           v # Untouched
    PROVE  Values(ProcessMessage(words, e, at)) = <<v>>
<1>1. PICK t : Steps(t, words, rules, e, at, n)
  BY OneByOne
<1>2. ASSUME NEW k \in 0..(j - 1) PROVE t[k] = TokensOf(words)
  <2> DEFINE Bad == {i \in 0..(j - 1) : t[i] # TokensOf(words)}
  <2> SUFFICES ASSUME Bad # {} PROVE FALSE
    OBVIOUS
  <2>1. PICK i \in Bad : \A m \in Bad : i <= m
    <3>1. Bad \in SUBSET Nat
      OBVIOUS
    <3> HIDE DEF Bad
    <3> QED
      BY <3>1, LeastNumber
  <2>2. i # 0 /\ i \in 1..n /\ i \in 1..(j - 1) /\ i - 1 \in 0..(j - 1)
    BY <1>1 DEF Steps
  <2>3. t[i - 1] = TokensOf(words)
    BY <2>1, <2>2
  <2>4. t[i] = ApplyRule(TokensOf(words), rules[i], e, at)
    BY <1>1, <2>2, <2>3 DEF Steps
  <2>5. t[i] = TokensOf(words)
    BY <2>2, <2>4, DoesNotFit
  <2> QED
    BY <2>5
<1>3. t[j] = <<Value(v)>>
  <2>1. j - 1 \in 0..(j - 1)
    OBVIOUS
  <2>2. t[j] = ApplyRule(TokensOf(words), rules[j], e, at)
    <3>1. t[j - 1] = TokensOf(words)
      BY <1>2, <2>1, Zenon
    <3> QED
      BY <1>1, <3>1 DEF Steps
  <2>3. \A p \in rules[j].phrases : RulePhrase(p)
    OBVIOUS
  <2>4. ApplyRule(TokensOf(words), rules[j], e, at) = <<Value(v)>>
    BY <2>3, RuleApplies
  <2> QED
    BY <2>2, <2>4
<1>4. t[n] = <<Value(v)>>
  <2> DEFINE Bad == {i \in j..n : t[i] # <<Value(v)>>}
  <2>1. Bad = {}
    <3> SUFFICES ASSUME Bad # {} PROVE FALSE
      OBVIOUS
    <3>1. PICK i \in Bad : \A m \in Bad : i <= m
      <4>1. Bad \in SUBSET Nat
        OBVIOUS
      <4> HIDE DEF Bad
      <4> QED
        BY <4>1, LeastNumber
    <3>2. i # j /\ i \in 1..n /\ i - 1 \in j..n
      BY <1>3
    <3>3. t[i - 1] = <<Value(v)>>
      BY <3>1, <3>2
    <3>4. t[i] = ApplyRule(<<Value(v)>>, rules[i], e, at)
      BY <1>1, <3>2, <3>3 DEF Steps
    <3>5. t[i] = <<Value(v)>>
      BY <3>2, <3>4, NothingLeft
    <3> QED
      BY <3>5
  <2>2. n \in j..n
    OBVIOUS
  <2> QED
    BY <2>1, <2>2
<1> QED
  BY <1>1, <1>4, OneValue DEF Steps

-----------------------------------------------------------------------------
(* The tables *)
\* The words each phrase of a rule has, table by table (rules.py).

\* Phrases of one to five words.
LEMMA Words1 ==
    ASSUME NEW a
    PROVE  SomeSeq(<<a>>) /\ Len(<<a>>) > 0 /\ <<a>>[1] = a
<1>1. <<a>> \in Seq({a})
  OBVIOUS
<1>2. SomeSeq(<<a>>)
  BY <1>1 DEF SomeSeq
<1> QED
  BY <1>2

LEMMA Phrase1 ==
    ASSUME NEW a, a # ""
    PROVE  RulePhrase(<<a>>)
BY Words1, Zenon DEF RulePhrase

LEMMA Words2 ==
    ASSUME NEW a, NEW b
    PROVE  SomeSeq(<<a, b>>) /\ Len(<<a, b>>) > 0 /\ <<a, b>>[1] = a
<1>1. <<a, b>> \in Seq({a, b})
  OBVIOUS
<1>2. SomeSeq(<<a, b>>)
  BY <1>1 DEF SomeSeq
<1> QED
  BY <1>2

LEMMA Phrase2 ==
    ASSUME NEW a, NEW b, a # ""
    PROVE  RulePhrase(<<a, b>>)
BY Words2, Zenon DEF RulePhrase

LEMMA Words3 ==
    ASSUME NEW a, NEW b, NEW c
    PROVE  SomeSeq(<<a, b, c>>) /\ Len(<<a, b, c>>) > 0 /\ <<a, b, c>>[1] = a
<1>1. <<a, b, c>> \in Seq({a, b, c})
  OBVIOUS
<1>2. SomeSeq(<<a, b, c>>)
  BY <1>1 DEF SomeSeq
<1> QED
  BY <1>2

LEMMA Phrase3 ==
    ASSUME NEW a, NEW b, NEW c, a # ""
    PROVE  RulePhrase(<<a, b, c>>)
BY Words3, Zenon DEF RulePhrase

LEMMA Words4 ==
    ASSUME NEW a, NEW b, NEW c, NEW d
    PROVE  SomeSeq(<<a, b, c, d>>) /\ Len(<<a, b, c, d>>) > 0 /\ <<a, b, c, d>>[1] = a
<1>1. <<a, b, c, d>> \in Seq({a, b, c, d})
  OBVIOUS
<1>2. SomeSeq(<<a, b, c, d>>)
  BY <1>1 DEF SomeSeq
<1> QED
  BY <1>2

LEMMA Phrase4 ==
    ASSUME NEW a, NEW b, NEW c, NEW d, a # ""
    PROVE  RulePhrase(<<a, b, c, d>>)
BY Words4, Zenon DEF RulePhrase

LEMMA Words5 ==
    ASSUME NEW a, NEW b, NEW c, NEW d, NEW e
    PROVE  SomeSeq(<<a, b, c, d, e>>) /\ Len(<<a, b, c, d, e>>) > 0 /\ <<a, b, c, d, e>>[1] = a
<1>1. <<a, b, c, d, e>> \in Seq({a, b, c, d, e})
  OBVIOUS
<1>2. SomeSeq(<<a, b, c, d, e>>)
  BY <1>1 DEF SomeSeq
<1> QED
  BY <1>2

LEMMA Phrase5 ==
    ASSUME NEW a, NEW b, NEW c, NEW d, NEW e, a # ""
    PROVE  RulePhrase(<<a, b, c, d, e>>)
BY Words5, Zenon DEF RulePhrase

\* What a rule has to be known by: its phrases are phrases, and words they all have.
Meets(rule, demand, said) ==
    /\ \A p \in rule.phrases : RulePhrase(p)
    /\ Fits(rule, said) => demand \subseteq said

\* Words that all the phrases of a rule of the times have.
TimeDemands ==
    <<{"friday"}, {"coming"}, {"days"}, {"on"}, {"at"}, {"to"}, {"quarter", "past"}, {"am/pm"},
      {"hour"}, {"friday"}, {"half"}, {"right"}, {"few"}>>

LEMMA RulesOfTheTimeMeet ==
    ASSUME NEW said
    PROVE  \A k \in 1..13 : Meets(RulesOfTheTime[k], TimeDemands[k], said)
<1>1. Meets(RulesOfTheTime[1], TimeDemands[1], said)
  <2>1. ASSUME NEW rule, rule = Rule("relative_day_of_week",
                  {<<d, "friday">> : d \in {"last", "next", "this", "previous"}})
        PROVE  Meets(rule, {"friday"}, said)
    <3>1. \A p \in rule.phrases : RulePhrase(p)
      BY <2>1, Phrase2 DEF Rule
    <3>2. Fits(rule, said) => {"friday"} \subseteq said
      BY <2>1 DEF Rule, Fits
    <3> QED
      BY <3>1, <3>2, Zenon DEF Meets
  <2> QED
    BY <2>1 DEF RulesOfTheTime, TimeDemands
<1>2. Meets(RulesOfTheTime[2], TimeDemands[2], said)
  <2>1. ASSUME NEW rule, rule = Rule("coming_day_of_week", {<<"coming", "friday">>})
        PROVE  Meets(rule, {"coming"}, said)
    <3>1. \A p \in rule.phrases : RulePhrase(p)
      BY <2>1, Phrase2 DEF Rule
    <3>2. Fits(rule, said) => {"coming"} \subseteq said
      BY <2>1 DEF Rule, Fits
    <3> QED
      BY <3>1, <3>2, Zenon DEF Meets
  <2> QED
    BY <2>1 DEF RulesOfTheTime, TimeDemands
<1>3. Meets(RulesOfTheTime[3], TimeDemands[3], said)
  <2>1. ASSUME NEW rule, rule = Rule("n_units_from_now", {<<"3", "days", "from", "now">>})
        PROVE  Meets(rule, {"days"}, said)
    <3>1. \A p \in rule.phrases : RulePhrase(p)
      BY <2>1, Phrase4 DEF Rule
    <3>2. Fits(rule, said) => {"days"} \subseteq said
      BY <2>1 DEF Rule, Fits
    <3> QED
      BY <3>1, <3>2, Zenon DEF Meets
  <2> QED
    BY <2>1 DEF RulesOfTheTime, TimeDemands
<1>4. Meets(RulesOfTheTime[4], TimeDemands[4], said)
  <2>1. ASSUME NEW rule, rule = Rule("on_weekday", {<<"on", "friday">>})
        PROVE  Meets(rule, {"on"}, said)
    <3>1. \A p \in rule.phrases : RulePhrase(p)
      BY <2>1, Phrase2 DEF Rule
    <3>2. Fits(rule, said) => {"on"} \subseteq said
      BY <2>1 DEF Rule, Fits
    <3> QED
      BY <3>1, <3>2, Zenon DEF Meets
  <2> QED
    BY <2>1 DEF RulesOfTheTime, TimeDemands
<1>5. Meets(RulesOfTheTime[5], TimeDemands[5], said)
  <2>1. ASSUME NEW rule, rule = Rule("specific_time_datetime", {<<"at", "3:15", "am/pm">>})
        PROVE  Meets(rule, {"at"}, said)
    <3>1. \A p \in rule.phrases : RulePhrase(p)
      BY <2>1, Phrase3 DEF Rule
    <3>2. Fits(rule, said) => {"at"} \subseteq said
      BY <2>1 DEF Rule, Fits
    <3> QED
      BY <3>1, <3>2, Zenon DEF Meets
  <2> QED
    BY <2>1 DEF RulesOfTheTime, TimeDemands
<1>6. Meets(RulesOfTheTime[6], TimeDemands[6], said)
  <2>1. ASSUME NEW rule,
          rule = Rule("quarter_to", {<<"quarter", "to", "3", "am/pm">>, <<"quarter", "to", "3">>})
        PROVE  Meets(rule, {"to"}, said)
    <3>1. \A p \in rule.phrases : RulePhrase(p)
      BY <2>1, Phrase3, Phrase4 DEF Rule
    <3>2. ASSUME NEW p \in rule.phrases, \A i \in 1..Len(p) : p[i] \in said
          PROVE  "to" \in said
      <4>1. p = <<"quarter", "to", "3", "am/pm">> \/ p = <<"quarter", "to", "3">>
        BY <2>1 DEF Rule
      <4>2. CASE p = <<"quarter", "to", "3", "am/pm">>
        BY <3>2, <4>2
      <4>3. CASE p = <<"quarter", "to", "3">>
        BY <3>2, <4>3
      <4> QED
        BY <4>1, <4>2, <4>3
    <3>3. Fits(rule, said) => {"to"} \subseteq said
      BY <3>2 DEF Fits
    <3> QED
      BY <3>1, <3>3, Zenon DEF Meets
  <2> QED
    BY <2>1 DEF RulesOfTheTime, TimeDemands
<1>7. Meets(RulesOfTheTime[7], TimeDemands[7], said)
  <2>1. ASSUME NEW rule,
          rule = Rule("quarter_past", {<<"quarter", "past", "3", "am/pm">>, <<"quarter", "past", "3">>})
        PROVE  Meets(rule, {"quarter", "past"}, said)
    <3>1. \A p \in rule.phrases : RulePhrase(p)
      BY <2>1, Phrase3, Phrase4 DEF Rule
    <3>2. ASSUME NEW p \in rule.phrases, \A i \in 1..Len(p) : p[i] \in said
          PROVE  "quarter" \in said /\ "past" \in said
      <4>1. p = <<"quarter", "past", "3", "am/pm">> \/ p = <<"quarter", "past", "3">>
        BY <2>1 DEF Rule
      <4>2. CASE p = <<"quarter", "past", "3", "am/pm">>
        BY <3>2, <4>2
      <4>3. CASE p = <<"quarter", "past", "3">>
        BY <3>2, <4>3
      <4> QED
        BY <4>1, <4>2, <4>3
    <3>3. Fits(rule, said) => {"quarter", "past"} \subseteq said
      BY <3>2 DEF Fits
    <3> QED
      BY <3>1, <3>3, Zenon DEF Meets
  <2> QED
    BY <2>1 DEF RulesOfTheTime, TimeDemands
<1>8. Meets(RulesOfTheTime[8], TimeDemands[8], said)
  <2>1. ASSUME NEW rule,
          rule = Rule("specific_time_datetime", {<<"3:15", "am/pm">>, <<"3", "am/pm">>})
        PROVE  Meets(rule, {"am/pm"}, said)
    <3>1. \A p \in rule.phrases : RulePhrase(p)
      BY <2>1, Phrase2 DEF Rule
    <3>2. Fits(rule, said) => {"am/pm"} \subseteq said
      BY <2>1 DEF Rule, Fits
    <3> QED
      BY <3>1, <3>2, Zenon DEF Meets
  <2> QED
    BY <2>1 DEF RulesOfTheTime, TimeDemands
<1>9. Meets(RulesOfTheTime[9], TimeDemands[9], said)
  <2>1. ASSUME NEW rule, rule = Rule("a_unit_from_now", {<<"a", "hour", "from", "now">>})
        PROVE  Meets(rule, {"hour"}, said)
    <3>1. \A p \in rule.phrases : RulePhrase(p)
      BY <2>1, Phrase4 DEF Rule
    <3>2. Fits(rule, said) => {"hour"} \subseteq said
      BY <2>1 DEF Rule, Fits
    <3> QED
      BY <3>1, <3>2, Zenon DEF Meets
  <2> QED
    BY <2>1 DEF RulesOfTheTime, TimeDemands
<1>10. Meets(RulesOfTheTime[10], TimeDemands[10], said)
  <2>1. ASSUME NEW rule, rule = Rule("bare_weekday", {<<"friday">>})
        PROVE  Meets(rule, {"friday"}, said)
    <3>1. \A p \in rule.phrases : RulePhrase(p)
      BY <2>1, Phrase1 DEF Rule
    <3>2. Fits(rule, said) => {"friday"} \subseteq said
      BY <2>1 DEF Rule, Fits
    <3> QED
      BY <3>1, <3>2, Zenon DEF Meets
  <2> QED
    BY <2>1 DEF RulesOfTheTime, TimeDemands
<1>11. Meets(RulesOfTheTime[11], TimeDemands[11], said)
  <2>1. ASSUME NEW rule,
          rule = Rule("half_past", {<<"half", "past", "3", "am/pm">>, <<"half", "past", "3">>})
        PROVE  Meets(rule, {"half"}, said)
    <3>1. \A p \in rule.phrases : RulePhrase(p)
      BY <2>1, Phrase3, Phrase4 DEF Rule
    <3>2. Fits(rule, said) => {"half"} \subseteq said
      BY <2>1 DEF Rule, Fits
    <3> QED
      BY <3>1, <3>2, Zenon DEF Meets
  <2> QED
    BY <2>1 DEF RulesOfTheTime, TimeDemands
<1>12. Meets(RulesOfTheTime[12], TimeDemands[12], said)
  <2>1. ASSUME NEW rule, rule = Rule("now_datetime", {<<"right", "now">>})
        PROVE  Meets(rule, {"right"}, said)
    <3>1. \A p \in rule.phrases : RulePhrase(p)
      BY <2>1, Phrase2 DEF Rule
    <3>2. Fits(rule, said) => {"right"} \subseteq said
      BY <2>1 DEF Rule, Fits
    <3> QED
      BY <3>1, <3>2, Zenon DEF Meets
  <2> QED
    BY <2>1 DEF RulesOfTheTime, TimeDemands
<1>13. Meets(RulesOfTheTime[13], TimeDemands[13], said)
  <2>1. ASSUME NEW rule,
          rule = Rule("few_units_from_now", {<<"a", "few", "days", "from", "now">>})
        PROVE  Meets(rule, {"few"}, said)
    <3>1. \A p \in rule.phrases : RulePhrase(p)
      BY <2>1, Phrase5 DEF Rule
    <3>2. Fits(rule, said) => {"few"} \subseteq said
      BY <2>1 DEF Rule, Fits
    <3> QED
      BY <3>1, <3>2, Zenon DEF Meets
  <2> QED
    BY <2>1 DEF RulesOfTheTime, TimeDemands
<1> QED
  BY <1>1, <1>2, <1>3, <1>4, <1>5, <1>6, <1>7, <1>8, <1>9, <1>10, <1>11, <1>12, <1>13

\* Words that all the phrases of a rule of the days have.
DayDemands ==
    <<{"before"}, {"fortnight"}, {"day", "tomorrow"}, {"first"}, {"afternoon"}, {"end"},
      {"morning"}, {"evening"}, {"yesterday"}, {"yesterday", "night"}, {"first"}, {"earlier"},
      {"later"}>>

LEMMA RulesOfTheDayMeet ==
    ASSUME NEW said
    PROVE  \A k \in 1..13 : Meets(RulesOfTheDay[k], DayDemands[k], said)
<1>1. Meets(RulesOfTheDay[1], DayDemands[1], said)
  <2>1. ASSUME NEW rule,
          rule = Rule("day_before_yesterday", {<<"the", "day", "before", "yesterday">>})
        PROVE  Meets(rule, {"before"}, said)
    <3>1. \A p \in rule.phrases : RulePhrase(p)
      BY <2>1, Phrase4 DEF Rule
    <3>2. Fits(rule, said) => {"before"} \subseteq said
      BY <2>1 DEF Rule, Fits
    <3> QED
      BY <3>1, <3>2, Zenon DEF Meets
  <2> QED
    BY <2>1 DEF RulesOfTheDay, DayDemands
<1>2. Meets(RulesOfTheDay[2], DayDemands[2], said)
  <2>1. ASSUME NEW rule,
          rule = Rule("fortnight_from_now", {<<"a", "fortnight", "from", "now">>})
        PROVE  Meets(rule, {"fortnight"}, said)
    <3>1. \A p \in rule.phrases : RulePhrase(p)
      BY <2>1, Phrase4 DEF Rule
    <3>2. Fits(rule, said) => {"fortnight"} \subseteq said
      BY <2>1 DEF Rule, Fits
    <3> QED
      BY <3>1, <3>2, Zenon DEF Meets
  <2> QED
    BY <2>1 DEF RulesOfTheDay, DayDemands
<1>3. Meets(RulesOfTheDay[3], DayDemands[3], said)
  <2>1. ASSUME NEW rule, rule = Rule("day_after_tomorrow",
                  {<<"the", "day", "after", "tomorrow">>, <<"day", "tomorrow">>})
        PROVE  Meets(rule, {"day", "tomorrow"}, said)
    <3>1. \A p \in rule.phrases : RulePhrase(p)
      BY <2>1, Phrase2, Phrase4 DEF Rule
    <3>2. Fits(rule, said) => {"day", "tomorrow"} \subseteq said
      BY <2>1 DEF Rule, Fits
    <3> QED
      BY <3>1, <3>2, Zenon DEF Meets
  <2> QED
    BY <2>1 DEF RulesOfTheDay, DayDemands
<1>4. Meets(RulesOfTheDay[4], DayDemands[4], said)
  <2>1. ASSUME NEW rule, rule = Rule("first_thing_morning",
                  {<<"first", "thing", "in", "the", "morning">>, <<"first", "thing">>})
        PROVE  Meets(rule, {"first"}, said)
    <3>1. \A p \in rule.phrases : RulePhrase(p)
      BY <2>1, Phrase2, Phrase5 DEF Rule
    <3>2. Fits(rule, said) => {"first"} \subseteq said
      BY <2>1 DEF Rule, Fits
    <3> QED
      BY <3>1, <3>2, Zenon DEF Meets
  <2> QED
    BY <2>1 DEF RulesOfTheDay, DayDemands
<1>5. Meets(RulesOfTheDay[5], DayDemands[5], said)
  <2>1. ASSUME NEW rule, rule = Rule("yesterday_afternoon", {<<"yesterday", "afternoon">>})
        PROVE  Meets(rule, {"afternoon"}, said)
    <3>1. \A p \in rule.phrases : RulePhrase(p)
      BY <2>1, Phrase2 DEF Rule
    <3>2. Fits(rule, said) => {"afternoon"} \subseteq said
      BY <2>1 DEF Rule, Fits
    <3> QED
      BY <3>1, <3>2, Zenon DEF Meets
  <2> QED
    BY <2>1 DEF RulesOfTheDay, DayDemands
<1>6. Meets(RulesOfTheDay[6], DayDemands[6], said)
  <2>1. ASSUME NEW rule, rule = Rule("end_of_day", {<<"end", "of", "day">>})
        PROVE  Meets(rule, {"end"}, said)
    <3>1. \A p \in rule.phrases : RulePhrase(p)
      BY <2>1, Phrase3 DEF Rule
    <3>2. Fits(rule, said) => {"end"} \subseteq said
      BY <2>1 DEF Rule, Fits
    <3> QED
      BY <3>1, <3>2, Zenon DEF Meets
  <2> QED
    BY <2>1 DEF RulesOfTheDay, DayDemands
<1>7. Meets(RulesOfTheDay[7], DayDemands[7], said)
  <2>1. ASSUME NEW rule, rule = Rule("yesterday_morning", {<<"yesterday", "morning">>})
        PROVE  Meets(rule, {"morning"}, said)
    <3>1. \A p \in rule.phrases : RulePhrase(p)
      BY <2>1, Phrase2 DEF Rule
    <3>2. Fits(rule, said) => {"morning"} \subseteq said
      BY <2>1 DEF Rule, Fits
    <3> QED
      BY <3>1, <3>2, Zenon DEF Meets
  <2> QED
    BY <2>1 DEF RulesOfTheDay, DayDemands
<1>8. Meets(RulesOfTheDay[8], DayDemands[8], said)
  <2>1. ASSUME NEW rule, rule = Rule("yesterday_evening", {<<"yesterday", "evening">>})
        PROVE  Meets(rule, {"evening"}, said)
    <3>1. \A p \in rule.phrases : RulePhrase(p)
      BY <2>1, Phrase2 DEF Rule
    <3>2. Fits(rule, said) => {"evening"} \subseteq said
      BY <2>1 DEF Rule, Fits
    <3> QED
      BY <3>1, <3>2, Zenon DEF Meets
  <2> QED
    BY <2>1 DEF RulesOfTheDay, DayDemands
<1>9. Meets(RulesOfTheDay[9], DayDemands[9], said)
  <2>1. ASSUME NEW rule, rule = Rule("yesterday", {<<"yesterday">>})
        PROVE  Meets(rule, {"yesterday"}, said)
    <3>1. \A p \in rule.phrases : RulePhrase(p)
      BY <2>1, Phrase1 DEF Rule
    <3>2. Fits(rule, said) => {"yesterday"} \subseteq said
      BY <2>1 DEF Rule, Fits
    <3> QED
      BY <3>1, <3>2, Zenon DEF Meets
  <2> QED
    BY <2>1 DEF RulesOfTheDay, DayDemands
<1>10. Meets(RulesOfTheDay[10], DayDemands[10], said)
  <2>1. ASSUME NEW rule, rule = Rule("yesterday_night", {<<"yesterday", "night">>})
        PROVE  Meets(rule, {"yesterday", "night"}, said)
    <3>1. \A p \in rule.phrases : RulePhrase(p)
      BY <2>1, Phrase2 DEF Rule
    <3>2. Fits(rule, said) => {"yesterday", "night"} \subseteq said
      BY <2>1 DEF Rule, Fits
    <3> QED
      BY <3>1, <3>2, Zenon DEF Meets
  <2> QED
    BY <2>1 DEF RulesOfTheDay, DayDemands
<1>11. Meets(RulesOfTheDay[11], DayDemands[11], said)
  <2>1. ASSUME NEW rule,
          rule = Rule("first_thing_tomorrow", {<<"first", "thing", "tomorrow">>})
        PROVE  Meets(rule, {"first"}, said)
    <3>1. \A p \in rule.phrases : RulePhrase(p)
      BY <2>1, Phrase3 DEF Rule
    <3>2. Fits(rule, said) => {"first"} \subseteq said
      BY <2>1 DEF Rule, Fits
    <3> QED
      BY <3>1, <3>2, Zenon DEF Meets
  <2> QED
    BY <2>1 DEF RulesOfTheDay, DayDemands
<1>12. Meets(RulesOfTheDay[12], DayDemands[12], said)
  <2>1. ASSUME NEW rule,
          rule = Rule("earlier_today", {<<"earlier", "today">>, <<"earlier", "tonight">>})
        PROVE  Meets(rule, {"earlier"}, said)
    <3>1. \A p \in rule.phrases : RulePhrase(p)
      BY <2>1, Phrase2 DEF Rule
    <3>2. Fits(rule, said) => {"earlier"} \subseteq said
      BY <2>1 DEF Rule, Fits
    <3> QED
      BY <3>1, <3>2, Zenon DEF Meets
  <2> QED
    BY <2>1 DEF RulesOfTheDay, DayDemands
<1>13. Meets(RulesOfTheDay[13], DayDemands[13], said)
  <2>1. ASSUME NEW rule,
          rule = Rule("later_today", {<<"later", "today">>, <<"later", "tonight">>})
        PROVE  Meets(rule, {"later"}, said)
    <3>1. \A p \in rule.phrases : RulePhrase(p)
      BY <2>1, Phrase2 DEF Rule
    <3>2. Fits(rule, said) => {"later"} \subseteq said
      BY <2>1 DEF Rule, Fits
    <3> QED
      BY <3>1, <3>2, Zenon DEF Meets
  <2> QED
    BY <2>1 DEF RulesOfTheDay, DayDemands
<1> QED
  BY <1>1, <1>2, <1>3, <1>4, <1>5, <1>6, <1>7, <1>8, <1>9, <1>10, <1>11, <1>12, <1>13

\* Words that all the phrases of a rule of tomorrow have.
TomorrowDemands ==
    <<{"afternoon"}, {"morning"}, {"evening"}, {"tonight"}, {"night"}, {"afternoon"},
      {"morning"}, {"evening"}, {"afternoon"}, {"morning"}, {"evening"}, {"tomorrow"}, {"today"},
      {"now"}>>

LEMMA RulesOfTomorrowMeet ==
    ASSUME NEW said
    PROVE  \A k \in 1..14 : Meets(RulesOfTomorrow[k], TomorrowDemands[k], said)
<1>1. Meets(RulesOfTomorrow[1], TomorrowDemands[1], said)
  <2>1. ASSUME NEW rule, rule = Rule("tomorrow_afternoon", {<<"tomorrow", "afternoon">>})
        PROVE  Meets(rule, {"afternoon"}, said)
    <3>1. \A p \in rule.phrases : RulePhrase(p)
      BY <2>1, Phrase2 DEF Rule
    <3>2. Fits(rule, said) => {"afternoon"} \subseteq said
      BY <2>1 DEF Rule, Fits
    <3> QED
      BY <3>1, <3>2, Zenon DEF Meets
  <2> QED
    BY <2>1 DEF RulesOfTomorrow, TomorrowDemands
<1>2. Meets(RulesOfTomorrow[2], TomorrowDemands[2], said)
  <2>1. ASSUME NEW rule, rule = Rule("tomorrow_morning", {<<"tomorrow", "morning">>})
        PROVE  Meets(rule, {"morning"}, said)
    <3>1. \A p \in rule.phrases : RulePhrase(p)
      BY <2>1, Phrase2 DEF Rule
    <3>2. Fits(rule, said) => {"morning"} \subseteq said
      BY <2>1 DEF Rule, Fits
    <3> QED
      BY <3>1, <3>2, Zenon DEF Meets
  <2> QED
    BY <2>1 DEF RulesOfTomorrow, TomorrowDemands
<1>3. Meets(RulesOfTomorrow[3], TomorrowDemands[3], said)
  <2>1. ASSUME NEW rule, rule = Rule("tomorrow_evening", {<<"tomorrow", "evening">>})
        PROVE  Meets(rule, {"evening"}, said)
    <3>1. \A p \in rule.phrases : RulePhrase(p)
      BY <2>1, Phrase2 DEF Rule
    <3>2. Fits(rule, said) => {"evening"} \subseteq said
      BY <2>1 DEF Rule, Fits
    <3> QED
      BY <3>1, <3>2, Zenon DEF Meets
  <2> QED
    BY <2>1 DEF RulesOfTomorrow, TomorrowDemands
<1>4. Meets(RulesOfTomorrow[4], TomorrowDemands[4], said)
  <2>1. ASSUME NEW rule, rule = Rule("tonight_datetime", {<<"tonight">>})
        PROVE  Meets(rule, {"tonight"}, said)
    <3>1. \A p \in rule.phrases : RulePhrase(p)
      BY <2>1, Phrase1 DEF Rule
    <3>2. Fits(rule, said) => {"tonight"} \subseteq said
      BY <2>1 DEF Rule, Fits
    <3> QED
      BY <3>1, <3>2, Zenon DEF Meets
  <2> QED
    BY <2>1 DEF RulesOfTomorrow, TomorrowDemands
<1>5. Meets(RulesOfTomorrow[5], TomorrowDemands[5], said)
  <2>1. ASSUME NEW rule, rule = Rule("tomorrow_night", {<<"tomorrow", "night">>})
        PROVE  Meets(rule, {"night"}, said)
    <3>1. \A p \in rule.phrases : RulePhrase(p)
      BY <2>1, Phrase2 DEF Rule
    <3>2. Fits(rule, said) => {"night"} \subseteq said
      BY <2>1 DEF Rule, Fits
    <3> QED
      BY <3>1, <3>2, Zenon DEF Meets
  <2> QED
    BY <2>1 DEF RulesOfTomorrow, TomorrowDemands
<1>6. Meets(RulesOfTomorrow[6], TomorrowDemands[6], said)
  <2>1. ASSUME NEW rule, rule = Rule("this_afternoon_datetime", {<<"this", "afternoon">>})
        PROVE  Meets(rule, {"afternoon"}, said)
    <3>1. \A p \in rule.phrases : RulePhrase(p)
      BY <2>1, Phrase2 DEF Rule
    <3>2. Fits(rule, said) => {"afternoon"} \subseteq said
      BY <2>1 DEF Rule, Fits
    <3> QED
      BY <3>1, <3>2, Zenon DEF Meets
  <2> QED
    BY <2>1 DEF RulesOfTomorrow, TomorrowDemands
<1>7. Meets(RulesOfTomorrow[7], TomorrowDemands[7], said)
  <2>1. ASSUME NEW rule, rule = Rule("this_morning_datetime", {<<"this", "morning">>})
        PROVE  Meets(rule, {"morning"}, said)
    <3>1. \A p \in rule.phrases : RulePhrase(p)
      BY <2>1, Phrase2 DEF Rule
    <3>2. Fits(rule, said) => {"morning"} \subseteq said
      BY <2>1 DEF Rule, Fits
    <3> QED
      BY <3>1, <3>2, Zenon DEF Meets
  <2> QED
    BY <2>1 DEF RulesOfTomorrow, TomorrowDemands
<1>8. Meets(RulesOfTomorrow[8], TomorrowDemands[8], said)
  <2>1. ASSUME NEW rule, rule = Rule("this_evening_datetime", {<<"this", "evening">>})
        PROVE  Meets(rule, {"evening"}, said)
    <3>1. \A p \in rule.phrases : RulePhrase(p)
      BY <2>1, Phrase2 DEF Rule
    <3>2. Fits(rule, said) => {"evening"} \subseteq said
      BY <2>1 DEF Rule, Fits
    <3> QED
      BY <3>1, <3>2, Zenon DEF Meets
  <2> QED
    BY <2>1 DEF RulesOfTomorrow, TomorrowDemands
<1>9. Meets(RulesOfTomorrow[9], TomorrowDemands[9], said)
  <2>1. ASSUME NEW rule, rule = Rule("afternoon_standalone", {<<"afternoon">>})
        PROVE  Meets(rule, {"afternoon"}, said)
    <3>1. \A p \in rule.phrases : RulePhrase(p)
      BY <2>1, Phrase1 DEF Rule
    <3>2. Fits(rule, said) => {"afternoon"} \subseteq said
      BY <2>1 DEF Rule, Fits
    <3> QED
      BY <3>1, <3>2, Zenon DEF Meets
  <2> QED
    BY <2>1 DEF RulesOfTomorrow, TomorrowDemands
<1>10. Meets(RulesOfTomorrow[10], TomorrowDemands[10], said)
  <2>1. ASSUME NEW rule, rule = Rule("morning_standalone", {<<"morning">>})
        PROVE  Meets(rule, {"morning"}, said)
    <3>1. \A p \in rule.phrases : RulePhrase(p)
      BY <2>1, Phrase1 DEF Rule
    <3>2. Fits(rule, said) => {"morning"} \subseteq said
      BY <2>1 DEF Rule, Fits
    <3> QED
      BY <3>1, <3>2, Zenon DEF Meets
  <2> QED
    BY <2>1 DEF RulesOfTomorrow, TomorrowDemands
<1>11. Meets(RulesOfTomorrow[11], TomorrowDemands[11], said)
  <2>1. ASSUME NEW rule, rule = Rule("evening_standalone", {<<"evening">>})
        PROVE  Meets(rule, {"evening"}, said)
    <3>1. \A p \in rule.phrases : RulePhrase(p)
      BY <2>1, Phrase1 DEF Rule
    <3>2. Fits(rule, said) => {"evening"} \subseteq said
      BY <2>1 DEF Rule, Fits
    <3> QED
      BY <3>1, <3>2, Zenon DEF Meets
  <2> QED
    BY <2>1 DEF RulesOfTomorrow, TomorrowDemands
<1>12. Meets(RulesOfTomorrow[12], TomorrowDemands[12], said)
  <2>1. ASSUME NEW rule, rule = Rule("tomorrow", {<<"tomorrow">>})
        PROVE  Meets(rule, {"tomorrow"}, said)
    <3>1. \A p \in rule.phrases : RulePhrase(p)
      BY <2>1, Phrase1 DEF Rule
    <3>2. Fits(rule, said) => {"tomorrow"} \subseteq said
      BY <2>1 DEF Rule, Fits
    <3> QED
      BY <3>1, <3>2, Zenon DEF Meets
  <2> QED
    BY <2>1 DEF RulesOfTomorrow, TomorrowDemands
<1>13. Meets(RulesOfTomorrow[13], TomorrowDemands[13], said)
  <2>1. ASSUME NEW rule, rule = Rule("today", {<<"today">>})
        PROVE  Meets(rule, {"today"}, said)
    <3>1. \A p \in rule.phrases : RulePhrase(p)
      BY <2>1, Phrase1 DEF Rule
    <3>2. Fits(rule, said) => {"today"} \subseteq said
      BY <2>1 DEF Rule, Fits
    <3> QED
      BY <3>1, <3>2, Zenon DEF Meets
  <2> QED
    BY <2>1 DEF RulesOfTomorrow, TomorrowDemands
<1>14. Meets(RulesOfTomorrow[14], TomorrowDemands[14], said)
  <2>1. ASSUME NEW rule, rule = Rule("now_datetime", {<<"now">>})
        PROVE  Meets(rule, {"now"}, said)
    <3>1. \A p \in rule.phrases : RulePhrase(p)
      BY <2>1, Phrase1 DEF Rule
    <3>2. Fits(rule, said) => {"now"} \subseteq said
      BY <2>1 DEF Rule, Fits
    <3> QED
      BY <3>1, <3>2, Zenon DEF Meets
  <2> QED
    BY <2>1 DEF RulesOfTomorrow, TomorrowDemands
<1> QED
  BY <1>1, <1>2, <1>3, <1>4, <1>5, <1>6, <1>7, <1>8, <1>9, <1>10, <1>11, <1>12, <1>13, <1>14

-----------------------------------------------------------------------------
(* The rule that takes a message *)
\* The tables in the order they are tried, and what the first rule that fits makes
\* of a message.

\* The parts of a sequence: a, b and c, of m, m and n entries.
Laid(all, a, b, c, m, n) ==
    /\ SomeSeq(all) /\ Len(all) = m + m + n
    /\ \A k \in 1..m : all[k] = a[k]
    /\ \A k \in 1..m : all[m + k] = b[k]
    /\ \A k \in 1..n : all[m + m + k] = c[k]

LEMMA ThreeParts ==
    ASSUME NEW S, NEW a \in Seq(S), NEW b \in Seq(S), NEW c \in Seq(S),
           NEW m \in Nat, NEW n \in Nat, Len(a) = m, Len(b) = m, Len(c) = n
    PROVE  Laid(a \o b \o c, a, b, c, m, n)
<1>1. a \o b \in Seq(S) /\ Len(a \o b) = m + m
  OBVIOUS
<1>2. \A k \in 1..m : (a \o b)[k] = a[k] /\ (a \o b)[m + k] = b[k]
  OBVIOUS
<1>3. a \o b \o c \in Seq(S) /\ Len(a \o b \o c) = m + m + n
  BY <1>1
<1>4. \A k \in 1..(m + m) : (a \o b \o c)[k] = (a \o b)[k]
  BY <1>1
<1>5. \A k \in 1..n : (a \o b \o c)[m + m + k] = c[k]
  BY <1>1
<1>6. \A k \in 1..m : (a \o b \o c)[k] = a[k]
  BY <1>2, <1>4
<1>7. \A k \in 1..m : (a \o b \o c)[m + k] = b[k]
  BY <1>2, <1>4
<1>8. SomeSeq(a \o b \o c)
  BY <1>3, Zenon DEF SomeSeq
<1> QED
  BY <1>3, <1>5, <1>6, <1>7, <1>8, Zenon DEF Laid

\* A table is a sequence of so many entries.
LEMMA TableIs ==
    ASSUME NEW n \in Nat, NEW table, table = [k \in 1..n |-> table[k]]
    PROVE  SomeSeq(table) /\ Len(table) = n
<1> DEFINE S == {table[k] : k \in 1..n}
<1>1. table \in Seq(S)
  <2>1. \A k \in 1..n : table[k] \in S
    OBVIOUS
  <2>2. [k \in 1..n |-> table[k]] \in Seq(S)
    <3> HIDE DEF S
    <3> QED
      BY <2>1
  <2> HIDE DEF S
  <2> QED
    BY <2>2
<1>2. Len(table) = n
  OBVIOUS
<1> QED
  BY <1>1, <1>2 DEF SomeSeq

LEMMA TableLengths ==
    /\ SomeSeq(RulesOfTheTime) /\ Len(RulesOfTheTime) = 13
    /\ SomeSeq(RulesOfTheDay) /\ Len(RulesOfTheDay) = 13
    /\ SomeSeq(RulesOfTomorrow) /\ Len(RulesOfTomorrow) = 14
<1>1. RulesOfTheTime = [k \in 1..13 |-> RulesOfTheTime[k]]
  BY DEF RulesOfTheTime
<1>2. RulesOfTheDay = [k \in 1..13 |-> RulesOfTheDay[k]]
  BY DEF RulesOfTheDay
<1>3. RulesOfTomorrow = [k \in 1..14 |-> RulesOfTomorrow[k]]
  BY DEF RulesOfTomorrow
<1>4. SomeSeq(RulesOfTheTime) /\ Len(RulesOfTheTime) = 13
  BY <1>1, TableIs, 13 \in Nat
<1>5. SomeSeq(RulesOfTheDay) /\ Len(RulesOfTheDay) = 13
  BY <1>2, TableIs, 13 \in Nat
<1>6. SomeSeq(RulesOfTomorrow) /\ Len(RulesOfTomorrow) = 14
  BY <1>3, TableIs, 14 \in Nat
<1> QED
  BY <1>4, <1>5, <1>6

LEMMA InOrderAre ==
    ASSUME NEW m \in Nat, NEW n \in Nat, m = 13, n = 14
    PROVE  Laid(RulesInOrder, RulesOfTheTime, RulesOfTheDay, RulesOfTomorrow, m, n)
<1>1. PICK A, B, C : /\ RulesOfTheTime \in Seq(A) /\ RulesOfTheDay \in Seq(B)
                     /\ RulesOfTomorrow \in Seq(C)
  BY TableLengths, Zenon DEF SomeSeq
<1>2. PICK S : S = A \cup B \cup C
  OBVIOUS
<1>3. /\ Len(RulesOfTheTime) = m /\ Len(RulesOfTheDay) = m /\ Len(RulesOfTomorrow) = n
  BY TableLengths, Zenon
<1>4. A \subseteq S /\ B \subseteq S /\ C \subseteq S
  BY <1>2
<1>5. /\ RulesOfTheTime \in Seq(S) /\ RulesOfTheDay \in Seq(S)
      /\ RulesOfTomorrow \in Seq(S)
  BY <1>1, <1>4, SeqMonotonic
<1> QED
  BY <1>3, <1>5, ThreeParts, Zenon DEF RulesInOrder

LEMMA InOrder ==
    /\ SomeSeq(RulesInOrder) /\ Len(RulesInOrder) = 40
    /\ \A k \in 1..13 : RulesInOrder[k] = RulesOfTheTime[k]
    /\ \A k \in 1..13 : RulesInOrder[13 + k] = RulesOfTheDay[k]
    /\ \A k \in 1..14 : RulesInOrder[26 + k] = RulesOfTomorrow[k]
<1>1. PICK m \in Nat, n \in Nat : m = 13 /\ n = 14
  OBVIOUS
<1>2. Laid(RulesInOrder, RulesOfTheTime, RulesOfTheDay, RulesOfTomorrow, m, n)
  BY <1>1, InOrderAre, Zenon
<1>3. m + m + n = 40 /\ m + m = 26
  BY <1>1
<1>4. Len(RulesInOrder) = 40
  BY <1>2, <1>3, Zenon DEF Laid
<1>5. SomeSeq(RulesInOrder)
  BY <1>2, Zenon DEF Laid
<1>6. /\ \A k \in 1..13 : RulesInOrder[k] = RulesOfTheTime[k]
      /\ \A k \in 1..13 : RulesInOrder[13 + k] = RulesOfTheDay[k]
  BY <1>1, <1>2, Zenon DEF Laid
<1>7. \A k \in 1..n : RulesInOrder[26 + k] = RulesOfTomorrow[k]
  BY <1>2, <1>3, Zenon DEF Laid
<1>8. \A k \in 1..14 : RulesInOrder[26 + k] = RulesOfTomorrow[k]
  BY <1>1, <1>7, Zenon
<1> QED
  BY <1>4, <1>5, <1>6, <1>8, Zenon

LEMMA PhrasesAre ==
    ASSUME NEW k \in 1..40
    PROVE  \A p \in RulesInOrder[k].phrases : RulePhrase(p)
<1>1. CASE k \in 1..13
  <2>1. RulesInOrder[k] = RulesOfTheTime[k] /\ Meets(RulesOfTheTime[k], TimeDemands[k], {})
    BY <1>1, InOrder, RulesOfTheTimeMeet, Zenon
  <2> QED
    BY <2>1, Zenon DEF Meets
<1>2. CASE k \notin 1..13 /\ k \in 1..26
  <2>1. PICK i : i = k - 13
    OBVIOUS
  <2>2. i \in 1..13 /\ k = 13 + i
    BY <1>2, <2>1
  <2>3. RulesInOrder[k] = RulesOfTheDay[i] /\ Meets(RulesOfTheDay[i], DayDemands[i], {})
    BY <2>2, InOrder, RulesOfTheDayMeet, Zenon
  <2> QED
    BY <2>3, Zenon DEF Meets
<1>3. CASE k \notin 1..26
  <2>1. PICK i : i = k - 26
    OBVIOUS
  <2>2. i \in 1..14 /\ k = 26 + i
    BY <1>3, <2>1
  <2>3. /\ RulesInOrder[k] = RulesOfTomorrow[i]
        /\ Meets(RulesOfTomorrow[i], TomorrowDemands[i], {})
    BY <2>2, InOrder, RulesOfTomorrowMeet, Zenon
  <2> QED
    BY <2>3, Zenon DEF Meets
<1> QED
  BY <1>1, <1>2, <1>3, Zenon

\* The words of a phrase.
LEMMA NotEmpty ==
    ASSUME NEW s, Len(s) > 0
    PROVE  s # <<>>
OBVIOUS

LEMMA DomainIs ==
    ASSUME NEW a, NEW n, SomeSeq(a), Len(a) = n
    PROVE  n \in Nat /\ DOMAIN a = 1..n
<1>1. PICK S : a \in Seq(S)
  BY DEF SomeSeq
<1> QED
  BY <1>1

LEMMA AllRules == 40 \in Nat /\ DOMAIN RulesInOrder = 1..40
<1>1. SomeSeq(RulesInOrder) /\ Len(RulesInOrder) = 40
  BY InOrder, Zenon
<1> QED
  BY <1>1, DomainIs, Zenon

LEMMA Appended ==
    ASSUME NEW a, NEW n, NEW m, NEW x, NEW b,
           SomeSeq(a), Len(a) = n, m = n + 1, b = Append(a, x)
    PROVE  /\ DOMAIN b = 1..m /\ b[m] = x
           /\ \A k \in 1..n : b[k] = a[k]
<1>1. PICK S : a \in Seq(S)
  BY DEF SomeSeq
<1>2. PICK T : T = S \cup {x}
  OBVIOUS
<1>3. a \in Seq(T) /\ x \in T
  BY <1>1, <1>2, SeqMonotonic
<1> QED
  BY <1>3

LEMMA Indices ==
    ASSUME NEW n \in Nat
    PROVE  /\ \A j \in 1..n : \A k \in 1..(j - 1) : k \in 1..n
           /\ \E m \in Nat : /\ m = n + 1 /\ m \in 1..m /\ 1..(m - 1) = 1..n
                             /\ \A k \in 1..m : k \in 1..n \/ k = m
OBVIOUS

\* The j-th of n rules is the first that may replace something, and replaces all.
FirstRule(words, e, at, rules, n, j, v) ==
    /\ SomeSeq(words) /\ words # <<>>
    /\ n \in Nat /\ rules = RulesFor(words, e) /\ DOMAIN rules = 1..n
    /\ \A k \in 1..n : \A p \in rules[k].phrases : RulePhrase(p)
    /\ j \in 1..n /\ words \in rules[j].phrases
    /\ \A k \in 1..(j - 1) : ~Fits(rules[k], WordsIn(words))
    /\ v = Resolved(words, rules[j], e, at) /\ v # Untouched

LEMMA FirstRuleOnly ==
    ASSUME NEW words, NEW e, NEW at, NEW rules, NEW n, NEW j, NEW v,
           FirstRule(words, e, at, rules, n, j, v)
    PROVE  Values(ProcessMessage(words, e, at)) = <<v>>
<1>1. PICK V : words \in Seq(V)
  BY Zenon DEF FirstRule, SomeSeq
<1>2. n \in Nat /\ words # <<>> /\ rules = RulesFor(words, e) /\ DOMAIN rules = 1..n
  BY Zenon DEF FirstRule
<1>3. \A k \in 1..n : \A p \in rules[k].phrases : RulePhrase(p)
  BY Zenon DEF FirstRule
<1>4. j \in 1..n /\ words \in rules[j].phrases
  BY Zenon DEF FirstRule
<1>5. \A k \in 1..(j - 1) : ~Fits(rules[k], WordsIn(words))
  BY Zenon DEF FirstRule
<1>6. v = Resolved(words, rules[j], e, at) /\ v # Untouched
  BY Zenon DEF FirstRule
<1> QED
  BY <1>1, <1>2, <1>3, <1>4, <1>5, <1>6, OnlyRule

\* The j-th rule has words among its phrases, and none before it fits.
FirstFits(words, j) ==
    /\ j \in 1..40 /\ words \in RulesInOrder[j].phrases
    /\ \A k \in 1..(j - 1) : ~Fits(RulesInOrder[k], WordsIn(words))

\* A message with words, and no tag of its own.
IsPhrase(words) == SomeSeq(words) /\ words # <<>>
Untagged(e) == e.tag = ""

\* A message that is a phrase of a rule, with words no rule before it makes do with.
LEMMA PhraseMeans ==
    ASSUME NEW words, IsPhrase(words), NEW e, Untagged(e), NEW at,
           NEW j, FirstFits(words, j),
           NEW v, v = Resolved(words, RulesInOrder[j], e, at), v # Untouched
    PROVE  Values(ProcessMessage(words, e, at)) = <<v>>
<1>1. RulesInOrder = RulesFor(words, e)
  BY Zenon DEF RulesFor, Untagged
<1>2. 40 \in Nat /\ DOMAIN RulesInOrder = 1..40
  BY AllRules, Zenon
<1>3. \A k \in 1..40 : \A p \in RulesInOrder[k].phrases : RulePhrase(p)
  BY PhrasesAre, Zenon
<1>4. SomeSeq(words) /\ words # <<>>
  BY Zenon DEF IsPhrase
<1>5. /\ j \in 1..40 /\ words \in RulesInOrder[j].phrases
      /\ \A k \in 1..(j - 1) : ~Fits(RulesInOrder[k], WordsIn(words))
  BY Zenon DEF FirstFits
<1>6. FirstRule(words, e, at, RulesInOrder, 40, j, v)
  BY <1>1, <1>2, <1>3, <1>4, <1>5, Zenon DEF FirstRule
<1> QED
  BY <1>6, FirstRuleOnly, Zenon

\* The n = 40 rules of every message, and own as the m-th.
OwnRuleAt(rules, own, n, m) ==
    /\ n = 40 /\ 1..(m - 1) = 1..n /\ DOMAIN rules = 1..m
    /\ m \in 1..m /\ \A k \in 1..m : k \in 1..n \/ k = m
    /\ rules[m] = own /\ \A k \in 1..n : rules[k] = RulesInOrder[k]

LEMMA WithOwnRule ==
    ASSUME NEW own, NEW rules, rules = Append(RulesInOrder, own)
    PROVE  \E n, m \in Nat : OwnRuleAt(rules, own, n, m)
<1>1. PICK n : n = 40 /\ n \in Nat
  BY InOrder, DomainIs, Zenon
<1>2. SomeSeq(RulesInOrder) /\ Len(RulesInOrder) = n
  BY <1>1, InOrder, Zenon
<1>3. PICK m \in Nat : /\ m = n + 1 /\ m \in 1..m /\ 1..(m - 1) = 1..n
                       /\ \A k \in 1..m : k \in 1..n \/ k = m
  BY <1>1, Indices, Zenon
<1>4. DOMAIN rules = 1..m /\ rules[m] = own /\ \A k \in 1..n : rules[k] = RulesInOrder[k]
  BY <1>2, <1>3, Appended
<1> QED
  BY <1>1, <1>3, <1>4, Zenon DEF OwnRuleAt

\* A message with a tag of its own, and words that no other rule makes do with.
LEMMA TagMeans ==
    ASSUME NEW words, RulePhrase(words), NEW e, e.tag # "", NEW at,
           \A k \in 1..40 : ~Fits(RulesInOrder[k], WordsIn(words)),
           NEW v, v = Resolved(words, Rule(e.tag, {words}), e, at), v # Untouched
    PROVE  Values(ProcessMessage(words, e, at)) = <<v>>
<1>1. PICK own : own = Rule(e.tag, {words})
  OBVIOUS
<1>2. PICK rules : rules = Append(RulesInOrder, own)
  OBVIOUS
<1>3. rules = RulesFor(words, e)
  BY <1>1, <1>2, Zenon DEF RulesFor
<1>4. PICK n, m \in Nat : OwnRuleAt(rules, own, n, m)
  BY <1>2, WithOwnRule, Zenon
<1>5. own.phrases = {words}
  BY <1>1 DEF Rule
<1>6. ASSUME NEW k \in 1..n
      PROVE  /\ \A p \in rules[k].phrases : RulePhrase(p)
             /\ ~Fits(rules[k], WordsIn(words))
  <2>1. k \in 1..40 /\ rules[k] = RulesInOrder[k]
    BY <1>4, Zenon DEF OwnRuleAt
  <2> QED
    BY <2>1, PhrasesAre, Zenon
<1>7. \A k \in 1..m : \A p \in rules[k].phrases : RulePhrase(p)
  <2>1. ASSUME NEW k \in 1..m, NEW p \in rules[k].phrases PROVE RulePhrase(p)
    <3>1. CASE k = m
      BY <1>4, <1>5, <3>1, Zenon DEF OwnRuleAt
    <3>2. CASE k \in 1..n
      BY <1>6, <3>2, Zenon
    <3> QED
      BY <1>4, <3>1, <3>2, Zenon DEF OwnRuleAt
  <2> QED
    BY <2>1, Zenon
<1>8. \A k \in 1..(m - 1) : ~Fits(rules[k], WordsIn(words))
  <2>1. \A k \in 1..n : ~Fits(rules[k], WordsIn(words))
    BY <1>6, Zenon
  <2> QED
    BY <1>4, <2>1, Zenon DEF OwnRuleAt
<1>9. SomeSeq(words) /\ words # <<>>
  BY NotEmpty, Zenon DEF RulePhrase
<1>10. words \in rules[m].phrases /\ v = Resolved(words, rules[m], e, at)
  BY <1>1, <1>4, <1>5, words \in {words}, Zenon DEF OwnRuleAt
<1>11. m \in Nat /\ m \in 1..m /\ DOMAIN rules = 1..m
  BY <1>4, Zenon DEF OwnRuleAt
<1>12. FirstRule(words, e, at, rules, m, m, v)
  BY <1>3, <1>7, <1>8, <1>9, <1>10, <1>11, Zenon DEF FirstRule
<1> QED
  BY <1>12, FirstRuleOnly, Zenon

-----------------------------------------------------------------------------
(* The rule for each phrase *)
\* Which of the 40 rules is the first that fits each phrase of the texts.

\* The first n rules of a table make do without the words said.
Idle(demands, n, said) == \A k \in 1..n : ~(demands[k] \subseteq said)

\* A rule of a table comes first if the tables before it, and the rules before
\* it in its own, make do without the words.
LEMMA FirstOfTime ==
    ASSUME NEW words, NEW j \in 1..13, words \in RulesOfTheTime[j].phrases,
           \A k \in 1..(j - 1) : ~Fits(RulesOfTheTime[k], WordsIn(words))
    PROVE  FirstFits(words, j)
<1>1. j \in 1..40 /\ \A k \in 1..(j - 1) : k \in 1..13
  OBVIOUS
<1>2. words \in RulesInOrder[j].phrases
  BY InOrder, Zenon
<1>3. \A k \in 1..(j - 1) : RulesInOrder[k] = RulesOfTheTime[k]
  BY <1>1, InOrder, Zenon
<1>4. \A k \in 1..(j - 1) : ~Fits(RulesInOrder[k], WordsIn(words))
  BY <1>3, Zenon
<1> QED
  BY <1>1, <1>2, <1>4, Zenon DEF FirstFits

LEMMA TimeIdle ==
    ASSUME NEW said, Idle(TimeDemands, 13, said), NEW k \in 1..13
    PROVE  ~Fits(RulesInOrder[k], said)
<1>1. ~(TimeDemands[k] \subseteq said)
  BY Zenon DEF Idle
<1>2. RulesInOrder[k] = RulesOfTheTime[k]
  BY InOrder, Zenon
<1>3. Meets(RulesOfTheTime[k], TimeDemands[k], said)
  BY RulesOfTheTimeMeet, Zenon
<1> QED
  BY <1>1, <1>2, <1>3, Zenon DEF Meets

LEMMA DayIdle ==
    ASSUME NEW said, NEW n, Idle(DayDemands, n, said), NEW k \in 1..n, k \in 1..13
    PROVE  ~Fits(RulesInOrder[13 + k], said)
<1>1. ~(DayDemands[k] \subseteq said)
  BY Zenon DEF Idle
<1>2. RulesInOrder[13 + k] = RulesOfTheDay[k]
  BY InOrder, Zenon
<1>3. Meets(RulesOfTheDay[k], DayDemands[k], said)
  BY RulesOfTheDayMeet, Zenon
<1> QED
  BY <1>1, <1>2, <1>3, Zenon DEF Meets

LEMMA TomorrowIdle ==
    ASSUME NEW said, NEW n, Idle(TomorrowDemands, n, said), NEW k \in 1..n, k \in 1..14
    PROVE  ~Fits(RulesInOrder[26 + k], said)
<1>1. ~(TomorrowDemands[k] \subseteq said)
  BY Zenon DEF Idle
<1>2. RulesInOrder[26 + k] = RulesOfTomorrow[k]
  BY InOrder, Zenon
<1>3. Meets(RulesOfTomorrow[k], TomorrowDemands[k], said)
  BY RulesOfTomorrowMeet, Zenon
<1> QED
  BY <1>1, <1>2, <1>3, Zenon DEF Meets

LEMMA FirstOfDay ==
    ASSUME NEW words, NEW n \in 0..12, words \in RulesOfTheDay[n + 1].phrases,
           Idle(TimeDemands, 13, WordsIn(words)), Idle(DayDemands, n, WordsIn(words))
    PROVE  FirstFits(words, 13 + (n + 1))
<1> DEFINE j == 13 + (n + 1)
<1>1. n + 1 \in 1..13 /\ j \in 1..40
  OBVIOUS
<1>2. words \in RulesInOrder[j].phrases
  BY <1>1, InOrder, Zenon
<1>3. ASSUME NEW k \in 1..(j - 1) PROVE ~Fits(RulesInOrder[k], WordsIn(words))
  <2>1. CASE k \in 1..13
    BY <2>1, TimeIdle, Zenon
  <2>2. CASE k \notin 1..13
    <3>1. PICK i : i = k - 13
      OBVIOUS
    <3>2. i \in 1..n /\ i \in 1..13 /\ k = 13 + i
      BY <2>2, <3>1
    <3> QED
      BY <3>2, DayIdle, Zenon
  <2> QED
    BY <2>1, <2>2, Zenon
<1> HIDE DEF j
<1>4. FirstFits(words, j)
  BY <1>1, <1>2, <1>3, Zenon DEF FirstFits
<1> QED
  BY <1>4 DEF j

LEMMA FirstOfTomorrow ==
    ASSUME NEW words, NEW n \in 0..13, words \in RulesOfTomorrow[n + 1].phrases,
           Idle(TimeDemands, 13, WordsIn(words)), Idle(DayDemands, 13, WordsIn(words)),
           Idle(TomorrowDemands, n, WordsIn(words))
    PROVE  FirstFits(words, 26 + (n + 1))
<1> DEFINE j == 26 + (n + 1)
<1>1. n + 1 \in 1..14 /\ j \in 1..40
  OBVIOUS
<1>2. words \in RulesInOrder[j].phrases
  BY <1>1, InOrder, Zenon
<1>3. ASSUME NEW k \in 1..(j - 1) PROVE ~Fits(RulesInOrder[k], WordsIn(words))
  <2>1. CASE k \in 1..13
    BY <2>1, TimeIdle, Zenon
  <2>2. CASE k \notin 1..13 /\ k \in 1..26
    <3>1. PICK i : i = k - 13
      OBVIOUS
    <3>2. i \in 1..13 /\ k = 13 + i
      BY <2>2, <3>1
    <3> QED
      BY <3>2, DayIdle, Zenon
  <2>3. CASE k \notin 1..26
    <3>1. PICK i : i = k - 26
      OBVIOUS
    <3>2. i \in 1..n /\ i \in 1..14 /\ k = 26 + i
      BY <2>3, <3>1
    <3> QED
      BY <3>2, TomorrowIdle, Zenon
  <2> QED
    BY <2>1, <2>2, <2>3, Zenon
<1> HIDE DEF j
<1>4. FirstFits(words, j)
  BY <1>1, <1>2, <1>3, Zenon DEF FirstFits
<1> QED
  BY <1>4 DEF j

LEMMA NoneFits ==
    ASSUME NEW said, Idle(TimeDemands, 13, said), Idle(DayDemands, 13, said),
           Idle(TomorrowDemands, 14, said), NEW k \in 1..40
    PROVE  ~Fits(RulesInOrder[k], said)
<1>1. CASE k \in 1..13
  BY <1>1, TimeIdle, Zenon
<1>2. CASE k \notin 1..13 /\ k \in 1..26
  <2>1. PICK i : i = k - 13
    OBVIOUS
  <2>2. i \in 1..13 /\ k = 13 + i
    BY <1>2, <2>1
  <2> QED
    BY <2>2, DayIdle, Zenon
<1>3. CASE k \notin 1..26
  <2>1. PICK i : i = k - 26
    OBVIOUS
  <2>2. i \in 1..14 /\ k = 26 + i
    BY <1>3, <2>1
  <2> QED
    BY <2>2, TomorrowIdle, Zenon
<1> QED
  BY <1>1, <1>2, <1>3, Zenon

LEMMA FirstAfterWeekday ==
    ASSUME NEW words, NEW said, said = WordsIn(words),
           NEW j \in 1..13, words \in RulesOfTheTime[j].phrases,
           ~Fits(RulesOfTheTime[1], said),
           \A k \in 2..(j - 1) : ~(TimeDemands[k] \subseteq said)
    PROVE  FirstFits(words, j)
<1>1. \A k \in 1..(j - 1) : k \in 1..13 /\ (k = 1 \/ k \in 2..(j - 1))
  OBVIOUS
<1>2. ASSUME NEW k \in 1..(j - 1) PROVE ~Fits(RulesOfTheTime[k], WordsIn(words))
  <2>1. CASE k = 1
    BY <2>1, Zenon
  <2>2. CASE k \in 2..(j - 1)
    <3>1. Meets(RulesOfTheTime[k], TimeDemands[k], WordsIn(words))
      BY <1>1, RulesOfTheTimeMeet, Zenon
    <3> QED
      BY <2>2, <3>1, Zenon DEF Meets
  <2> QED
    BY <1>1, <2>1, <2>2, Zenon
<1> QED
  BY <1>1, <1>2, FirstOfTime, Zenon

LEMMA WeekdayIdle ==
    ASSUME NEW said, "last" \notin said, "next" \notin said, "this" \notin said,
           "previous" \notin said
    PROVE  ~Fits(RulesOfTheTime[1], said)
<1>1. ASSUME NEW rule,
             rule = Rule("relative_day_of_week",
                         {<<d, "friday">> : d \in {"last", "next", "this", "previous"}})
      PROVE  ~Fits(rule, said)
  BY <1>1 DEF Rule, Fits
<1> QED
  BY <1>1 DEF RulesOfTheTime

\* Which rule is the first for a phrase.
LEMMA RelativeFriday ==
    ASSUME NEW d \in {"last", "next", "this", "previous"}
    PROVE  FirstFits(<<d, "friday">>, 1)
<1>1. <<d, "friday">> \in RulesOfTheTime[1].phrases
  BY DEF RulesOfTheTime, Rule
<1>2. 1 \in 1..13 /\ \A k \in 1..(1 - 1) : ~Fits(RulesOfTheTime[k], WordsIn(<<d, "friday">>))
  OBVIOUS
<1> QED
  BY <1>1, <1>2, FirstOfTime, Zenon

LEMMA ComingFriday == FirstFits(<<"coming", "friday">>, 2)
<1>1. <<"coming", "friday">> \in RulesOfTheTime[2].phrases
  BY DEF RulesOfTheTime, Rule
<1>2. WordsIn(<<"coming", "friday">>) = {"coming", "friday"}
  BY DEF WordsIn
<1>3. ~Fits(RulesOfTheTime[1], {"coming", "friday"})
  BY WeekdayIdle
<1>4. \A k \in 2..(2 - 1) : ~(TimeDemands[k] \subseteq {"coming", "friday"})
  BY DEF TimeDemands
<1>5. 2 \in 1..13
  OBVIOUS
<1> QED
  BY <1>1, <1>2, <1>3, <1>4, <1>5, FirstAfterWeekday, Zenon

LEMMA DaysFromNow == FirstFits(<<"3", "days", "from", "now">>, 3)
<1>1. <<"3", "days", "from", "now">> \in RulesOfTheTime[3].phrases
  BY DEF RulesOfTheTime, Rule
<1>2. WordsIn(<<"3", "days", "from", "now">>) = {"3", "days", "from", "now"}
  BY DEF WordsIn
<1>3. ~Fits(RulesOfTheTime[1], {"3", "days", "from", "now"})
  BY WeekdayIdle
<1>4. \A k \in 2..(3 - 1) : ~(TimeDemands[k] \subseteq {"3", "days", "from", "now"})
  BY DEF TimeDemands
<1>5. 3 \in 1..13
  OBVIOUS
<1> QED
  BY <1>1, <1>2, <1>3, <1>4, <1>5, FirstAfterWeekday, Zenon

LEMMA OnFriday == FirstFits(<<"on", "friday">>, 4)
<1>1. <<"on", "friday">> \in RulesOfTheTime[4].phrases
  BY DEF RulesOfTheTime, Rule
<1>2. WordsIn(<<"on", "friday">>) = {"on", "friday"}
  BY DEF WordsIn
<1>3. ~Fits(RulesOfTheTime[1], {"on", "friday"})
  BY WeekdayIdle
<1>4. \A k \in 2..(4 - 1) : ~(TimeDemands[k] \subseteq {"on", "friday"})
  BY DEF TimeDemands
<1>5. 4 \in 1..13
  OBVIOUS
<1> QED
  BY <1>1, <1>2, <1>3, <1>4, <1>5, FirstAfterWeekday, Zenon

LEMMA AtTheTime == FirstFits(<<"at", "3:15", "am/pm">>, 5)
<1>1. <<"at", "3:15", "am/pm">> \in RulesOfTheTime[5].phrases
  BY DEF RulesOfTheTime, Rule
<1>2. WordsIn(<<"at", "3:15", "am/pm">>) = {"at", "3:15", "am/pm"}
  BY DEF WordsIn
<1>3. ~Fits(RulesOfTheTime[1], {"at", "3:15", "am/pm"})
  BY WeekdayIdle
<1>4. \A k \in 2..(5 - 1) : ~(TimeDemands[k] \subseteq {"at", "3:15", "am/pm"})
  BY DEF TimeDemands
<1>5. 5 \in 1..13
  OBVIOUS
<1> QED
  BY <1>1, <1>2, <1>3, <1>4, <1>5, FirstAfterWeekday, Zenon

LEMMA QuarterTo == FirstFits(<<"quarter", "to", "3", "am/pm">>, 6)
<1>1. <<"quarter", "to", "3", "am/pm">> \in RulesOfTheTime[6].phrases
  BY DEF RulesOfTheTime, Rule
<1>2. WordsIn(<<"quarter", "to", "3", "am/pm">>) = {"quarter", "to", "3", "am/pm"}
  BY DEF WordsIn
<1>3. ~Fits(RulesOfTheTime[1], {"quarter", "to", "3", "am/pm"})
  BY WeekdayIdle
<1>4. \A k \in 2..(6 - 1) : ~(TimeDemands[k] \subseteq {"quarter", "to", "3", "am/pm"})
  BY DEF TimeDemands
<1>5. 6 \in 1..13
  OBVIOUS
<1> QED
  BY <1>1, <1>2, <1>3, <1>4, <1>5, FirstAfterWeekday, Zenon

LEMMA QuarterToBare == FirstFits(<<"quarter", "to", "3">>, 6)
<1>1. <<"quarter", "to", "3">> \in RulesOfTheTime[6].phrases
  BY DEF RulesOfTheTime, Rule
<1>2. WordsIn(<<"quarter", "to", "3">>) = {"quarter", "to", "3"}
  BY DEF WordsIn
<1>3. ~Fits(RulesOfTheTime[1], {"quarter", "to", "3"})
  BY WeekdayIdle
<1>4. \A k \in 2..(6 - 1) : ~(TimeDemands[k] \subseteq {"quarter", "to", "3"})
  BY DEF TimeDemands
<1>5. 6 \in 1..13
  OBVIOUS
<1> QED
  BY <1>1, <1>2, <1>3, <1>4, <1>5, FirstAfterWeekday, Zenon

LEMMA QuarterPast == FirstFits(<<"quarter", "past", "3", "am/pm">>, 7)
<1>1. <<"quarter", "past", "3", "am/pm">> \in RulesOfTheTime[7].phrases
  BY DEF RulesOfTheTime, Rule
<1>2. WordsIn(<<"quarter", "past", "3", "am/pm">>) = {"quarter", "past", "3", "am/pm"}
  BY DEF WordsIn
<1>3. ~Fits(RulesOfTheTime[1], {"quarter", "past", "3", "am/pm"})
  BY WeekdayIdle
<1>4. \A k \in 2..(7 - 1) : ~(TimeDemands[k] \subseteq {"quarter", "past", "3", "am/pm"})
  BY DEF TimeDemands
<1>5. 7 \in 1..13
  OBVIOUS
<1> QED
  BY <1>1, <1>2, <1>3, <1>4, <1>5, FirstAfterWeekday, Zenon

LEMMA QuarterPastBare == FirstFits(<<"quarter", "past", "3">>, 7)
<1>1. <<"quarter", "past", "3">> \in RulesOfTheTime[7].phrases
  BY DEF RulesOfTheTime, Rule
<1>2. WordsIn(<<"quarter", "past", "3">>) = {"quarter", "past", "3"}
  BY DEF WordsIn
<1>3. ~Fits(RulesOfTheTime[1], {"quarter", "past", "3"})
  BY WeekdayIdle
<1>4. \A k \in 2..(7 - 1) : ~(TimeDemands[k] \subseteq {"quarter", "past", "3"})
  BY DEF TimeDemands
<1>5. 7 \in 1..13
  OBVIOUS
<1> QED
  BY <1>1, <1>2, <1>3, <1>4, <1>5, FirstAfterWeekday, Zenon

LEMMA TheTime ==
    ASSUME NEW w \in {"3:15", "3"}
    PROVE  FirstFits(<<w, "am/pm">>, 8)
<1>1. <<w, "am/pm">> \in RulesOfTheTime[8].phrases
  BY DEF RulesOfTheTime, Rule
<1>2. WordsIn(<<w, "am/pm">>) = {w, "am/pm"}
  BY DEF WordsIn
<1>3. ~Fits(RulesOfTheTime[1], {w, "am/pm"})
  BY WeekdayIdle
<1>4. \A k \in 2..(8 - 1) : ~(TimeDemands[k] \subseteq {w, "am/pm"})
  BY DEF TimeDemands
<1>5. 8 \in 1..13
  OBVIOUS
<1> QED
  BY <1>1, <1>2, <1>3, <1>4, <1>5, FirstAfterWeekday, Zenon

LEMMA Friday == FirstFits(<<"friday">>, 10)
<1>1. <<"friday">> \in RulesOfTheTime[10].phrases
  BY DEF RulesOfTheTime, Rule
<1>2. WordsIn(<<"friday">>) = {"friday"}
  BY DEF WordsIn
<1>3. ~Fits(RulesOfTheTime[1], {"friday"})
  BY WeekdayIdle
<1>4. \A k \in 2..(10 - 1) : ~(TimeDemands[k] \subseteq {"friday"})
  BY DEF TimeDemands
<1>5. 10 \in 1..13
  OBVIOUS
<1> QED
  BY <1>1, <1>2, <1>3, <1>4, <1>5, FirstAfterWeekday, Zenon

LEMMA HalfPast == FirstFits(<<"half", "past", "3">>, 11)
<1>1. <<"half", "past", "3">> \in RulesOfTheTime[11].phrases
  BY DEF RulesOfTheTime, Rule
<1>2. WordsIn(<<"half", "past", "3">>) = {"half", "past", "3"}
  BY DEF WordsIn
<1>3. ~Fits(RulesOfTheTime[1], {"half", "past", "3"})
  BY WeekdayIdle
<1>4. \A k \in 2..(11 - 1) : ~(TimeDemands[k] \subseteq {"half", "past", "3"})
  BY DEF TimeDemands
<1>5. 11 \in 1..13
  OBVIOUS
<1> QED
  BY <1>1, <1>2, <1>3, <1>4, <1>5, FirstAfterWeekday, Zenon

LEMMA BeforeYesterday == FirstFits(<<"the", "day", "before", "yesterday">>, 14)
<1>1. <<"the", "day", "before", "yesterday">> \in RulesOfTheDay[0 + 1].phrases
  BY DEF RulesOfTheDay, Rule
<1>2. WordsIn(<<"the", "day", "before", "yesterday">>) = {"the", "day", "before", "yesterday"}
  BY DEF WordsIn
<1>3. Idle(TimeDemands, 13, {"the", "day", "before", "yesterday"})
  BY DEF Idle, TimeDemands
<1>4. Idle(DayDemands, 0, {"the", "day", "before", "yesterday"})
  BY DEF Idle, DayDemands
<1>5. 0 \in 0..12 /\ 13 + (0 + 1) = 14
  OBVIOUS
<1> QED
  BY <1>1, <1>2, <1>3, <1>4, <1>5, FirstOfDay

LEMMA FortnightFromNow == FirstFits(<<"a", "fortnight", "from", "now">>, 15)
<1>1. <<"a", "fortnight", "from", "now">> \in RulesOfTheDay[1 + 1].phrases
  BY DEF RulesOfTheDay, Rule
<1>2. WordsIn(<<"a", "fortnight", "from", "now">>) = {"a", "fortnight", "from", "now"}
  BY DEF WordsIn
<1>3. Idle(TimeDemands, 13, {"a", "fortnight", "from", "now"})
  BY DEF Idle, TimeDemands
<1>4. Idle(DayDemands, 1, {"a", "fortnight", "from", "now"})
  BY DEF Idle, DayDemands
<1>5. 1 \in 0..12 /\ 13 + (1 + 1) = 15
  OBVIOUS
<1> QED
  BY <1>1, <1>2, <1>3, <1>4, <1>5, FirstOfDay

LEMMA AfterTomorrow == FirstFits(<<"the", "day", "after", "tomorrow">>, 16)
<1>1. <<"the", "day", "after", "tomorrow">> \in RulesOfTheDay[2 + 1].phrases
  BY DEF RulesOfTheDay, Rule
<1>2. WordsIn(<<"the", "day", "after", "tomorrow">>) = {"the", "day", "after", "tomorrow"}
  BY DEF WordsIn
<1>3. Idle(TimeDemands, 13, {"the", "day", "after", "tomorrow"})
  BY DEF Idle, TimeDemands
<1>4. Idle(DayDemands, 2, {"the", "day", "after", "tomorrow"})
  BY DEF Idle, DayDemands
<1>5. 2 \in 0..12 /\ 13 + (2 + 1) = 16
  OBVIOUS
<1> QED
  BY <1>1, <1>2, <1>3, <1>4, <1>5, FirstOfDay

LEMMA FirstThing == FirstFits(<<"first", "thing", "in", "the", "morning">>, 17)
<1>1. <<"first", "thing", "in", "the", "morning">> \in RulesOfTheDay[3 + 1].phrases
  BY DEF RulesOfTheDay, Rule
<1>2. WordsIn(<<"first", "thing", "in", "the", "morning">>)
        = {"first", "thing", "in", "the", "morning"}
  BY DEF WordsIn
<1>3. Idle(TimeDemands, 13, {"first", "thing", "in", "the", "morning"})
  BY DEF Idle, TimeDemands
<1>4. Idle(DayDemands, 3, {"first", "thing", "in", "the", "morning"})
  BY DEF Idle, DayDemands
<1>5. 3 \in 0..12 /\ 13 + (3 + 1) = 17
  OBVIOUS
<1> QED
  BY <1>1, <1>2, <1>3, <1>4, <1>5, FirstOfDay

LEMMA YesterdayAfternoon == FirstFits(<<"yesterday", "afternoon">>, 18)
<1>1. <<"yesterday", "afternoon">> \in RulesOfTheDay[4 + 1].phrases
  BY DEF RulesOfTheDay, Rule
<1>2. WordsIn(<<"yesterday", "afternoon">>) = {"yesterday", "afternoon"}
  BY DEF WordsIn
<1>3. Idle(TimeDemands, 13, {"yesterday", "afternoon"})
  BY DEF Idle, TimeDemands
<1>4. Idle(DayDemands, 4, {"yesterday", "afternoon"})
  BY DEF Idle, DayDemands
<1>5. 4 \in 0..12 /\ 13 + (4 + 1) = 18
  OBVIOUS
<1> QED
  BY <1>1, <1>2, <1>3, <1>4, <1>5, FirstOfDay

LEMMA EndOfDay == FirstFits(<<"end", "of", "day">>, 19)
<1>1. <<"end", "of", "day">> \in RulesOfTheDay[5 + 1].phrases
  BY DEF RulesOfTheDay, Rule
<1>2. WordsIn(<<"end", "of", "day">>) = {"end", "of", "day"}
  BY DEF WordsIn
<1>3. Idle(TimeDemands, 13, {"end", "of", "day"})
  BY DEF Idle, TimeDemands
<1>4. Idle(DayDemands, 5, {"end", "of", "day"})
  BY DEF Idle, DayDemands
<1>5. 5 \in 0..12 /\ 13 + (5 + 1) = 19
  OBVIOUS
<1> QED
  BY <1>1, <1>2, <1>3, <1>4, <1>5, FirstOfDay

LEMMA Yesterday == FirstFits(<<"yesterday">>, 22)
<1>1. <<"yesterday">> \in RulesOfTheDay[8 + 1].phrases
  BY DEF RulesOfTheDay, Rule
<1>2. WordsIn(<<"yesterday">>) = {"yesterday"}
  BY DEF WordsIn
<1>3. Idle(TimeDemands, 13, {"yesterday"})
  BY DEF Idle, TimeDemands
<1>4. Idle(DayDemands, 8, {"yesterday"})
  BY DEF Idle, DayDemands
<1>5. 8 \in 0..12 /\ 13 + (8 + 1) = 22
  OBVIOUS
<1> QED
  BY <1>1, <1>2, <1>3, <1>4, <1>5, FirstOfDay

LEMMA TomorrowNight == FirstFits(<<"tomorrow", "night">>, 31)
<1>1. <<"tomorrow", "night">> \in RulesOfTomorrow[4 + 1].phrases
  BY DEF RulesOfTomorrow, Rule
<1>2. WordsIn(<<"tomorrow", "night">>) = {"tomorrow", "night"}
  BY DEF WordsIn
<1>3. Idle(TimeDemands, 13, {"tomorrow", "night"})
  BY DEF Idle, TimeDemands
<1>4. Idle(DayDemands, 13, {"tomorrow", "night"})
  BY DEF Idle, DayDemands
<1>5. Idle(TomorrowDemands, 4, {"tomorrow", "night"})
  BY DEF Idle, TomorrowDemands
<1>6. 4 \in 0..13 /\ 26 + (4 + 1) = 31
  OBVIOUS
<1> QED
  BY <1>1, <1>2, <1>3, <1>4, <1>5, <1>6, FirstOfTomorrow

LEMMA Tomorrow == FirstFits(<<"tomorrow">>, 38)
<1>1. <<"tomorrow">> \in RulesOfTomorrow[11 + 1].phrases
  BY DEF RulesOfTomorrow, Rule
<1>2. WordsIn(<<"tomorrow">>) = {"tomorrow"}
  BY DEF WordsIn
<1>3. Idle(TimeDemands, 13, {"tomorrow"})
  BY DEF Idle, TimeDemands
<1>4. Idle(DayDemands, 13, {"tomorrow"})
  BY DEF Idle, DayDemands
<1>5. Idle(TomorrowDemands, 11, {"tomorrow"})
  BY DEF Idle, TomorrowDemands
<1>6. 11 \in 0..13 /\ 26 + (11 + 1) = 38
  OBVIOUS
<1> QED
  BY <1>1, <1>2, <1>3, <1>4, <1>5, <1>6, FirstOfTomorrow

LEMMA TodayIs == FirstFits(<<"today">>, 39)
<1>1. <<"today">> \in RulesOfTomorrow[12 + 1].phrases
  BY DEF RulesOfTomorrow, Rule
<1>2. WordsIn(<<"today">>) = {"today"}
  BY DEF WordsIn
<1>3. Idle(TimeDemands, 13, {"today"})
  BY DEF Idle, TimeDemands
<1>4. Idle(DayDemands, 13, {"today"})
  BY DEF Idle, DayDemands
<1>5. Idle(TomorrowDemands, 12, {"today"})
  BY DEF Idle, TomorrowDemands
<1>6. 12 \in 0..13 /\ 26 + (12 + 1) = 39
  OBVIOUS
<1> QED
  BY <1>1, <1>2, <1>3, <1>4, <1>5, <1>6, FirstOfTomorrow

-----------------------------------------------------------------------------
(* What is right *)
\* What Means asks of a phrase, by the words it has.

\* The days messages are dated on: late enough for the year before to be a year.
CalendarDays == {n \in Int : n >= 1000}

\* What the engine makes of the words is one value, and a right one, at any time.
DatedRight(words, e) ==
    \A at : at.day \in CalendarDays =>
       LET said == Values(ProcessMessage(words, e, at))
       IN  (\A k \in DOMAIN said : said[k] # Raised) =>
              Len(said) = 1 /\ Means(words, e, said[1], at.day)

\* A value that is right, unless its handler raised.
RightOrRaised(words, e, v, today) == v # Raised => Means(words, e, v, today)

\* A message that says one such value is dated right.
LEMMA OneUnlessRaised ==
    ASSUME NEW words, NEW e,
           \A at : at.day \in CalendarDays =>
              \E v : /\ Values(ProcessMessage(words, e, at)) = <<v>>
                    /\ RightOrRaised(words, e, v, at.day)
    PROVE  DatedRight(words, e)
<1>1. ASSUME NEW at, at.day \in CalendarDays,
             NEW said, said = Values(ProcessMessage(words, e, at))
      PROVE  (\A k \in DOMAIN said : said[k] # Raised)
                => Len(said) = 1 /\ Means(words, e, said[1], at.day)
  <2>1. PICK v : said = <<v>> /\ RightOrRaised(words, e, v, at.day)
    BY <1>1, Zenon
  <2>2. Len(<<v>>) = 1 /\ <<v>>[1] = v /\ 1 \in DOMAIN <<v>>
    OBVIOUS
  <2> QED
    BY <2>1, <2>2, Zenon DEF RightOrRaised
<1> QED
  BY <1>1, Zenon DEF DatedRight

\* A message that always says one right value is dated right.
LEMMA OneIsRight ==
    ASSUME NEW words, NEW e,
           \A at : at.day \in Int =>
              \E v : Values(ProcessMessage(words, e, at)) = <<v>> /\ Means(words, e, v, at.day)
    PROVE  DatedRight(words, e)
<1>1. \A n \in CalendarDays : n \in Int
  BY DEF CalendarDays
<1>2. ASSUME NEW v, NEW today, Means(words, e, v, today)
      PROVE  RightOrRaised(words, e, v, today)
  BY <1>2, Zenon DEF RightOrRaised
<1>3. ASSUME NEW at, at.day \in CalendarDays
      PROVE  \E v : /\ Values(ProcessMessage(words, e, at)) = <<v>>
                    /\ RightOrRaised(words, e, v, at.day)
  BY <1>1, <1>2, <1>3, Zenon
<1> QED
  BY <1>3, OneUnlessRaised, Zenon

\* Words, as a sequence and as a set.
LEMMA HasWordIn ==
    ASSUME NEW words, NEW w
    PROVE  HasWord(words, w) <=> w \in WordsIn(words)
BY DEF HasWord, WordsIn

\* The phrases of days by their words.
LEMMA DayPhraseWords ==
    ASSUME NEW p \in DayPhrases
    PROVE  \/ WordsIn(p[1]) = {"today"} /\ p[2] = 0
           \/ WordsIn(p[1]) = {"tomorrow"} /\ p[2] = 1
           \/ WordsIn(p[1]) = {"yesterday"} /\ p[2] = -1
           \/ WordsIn(p[1]) = {"the", "day", "after", "tomorrow"} /\ p[2] = 2
           \/ WordsIn(p[1]) = {"the", "day", "before", "yesterday"} /\ p[2] = -2
           \/ WordsIn(p[1]) = {"yesterday", "afternoon"} /\ p[2] = -1
           \/ WordsIn(p[1]) = {"tomorrow", "night"} /\ p[2] = 1
           \/ WordsIn(p[1]) = {"first", "thing", "in", "the", "morning"} /\ p[2] = 0
           \/ WordsIn(p[1]) = {"a", "fortnight", "from", "now"} /\ p[2] = 14
           \/ WordsIn(p[1]) = {"3", "days", "from", "now"} /\ p[2] = 3
           \/ WordsIn(p[1]) = {"end", "of", "day"} /\ p[2] = 0
BY DEF DayPhrases, WordsIn

\* Means of words that no calendar and no clock is asked for.
OtherWords == {"week", "month", "year", "quarter", "weekend", "spring", "winter", "friday", "3:15"}

LEMMA DayMeans ==
    ASSUME NEW words, NEW said, said = WordsIn(words), said \cap OtherWords = {},
           "3" \in said => "days" \in said, NEW e, NEW v, NEW n, NEW today,
           v.a = today + n,
           \A p \in DayPhrases : WordsIn(p[1]) = said => p[2] = n
    PROVE  Means(words, e, v, today)
<1>1. \A unit \in {"week", "month", "year"} : ~HasWord(words, unit)
  BY HasWordIn DEF OtherWords
<1>2. /\ ~HasWord(words, "quarter") /\ ~HasWord(words, "weekend")
      /\ ~HasWord(words, "spring") /\ ~HasWord(words, "winter")
      /\ ~HasWord(words, "friday") /\ ~HasWord(words, "3:15")
      /\ HasWord(words, "3") => HasWord(words, "days")
  BY HasWordIn DEF OtherWords
<1>3. \A p \in DayPhrases : words = p[1] => v.a = today + p[2]
  BY Zenon
<1> QED
  BY <1>1, <1>2, <1>3, Zenon DEF Means

-----------------------------------------------------------------------------
(* Days *)
\* Phrases of days: the handler of the tag moves so many days.

\* What the patterns of a message capture.
IsCapture(e) ==
    e = [tag |-> e.tag, n |-> e.n, m |-> e.m, unit |-> e.unit, dir |-> e.dir,
         ampm |-> e.ampm]

\* A rule is given what was captured, and its own tag.
GivenTo(f, tag, words, e) ==
    /\ f.tag = tag /\ f.ampm = SuffixOf(words, e)
    /\ f.n = e.n /\ f.m = e.m /\ f.unit = e.unit /\ f.dir = e.dir

LEMMA ResolvedIs ==
    ASSUME NEW words, NEW rule, NEW tag, rule.tag = tag, NEW e, IsCapture(e), NEW at,
           NEW v, v = Resolved(words, rule, e, at)
    PROVE  \E f : v = Resolve(f, at) /\ GivenTo(f, tag, words, e)
<1>1. PICK s : s = SuffixOf(words, e)
  OBVIOUS
<1>2. PICK f : f = [e EXCEPT !.tag = tag, !.ampm = s]
  OBVIOUS
<1>3. /\ f.tag = tag /\ f.ampm = s
      /\ f.n = e.n /\ f.m = e.m /\ f.unit = e.unit /\ f.dir = e.dir
  BY <1>2 DEF IsCapture
<1>4. v = Resolve(f, at)
  BY <1>1, <1>2, Zenon DEF Resolved
<1>5. GivenTo(f, tag, words, e)
  BY <1>1, <1>3, Zenon DEF GivenTo
<1> QED
  BY <1>4, <1>5, Zenon

\* The fields of a value.
LEMMA DayIs ==
    ASSUME NEW n
    PROVE  Day(n) # Untouched /\ Day(n).kind = "dates" /\ Day(n).a = n /\ Day(n).b = n
BY DEF Day, Dates, Result, Untouched

LEMMA MomentIs ==
    ASSUME NEW n, NEW m
    PROVE  /\ Moment(n, m) # Untouched
           /\ Moment(n, m).kind = "moment" /\ Moment(n, m).a = n /\ Moment(n, m).b = m
BY DEF Moment, Result, Untouched

\* Tags of rules that name a day so many days away.
DaysAway ==
    [today |-> 0, tomorrow |-> 1, yesterday |-> -1, day_after_tomorrow |-> 2,
     day_before_yesterday |-> -2, yesterday_afternoon |-> -1, tomorrow_night |-> 1,
     first_thing_morning |-> 0, fortnight_from_now |-> 14, end_of_day |-> 0]

\* The day the handlers of these tags reach.
LEMMA LandsOn ==
    ASSUME NEW f, f.tag \in DOMAIN DaysAway, NEW at, at.day \in Int
    PROVE  /\ Resolve(f, at) # Untouched
           /\ Resolve(f, at).a = at.day + DaysAway[f.tag]
<1>1. CASE f.tag \in {"today", "tomorrow", "yesterday"}
  <2>1. Resolve(f, at) = OnDay(NearDays, f, at)
    BY <1>1 DEF Resolve, DayParts, Meals, Deadlines, Today, Colloquial, FarDays, NearDays,
         Minutes, ClockTags, Edges, WeekdayTags, Weekends, RelativePeriods
  <2>2. OnDay(NearDays, f, at) = Day(at.day + DaysAway[f.tag])
    BY <1>1 DEF OnDay, NearDays, DaysAway
  <2> QED
    BY <2>1, <2>2, DayIs, Zenon
<1>2. CASE f.tag \in {"day_after_tomorrow", "day_before_yesterday", "fortnight_from_now"}
  <2>1. Resolve(f, at) = OnDay(FarDays, f, at)
    BY <1>2 DEF Resolve, DayParts, Meals, Deadlines, Today, Colloquial, FarDays, NearDays,
         Minutes, ClockTags, Edges, WeekdayTags, Weekends, RelativePeriods
  <2>2. OnDay(FarDays, f, at) = Day(at.day + DaysAway[f.tag])
    BY <1>2 DEF OnDay, FarDays, DaysAway
  <2> QED
    BY <2>1, <2>2, DayIs, Zenon
<1>3. CASE f.tag \in {"yesterday_afternoon", "tomorrow_night"}
  <2>1. Resolve(f, at) = AtTime(DayParts, f, at)
    BY <1>3 DEF Resolve, DayParts, Meals, Deadlines, Today, Colloquial, FarDays, NearDays,
         Minutes, ClockTags, Edges, WeekdayTags, Weekends, RelativePeriods
  <2>2. PICK n, m : /\ AtTime(DayParts, f, at) = Moment(n, m)
                  /\ n = at.day + DaysAway[f.tag]
    BY <1>3 DEF AtTime, DayParts, DaysAway
  <2> QED
    BY <2>1, <2>2, MomentIs
<1>4. CASE f.tag \in {"first_thing_morning"}
  <2>1. Resolve(f, at) = AtTime(Meals, f, at)
    BY <1>4 DEF Resolve, DayParts, Meals, Deadlines, Today, Colloquial, FarDays, NearDays,
         Minutes, ClockTags, Edges, WeekdayTags, Weekends, RelativePeriods
  <2>2. PICK n, m : /\ AtTime(Meals, f, at) = Moment(n, m)
                  /\ n = at.day + DaysAway[f.tag]
    BY <1>4 DEF AtTime, Meals, DaysAway
  <2> QED
    BY <2>1, <2>2, MomentIs
<1>5. CASE f.tag \in {"end_of_day"}
  <2>1. Resolve(f, at) = AtTime(Deadlines, f, at)
    BY <1>5 DEF Resolve, DayParts, Meals, Deadlines, Today, Colloquial, FarDays, NearDays,
         Minutes, ClockTags, Edges, WeekdayTags, Weekends, RelativePeriods
  <2>2. PICK n, m : /\ AtTime(Deadlines, f, at) = Moment(n, m)
                  /\ n = at.day + DaysAway[f.tag]
    BY <1>5 DEF AtTime, Deadlines, DaysAway
  <2> QED
    BY <2>1, <2>2, MomentIs
<1> QED
  BY <1>1, <1>2, <1>3, <1>4, <1>5 DEF DaysAway

LEMMA DaysFromNowLand ==
    ASSUME NEW f, f.tag = "n_units_from_now", f.n = 3, f.unit = "day", NEW at, at.day \in Int
    PROVE  Resolve(f, at) # Untouched /\ Resolve(f, at).a = at.day + 3
<1>1. Resolve(f, at) = CountedUnits(f, at)
  BY DEF Resolve, DayParts, Meals, Deadlines, Today, Colloquial, FarDays, NearDays,
         Minutes, ClockTags, Edges, WeekdayTags, Weekends, RelativePeriods
<1>2. PICK n : CountedUnits(f, at) = Day(n) /\ n = at.day + 3
  BY DEF CountedUnits, UnitMinutes, UnitDays
<1> QED
  BY <1>1, <1>2, DayIs

\* The tags of the rules the phrases are.
LEMMA TimeTags ==
    /\ RulesInOrder[1].tag = "relative_day_of_week"
    /\ RulesInOrder[2].tag = "coming_day_of_week"
    /\ RulesInOrder[3].tag = "n_units_from_now"
    /\ RulesInOrder[4].tag = "on_weekday"
    /\ RulesInOrder[5].tag = "specific_time_datetime"
    /\ RulesInOrder[6].tag = "quarter_to"
    /\ RulesInOrder[7].tag = "quarter_past"
    /\ RulesInOrder[8].tag = "specific_time_datetime"
    /\ RulesInOrder[10].tag = "bare_weekday"
    /\ RulesInOrder[11].tag = "half_past"
<1>1. \A k \in 1..13 : RulesInOrder[k].tag = RulesOfTheTime[k].tag
  BY InOrder, Zenon
<1> QED
  BY <1>1 DEF RulesOfTheTime, Rule

LEMMA DayTags ==
    /\ RulesInOrder[14].tag = "day_before_yesterday"
    /\ RulesInOrder[15].tag = "fortnight_from_now"
    /\ RulesInOrder[16].tag = "day_after_tomorrow"
    /\ RulesInOrder[17].tag = "first_thing_morning"
    /\ RulesInOrder[18].tag = "yesterday_afternoon"
    /\ RulesInOrder[19].tag = "end_of_day"
    /\ RulesInOrder[22].tag = "yesterday"
<1>1. \A k \in 1..13 : RulesInOrder[13 + k].tag = RulesOfTheDay[k].tag
  BY InOrder, Zenon
<1> QED
  BY <1>1 DEF RulesOfTheDay, Rule

LEMMA TomorrowTags ==
    /\ RulesInOrder[31].tag = "tomorrow_night"
    /\ RulesInOrder[38].tag = "tomorrow"
    /\ RulesInOrder[39].tag = "today"
<1>1. \A k \in 1..14 : RulesInOrder[26 + k].tag = RulesOfTomorrow[k].tag
  BY InOrder, Zenon
<1> QED
  BY <1>1 DEF RulesOfTomorrow, Rule

\* What a phrase of a rule says is what the handler makes of its tag.
LEMMA RuleSays ==
    ASSUME NEW words, IsPhrase(words), NEW e, IsCapture(e), Untagged(e),
           NEW j, FirstFits(words, j), NEW tag, RulesInOrder[j].tag = tag, NEW at
    PROVE  \E f : /\ GivenTo(f, tag, words, e)
                  /\ Resolve(f, at) # Untouched
                        => Values(ProcessMessage(words, e, at)) = <<Resolve(f, at)>>
<1>1. PICK v : v = Resolved(words, RulesInOrder[j], e, at)
  OBVIOUS
<1>2. PICK f : v = Resolve(f, at) /\ GivenTo(f, tag, words, e)
  BY <1>1, ResolvedIs
<1>3. v # Untouched => Values(ProcessMessage(words, e, at)) = <<v>>
  BY <1>1, PhraseMeans, Zenon
<1> QED
  BY <1>2, <1>3, Zenon

\* A phrase of so many days says one value, that day.
LEMMA DayIsNamed ==
    ASSUME NEW words, IsPhrase(words), NEW e, IsCapture(e), Untagged(e),
           NEW j, FirstFits(words, j), NEW tag, RulesInOrder[j].tag = tag,
           tag \in DOMAIN DaysAway, NEW at, at.day \in Int
    PROVE  \E v : /\ Values(ProcessMessage(words, e, at)) = <<v>>
                  /\ v.a = at.day + DaysAway[tag]
<1>1. PICK v : v = Resolved(words, RulesInOrder[j], e, at)
  OBVIOUS
<1>2. PICK f : v = Resolve(f, at) /\ GivenTo(f, tag, words, e)
  BY <1>1, ResolvedIs
<1>3. f.tag = tag
  BY <1>2, Zenon DEF GivenTo
<1>6. v # Untouched
  BY <1>2, <1>3, LandsOn, Zenon
<1>4. v.a = at.day + DaysAway[tag]
  BY <1>2, <1>3, LandsOn, Zenon
<1>5. Values(ProcessMessage(words, e, at)) = <<v>>
  BY <1>1, <1>6, PhraseMeans, Zenon
<1> QED
  BY <1>4, <1>5, Zenon

LEMMA DayIsRight ==
    ASSUME NEW words, IsPhrase(words), NEW e, IsCapture(e), Untagged(e),
           NEW j, FirstFits(words, j), NEW tag, RulesInOrder[j].tag = tag,
           tag \in DOMAIN DaysAway,
           NEW said, said = WordsIn(words), said \cap OtherWords = {}, "3" \notin said,
           \A p \in DayPhrases : WordsIn(p[1]) = said => p[2] = DaysAway[tag]
    PROVE  DatedRight(words, e)
<1>1. ASSUME NEW at, at.day \in Int
      PROVE  \E v : Values(ProcessMessage(words, e, at)) = <<v>> /\ Means(words, e, v, at.day)
  <2>1. PICK v : /\ Values(ProcessMessage(words, e, at)) = <<v>>
                 /\ v.a = at.day + DaysAway[tag]
    BY <1>1, DayIsNamed
  <2>2. v.a = at.day + DaysAway[tag]
    BY <2>1, Zenon
  <2>3. Means(words, e, v, at.day)
    BY <2>2, DayMeans
  <2> QED
    BY <2>1, <2>3, Zenon
<1> QED
  BY <1>1, OneIsRight, Zenon

\* Sequences of words are phrases.
LEMMA Phrases1 == ASSUME NEW a PROVE IsPhrase(<<a>>)
BY Words1, NotEmpty, Zenon DEF IsPhrase

LEMMA Phrases2 == ASSUME NEW a, NEW b PROVE IsPhrase(<<a, b>>)
BY Words2, NotEmpty, Zenon DEF IsPhrase

LEMMA Phrases3 == ASSUME NEW a, NEW b, NEW c PROVE IsPhrase(<<a, b, c>>)
BY Words3, NotEmpty, Zenon DEF IsPhrase

LEMMA Phrases4 == ASSUME NEW a, NEW b, NEW c, NEW d PROVE IsPhrase(<<a, b, c, d>>)
BY Words4, NotEmpty, Zenon DEF IsPhrase

LEMMA Phrases5 ==
    ASSUME NEW a, NEW b, NEW c, NEW d, NEW e
    PROVE  IsPhrase(<<a, b, c, d, e>>)
BY Words5, NotEmpty, Zenon DEF IsPhrase

LEMMA TodayIsRight ==
    ASSUME NEW e, IsCapture(e), Untagged(e)
    PROVE  DatedRight(<<"today">>, e)
<1>1. WordsIn(<<"today">>) = {"today"}
  BY DEF WordsIn
<1>2. {"today"} \cap OtherWords = {} /\ "3" \notin {"today"}
  BY DEF OtherWords
<1>3. \A p \in DayPhrases : WordsIn(p[1]) = {"today"} => p[2] = DaysAway["today"]
  BY DayPhraseWords DEF DaysAway
<1>4. "today" \in DOMAIN DaysAway /\ RulesInOrder[39].tag = "today"
  BY TomorrowTags DEF DaysAway
<1> QED
  BY <1>1, <1>2, <1>3, <1>4, TodayIs, Phrases1, DayIsRight

LEMMA TomorrowRight ==
    ASSUME NEW e, IsCapture(e), Untagged(e)
    PROVE  DatedRight(<<"tomorrow">>, e)
<1>1. WordsIn(<<"tomorrow">>) = {"tomorrow"}
  BY DEF WordsIn
<1>2. {"tomorrow"} \cap OtherWords = {} /\ "3" \notin {"tomorrow"}
  BY DEF OtherWords
<1>3. \A p \in DayPhrases : WordsIn(p[1]) = {"tomorrow"} => p[2] = DaysAway["tomorrow"]
  BY DayPhraseWords DEF DaysAway
<1>4. "tomorrow" \in DOMAIN DaysAway /\ RulesInOrder[38].tag = "tomorrow"
  BY TomorrowTags DEF DaysAway
<1> QED
  BY <1>1, <1>2, <1>3, <1>4, Tomorrow, Phrases1, DayIsRight

LEMMA YesterdayRight ==
    ASSUME NEW e, IsCapture(e), Untagged(e)
    PROVE  DatedRight(<<"yesterday">>, e)
<1>1. WordsIn(<<"yesterday">>) = {"yesterday"}
  BY DEF WordsIn
<1>2. {"yesterday"} \cap OtherWords = {} /\ "3" \notin {"yesterday"}
  BY DEF OtherWords
<1>3. \A p \in DayPhrases : WordsIn(p[1]) = {"yesterday"} => p[2] = DaysAway["yesterday"]
  BY DayPhraseWords DEF DaysAway
<1>4. "yesterday" \in DOMAIN DaysAway /\ RulesInOrder[22].tag = "yesterday"
  BY DayTags DEF DaysAway
<1> QED
  BY <1>1, <1>2, <1>3, <1>4, Yesterday, Phrases1, DayIsRight

LEMMA AfterTomorrowRight ==
    ASSUME NEW e, IsCapture(e), Untagged(e)
    PROVE  DatedRight(<<"the", "day", "after", "tomorrow">>, e)
<1>1. WordsIn(<<"the", "day", "after", "tomorrow">>) = {"the", "day", "after", "tomorrow"}
  BY DEF WordsIn
<1>2. {"the", "day", "after", "tomorrow"} \cap OtherWords = {}
        /\ "3" \notin {"the", "day", "after", "tomorrow"}
  BY DEF OtherWords
<1>3. \A p \in DayPhrases : WordsIn(p[1]) = {"the", "day", "after", "tomorrow"}
        => p[2] = DaysAway["day_after_tomorrow"]
  BY DayPhraseWords DEF DaysAway
<1>4. "day_after_tomorrow" \in DOMAIN DaysAway /\ RulesInOrder[16].tag = "day_after_tomorrow"
  BY DayTags DEF DaysAway
<1> QED
  BY <1>1, <1>2, <1>3, <1>4, AfterTomorrow, Phrases4, DayIsRight

LEMMA BeforeYesterdayRight ==
    ASSUME NEW e, IsCapture(e), Untagged(e)
    PROVE  DatedRight(<<"the", "day", "before", "yesterday">>, e)
<1>1. WordsIn(<<"the", "day", "before", "yesterday">>) = {"the", "day", "before", "yesterday"}
  BY DEF WordsIn
<1>2. {"the", "day", "before", "yesterday"} \cap OtherWords = {}
        /\ "3" \notin {"the", "day", "before", "yesterday"}
  BY DEF OtherWords
<1>3. \A p \in DayPhrases : WordsIn(p[1]) = {"the", "day", "before", "yesterday"}
        => p[2] = DaysAway["day_before_yesterday"]
  BY DayPhraseWords DEF DaysAway
<1>4. "day_before_yesterday" \in DOMAIN DaysAway /\ RulesInOrder[14].tag = "day_before_yesterday"
  BY DayTags DEF DaysAway
<1> QED
  BY <1>1, <1>2, <1>3, <1>4, BeforeYesterday, Phrases4, DayIsRight

LEMMA YesterdayAfternoonRight ==
    ASSUME NEW e, IsCapture(e), Untagged(e)
    PROVE  DatedRight(<<"yesterday", "afternoon">>, e)
<1>1. WordsIn(<<"yesterday", "afternoon">>) = {"yesterday", "afternoon"}
  BY DEF WordsIn
<1>2. {"yesterday", "afternoon"} \cap OtherWords = {} /\ "3" \notin {"yesterday", "afternoon"}
  BY DEF OtherWords
<1>3. \A p \in DayPhrases : WordsIn(p[1]) = {"yesterday", "afternoon"}
        => p[2] = DaysAway["yesterday_afternoon"]
  BY DayPhraseWords DEF DaysAway
<1>4. "yesterday_afternoon" \in DOMAIN DaysAway /\ RulesInOrder[18].tag = "yesterday_afternoon"
  BY DayTags DEF DaysAway
<1> QED
  BY <1>1, <1>2, <1>3, <1>4, YesterdayAfternoon, Phrases2, DayIsRight

LEMMA TomorrowNightRight ==
    ASSUME NEW e, IsCapture(e), Untagged(e)
    PROVE  DatedRight(<<"tomorrow", "night">>, e)
<1>1. WordsIn(<<"tomorrow", "night">>) = {"tomorrow", "night"}
  BY DEF WordsIn
<1>2. {"tomorrow", "night"} \cap OtherWords = {} /\ "3" \notin {"tomorrow", "night"}
  BY DEF OtherWords
<1>3. \A p \in DayPhrases : WordsIn(p[1]) = {"tomorrow", "night"}
        => p[2] = DaysAway["tomorrow_night"]
  BY DayPhraseWords DEF DaysAway
<1>4. "tomorrow_night" \in DOMAIN DaysAway /\ RulesInOrder[31].tag = "tomorrow_night"
  BY TomorrowTags DEF DaysAway
<1> QED
  BY <1>1, <1>2, <1>3, <1>4, TomorrowNight, Phrases2, DayIsRight

LEMMA FirstThingRight ==
    ASSUME NEW e, IsCapture(e), Untagged(e)
    PROVE  DatedRight(<<"first", "thing", "in", "the", "morning">>, e)
<1>1. WordsIn(<<"first", "thing", "in", "the", "morning">>)
        = {"first", "thing", "in", "the", "morning"}
  BY DEF WordsIn
<1>2. {"first", "thing", "in", "the", "morning"} \cap OtherWords = {}
        /\ "3" \notin {"first", "thing", "in", "the", "morning"}
  BY DEF OtherWords
<1>3. \A p \in DayPhrases : WordsIn(p[1]) = {"first", "thing", "in", "the", "morning"}
        => p[2] = DaysAway["first_thing_morning"]
  BY DayPhraseWords DEF DaysAway
<1>4. "first_thing_morning" \in DOMAIN DaysAway /\ RulesInOrder[17].tag = "first_thing_morning"
  BY DayTags DEF DaysAway
<1> QED
  BY <1>1, <1>2, <1>3, <1>4, FirstThing, Phrases5, DayIsRight

LEMMA FortnightFromNowRight ==
    ASSUME NEW e, IsCapture(e), Untagged(e)
    PROVE  DatedRight(<<"a", "fortnight", "from", "now">>, e)
<1>1. WordsIn(<<"a", "fortnight", "from", "now">>) = {"a", "fortnight", "from", "now"}
  BY DEF WordsIn
<1>2. {"a", "fortnight", "from", "now"} \cap OtherWords = {}
        /\ "3" \notin {"a", "fortnight", "from", "now"}
  BY DEF OtherWords
<1>3. \A p \in DayPhrases : WordsIn(p[1]) = {"a", "fortnight", "from", "now"}
        => p[2] = DaysAway["fortnight_from_now"]
  BY DayPhraseWords DEF DaysAway
<1>4. "fortnight_from_now" \in DOMAIN DaysAway /\ RulesInOrder[15].tag = "fortnight_from_now"
  BY DayTags DEF DaysAway
<1> QED
  BY <1>1, <1>2, <1>3, <1>4, FortnightFromNow, Phrases4, DayIsRight

LEMMA EndOfDayRight ==
    ASSUME NEW e, IsCapture(e), Untagged(e)
    PROVE  DatedRight(<<"end", "of", "day">>, e)
<1>1. WordsIn(<<"end", "of", "day">>) = {"end", "of", "day"}
  BY DEF WordsIn
<1>2. {"end", "of", "day"} \cap OtherWords = {} /\ "3" \notin {"end", "of", "day"}
  BY DEF OtherWords
<1>3. \A p \in DayPhrases : WordsIn(p[1]) = {"end", "of", "day"}
        => p[2] = DaysAway["end_of_day"]
  BY DayPhraseWords DEF DaysAway
<1>4. "end_of_day" \in DOMAIN DaysAway /\ RulesInOrder[19].tag = "end_of_day"
  BY DayTags DEF DaysAway
<1> QED
  BY <1>1, <1>2, <1>3, <1>4, EndOfDay, Phrases3, DayIsRight

\* The phrase with a number: so many days, as captured.
LEMMA DaysFromNowNamed ==
    ASSUME NEW e, IsCapture(e), Untagged(e), e.n = 3, e.unit = "day", NEW at, at.day \in Int
    PROVE  \E v : /\ Values(ProcessMessage(<<"3", "days", "from", "now">>, e, at)) = <<v>>
                  /\ v.a = at.day + 3
<1>1. PICK words : words = <<"3", "days", "from", "now">>
  OBVIOUS
<1>2. IsPhrase(words) /\ FirstFits(words, 3)
  BY <1>1, Phrases4, DaysFromNow, Zenon
<1>3. RulesInOrder[3].tag = "n_units_from_now"
  BY TimeTags, Zenon
<1>4. PICK f : /\ GivenTo(f, "n_units_from_now", words, e)
               /\ Resolve(f, at) # Untouched
                     => Values(ProcessMessage(words, e, at)) = <<Resolve(f, at)>>
  BY <1>2, <1>3, RuleSays, Zenon
<1>5. f.tag = "n_units_from_now" /\ f.n = 3 /\ f.unit = "day"
  BY <1>4 DEF GivenTo
<1>6. Resolve(f, at) # Untouched /\ Resolve(f, at).a = at.day + 3
  BY <1>5, DaysFromNowLand, Zenon
<1> QED
  BY <1>1, <1>4, <1>6, Zenon

LEMMA DaysFromNowRight ==
    ASSUME NEW e, IsCapture(e), Untagged(e), e.n = 3, e.unit = "day"
    PROVE  DatedRight(<<"3", "days", "from", "now">>, e)
<1>1. PICK words, said : /\ words = <<"3", "days", "from", "now">>
                         /\ said = {"3", "days", "from", "now"}
  OBVIOUS
<1>2. said = WordsIn(words)
  BY <1>1 DEF WordsIn
<1>3. said \cap OtherWords = {} /\ ("3" \in said => "days" \in said)
  BY <1>1 DEF OtherWords
<1>4. \A p \in DayPhrases : WordsIn(p[1]) = said => p[2] = 3
  BY <1>1, DayPhraseWords
<1>5. ASSUME NEW at, at.day \in Int
      PROVE  \E v : Values(ProcessMessage(words, e, at)) = <<v>> /\ Means(words, e, v, at.day)
  <2>1. PICK v : Values(ProcessMessage(words, e, at)) = <<v>> /\ v.a = at.day + 3
    BY <1>1, <1>5, DaysFromNowNamed, Zenon
  <2>2. v.a = at.day + 3
    BY <2>1, Zenon
  <2>3. Means(words, e, v, at.day)
    BY <1>2, <1>3, <1>4, <2>2, DayMeans
  <2> QED
    BY <2>1, <2>3, Zenon
<1> QED
  BY <1>1, <1>5, OneIsRight, Zenon

\* Means of words that are no phrase of days.
LEMMA OtherMeans ==
    ASSUME NEW words, NEW said, said = WordsIn(words),
           \A p \in DayPhrases : WordsIn(p[1]) # said,
           "month" \notin said, "year" \notin said, "spring" \notin said, "winter" \notin said,
           "quarter" \in said => Len(words) # 2,
           NEW e, NEW v, NEW today,
           "week" \in said => PeriodMeans("week", words, v, today),
           "weekend" \in said => WeekendMeans(words, v, today),
           "friday" \in said => WeekdayMeans(words, e, v, today),
           "3:15" \in said \/ "3" \in said => ClockMeans(words, e, v, today)
    PROVE  Means(words, e, v, today)
<1>1. /\ ~HasWord(words, "month") /\ ~HasWord(words, "year")
      /\ HasWord(words, "week") => PeriodMeans("week", words, v, today)
  BY HasWordIn
<1>2. \A unit \in {"week", "month", "year"} :
         HasWord(words, unit) => PeriodMeans(unit, words, v, today)
  BY <1>1
<1>3. /\ ~HasWord(words, "spring") /\ ~HasWord(words, "winter")
      /\ HasWord(words, "quarter") => Len(words) # 2
  BY HasWordIn
<1>4. /\ HasWord(words, "weekend") => WeekendMeans(words, v, today)
      /\ HasWord(words, "friday") => WeekdayMeans(words, e, v, today)
      /\ HasWord(words, "3:15") \/ HasWord(words, "3") => ClockMeans(words, e, v, today)
  BY HasWordIn
<1>5. \A p \in DayPhrases : words = p[1] => v.a = today + p[2]
  BY Zenon
<1> QED
  BY <1>2, <1>3, <1>4, <1>5, Zenon DEF Means


\* Days of the week are counted modulo 7.
LEMMA WeekArithmetic ==
    ASSUME NEW today \in Int, NEW k \in 0..6
    PROVE  /\ DayOfWeek(today) \in 0..6
           /\ DayOfWeek(today + ((k - DayOfWeek(today)) % 7)) = k
           /\ DayOfWeek(today + WholeWeek(k - DayOfWeek(today))) = k
           /\ DayOfWeek(today - WholeWeek(DayOfWeek(today) - k)) = k
           /\ DayOfWeek(StartOf("week", today) + k) = k
           /\ (k - DayOfWeek(today)) % 7 \in 0..6
           /\ WholeWeek(k - DayOfWeek(today)) \in 1..7
           /\ WholeWeek(DayOfWeek(today) - k) \in 1..7
           /\ StartOf("week", today) = today - DayOfWeek(today)
<1>1. StartOf("week", today) = today - DayOfWeek(today)
  BY DEF StartOf
<1> QED
  BY <1>1 DEF DayOfWeek, WholeWeek

-----------------------------------------------------------------------------
(* Weekdays *)
\* Phrases of weekdays: the day the handler finds is that weekday, on the side the
\* word before it says.

\* k days from today is on the side the word says.
OnTheSide(w, today, k) ==
    /\ k \in Int
    /\ w \in {"last", "previous"} => k \in -7..-1
    /\ w \in {"next", "coming"} => k \in 1..7
    /\ w = "this" => k \in (-DayOfWeek(today))..(6 - DayOfWeek(today))
    /\ w \notin {"last", "previous", "next", "coming", "this"} => k \in 0..6

\* A weekday in the week of today, or one before or after it.
LEMMA WeekdayBy ==
    ASSUME NEW words, NEW e, NEW today \in Int, NEW k, NEW v, v = Day(today + k),
           DayOfWeek(today + k) = e.n, NEW w, w = words[1], OnTheSide(w, today, k)
    PROVE  WeekdayMeans(words, e, v, today)
<1> USE DEF OnTheSide
<1>1. v.kind = "dates" /\ v.a = today + k /\ v.b = today + k
  BY DayIs, Zenon
<1>2. v.a - today = k
  BY <1>1
<1>3. k \in CASE w \in {"last", "previous"} -> -7..-1
              [] w \in {"next", "coming"} -> 1..7
              [] w = "this" -> (-DayOfWeek(today))..(6 - DayOfWeek(today))
              [] OTHER -> 0..6
  <2>1. CASE w \in {"last", "previous"}
    BY <2>1
  <2>2. CASE w \in {"next", "coming"}
    BY <2>2
  <2>3. CASE w = "this"
    BY <2>3
  <2>4. CASE w \notin {"last", "previous", "next", "coming", "this"}
    BY <2>4
  <2> QED
    BY <2>1, <2>2, <2>3, <2>4
<1> QED
  BY <1>1, <1>2, <1>3, Zenon DEF WeekdayMeans

\* Which rule takes which words before the weekday.
WeekdaySide(tag, w, e) ==
    \/ tag = "relative_day_of_week" /\ w \in {"last", "previous", "this", "next"} /\ e.dir = w
    \/ tag = "coming_day_of_week" /\ w = "coming"
    \/ tag \in {"on_weekday", "bare_weekday"} /\ w \in {"on", "friday"}

LEMMA WeekdayLands ==
    ASSUME NEW words, NEW e, e.n \in 0..6, NEW tag, NEW w, w = words[1], WeekdaySide(tag, w, e),
           NEW f, GivenTo(f, tag, words, e), NEW at, at.day \in Int
    PROVE  /\ Resolve(f, at) # Untouched
           /\ WeekdayMeans(words, e, Resolve(f, at), at.day)
<1>1. f.tag = tag /\ f.n = e.n /\ f.dir = e.dir
  BY Zenon DEF GivenTo
<1>2. tag \in WeekdayTags
  BY DEF WeekdaySide, WeekdayTags
<1>3. Resolve(f, at) = WeekDay(f, at)
  BY <1>1, <1>2 DEF Resolve, DayParts, Meals, Deadlines, Today, Colloquial, FarDays, NearDays,
         Minutes, ClockTags, Edges, WeekdayTags, Weekends, RelativePeriods
<1>4. PICK today \in Int, n \in 0..6 : today = at.day /\ n = e.n
  OBVIOUS
<1>10. PICK v : v = WeekDay(f, at)
  OBVIOUS
<1>5. /\ DayOfWeek(today) \in 0..6
      /\ DayOfWeek(today + ((n - DayOfWeek(today)) % 7)) = n
      /\ DayOfWeek(today + WholeWeek(n - DayOfWeek(today))) = n
      /\ DayOfWeek(today - WholeWeek(DayOfWeek(today) - n)) = n
      /\ DayOfWeek(StartOf("week", today) + n) = n
      /\ (n - DayOfWeek(today)) % 7 \in 0..6
      /\ WholeWeek(n - DayOfWeek(today)) \in 1..7
      /\ WholeWeek(DayOfWeek(today) - n) \in 1..7
      /\ StartOf("week", today) = today - DayOfWeek(today)
  BY WeekArithmetic
<1>6. \E k : v = Day(today + k) /\ DayOfWeek(today + k) = n /\ OnTheSide(w, today, k)
  <2>1. CASE tag \in {"on_weekday", "bare_weekday"}
    <3>1. w \in {"on", "friday"}
      BY <2>1 DEF WeekdaySide
    <3>2. v = Day(today + ((n - DayOfWeek(today)) % 7))
      BY <1>1, <1>4, <1>10, <2>1 DEF WeekDay
    <3>3. PICK k \in 0..6 : k = (n - DayOfWeek(today)) % 7
      BY <1>5
    <3>4. k \in Int /\ v = Day(today + k) /\ DayOfWeek(today + k) = n
      BY <1>5, <3>2, <3>3
    <3> QED
      BY <3>1, <3>3, <3>4 DEF OnTheSide
  <2>2. CASE tag = "relative_day_of_week" /\ w \in {"last", "previous"}
    <3>1. v = Day(today - WholeWeek(DayOfWeek(today) - n))
      <4>1. f.dir \in {"last", "previous"} /\ f.tag = "relative_day_of_week"
        BY <1>1, <2>2 DEF WeekdaySide
      <4> QED
        BY <1>1, <1>4, <1>10, <4>1 DEF WeekDay
    <3>2. PICK k \in Int : k = -WholeWeek(DayOfWeek(today) - n)
      BY <1>5
    <3>3. today + k = today - WholeWeek(DayOfWeek(today) - n) /\ k \in -7..-1
      BY <1>5, <3>2
    <3> QED
      BY <1>5, <2>2, <3>1, <3>3 DEF OnTheSide
  <2>3. CASE tag = "relative_day_of_week" /\ w = "this"
    <3>1. v = Day(StartOf("week", today) + n)
      <4>1. f.dir = "this" /\ f.tag = "relative_day_of_week"
        BY <1>1, <2>3 DEF WeekdaySide
      <4> QED
        BY <1>1, <1>4, <1>10, <4>1 DEF WeekDay
    <3>2. PICK k \in Int : k = n - DayOfWeek(today)
      BY <1>5
    <3>3. today + k = StartOf("week", today) + n
          /\ k \in (-DayOfWeek(today))..(6 - DayOfWeek(today))
      <4>1. PICK b \in 0..6 : b = DayOfWeek(today) /\ StartOf("week", today) = today - b
        BY <1>5
      <4>2. k = n - b /\ today + k = today - b + n /\ k \in (-b)..(6 - b)
        BY <3>2, <4>1
      <4> QED
        BY <4>1, <4>2
    <3> QED
      BY <1>5, <2>3, <3>1, <3>3 DEF OnTheSide
  <2>4. CASE tag = "coming_day_of_week" \/ (tag = "relative_day_of_week" /\ w = "next")
    <3>1. v = Day(today + WholeWeek(n - DayOfWeek(today)))
      <4>1. \/ f.dir = "next" /\ f.tag = "relative_day_of_week"
            \/ f.tag = "coming_day_of_week"
        BY <1>1, <2>4 DEF WeekdaySide
      <4> QED
        BY <1>1, <1>4, <1>10, <4>1 DEF WeekDay
    <3>2. w \in {"next", "coming"}
      BY <2>4 DEF WeekdaySide
    <3>3. PICK k \in 1..7 : k = WholeWeek(n - DayOfWeek(today))
      BY <1>5
    <3>4. OnTheSide(w, today, k)
      BY <3>2, <3>3 DEF OnTheSide
    <3>5. v = Day(today + k) /\ DayOfWeek(today + k) = n
      BY <1>5, <3>1, <3>3
    <3> QED
      BY <3>4, <3>5, Zenon
  <2>5. \/ tag \in {"on_weekday", "bare_weekday"}
        \/ /\ tag = "relative_day_of_week"
           /\ \/ w \in {"last", "previous"}
              \/ w = "this" \/ w = "next"
        \/ tag = "coming_day_of_week"
    <3>1. w \in {"last", "previous", "this", "next"}
             => w \in {"last", "previous"} \/ w = "this" \/ w = "next"
      OBVIOUS
    <3> QED
      BY <3>1, Zenon DEF WeekdaySide
  <2> QED
    BY <2>1, <2>2, <2>3, <2>4, <2>5, Zenon
<1>7. PICK k : v = Day(today + k) /\ DayOfWeek(today + k) = n /\ OnTheSide(w, today, k)
  BY <1>6
<1>8. WeekdayMeans(words, e, v, today)
  BY <1>4, <1>7, WeekdayBy
<1>9. v # Untouched
  BY <1>7, DayIs, Zenon
<1> QED
  BY <1>3, <1>4, <1>8, <1>9, <1>10, Zenon

LEMMA WeekdayIsRight ==
    ASSUME NEW words, IsPhrase(words), NEW e, IsCapture(e), Untagged(e), e.n \in 0..6,
           NEW j, FirstFits(words, j), NEW tag, RulesInOrder[j].tag = tag,
           NEW w, w = words[1], WeekdaySide(tag, w, e),
           NEW said, said = WordsIn(words), said \subseteq {w, "friday"}
    PROVE  DatedRight(words, e)
<1>1. w \in {"last", "previous", "this", "next", "coming", "on", "friday"}
  BY DEF WeekdaySide
<1>2. /\ "month" \notin said /\ "year" \notin said /\ "spring" \notin said
      /\ "winter" \notin said /\ "quarter" \notin said /\ "week" \notin said
      /\ "weekend" \notin said /\ "3:15" \notin said /\ "3" \notin said
  BY <1>1
<1>3. \A p \in DayPhrases : WordsIn(p[1]) # said
  <2> SUFFICES ASSUME NEW p \in DayPhrases, WordsIn(p[1]) = said PROVE FALSE
    OBVIOUS
  <2>1. \A u \in WordsIn(p[1]) :
           u \in {"last", "previous", "this", "next", "coming", "on", "friday"}
    BY <1>1
  <2> QED
    BY <2>1, DayPhraseWords
<1>4. ASSUME NEW at, at.day \in Int
      PROVE  \E v : Values(ProcessMessage(words, e, at)) = <<v>> /\ Means(words, e, v, at.day)
  <2>1. PICK f : /\ GivenTo(f, tag, words, e)
                 /\ Resolve(f, at) # Untouched
                       => Values(ProcessMessage(words, e, at)) = <<Resolve(f, at)>>
    BY RuleSays, Zenon
  <2>2. Resolve(f, at) # Untouched /\ WeekdayMeans(words, e, Resolve(f, at), at.day)
    BY <1>4, <2>1, WeekdayLands, Zenon
  <2>3. Means(words, e, Resolve(f, at), at.day)
    BY <1>2, <1>3, <2>2, OtherMeans, Zenon
  <2> QED
    BY <2>1, <2>2, <2>3, Zenon
<1> QED
  BY <1>4, OneIsRight, Zenon

LEMMA RelativeFridayRight ==
    ASSUME NEW d \in {"last", "next", "this", "previous"},
           NEW e, IsCapture(e), Untagged(e), e.n \in 0..6, e.dir = d
    PROVE  DatedRight(<<d, "friday">>, e)
<1>1. WordsIn(<<d, "friday">>) \subseteq {d, "friday"} /\ <<d, "friday">>[1] = d
  BY DEF WordsIn
<1>2. WeekdaySide("relative_day_of_week", d, e)
  BY DEF WeekdaySide
<1>3. IsPhrase(<<d, "friday">>) /\ FirstFits(<<d, "friday">>, 1)
  BY Phrases2, RelativeFriday
<1> QED
  BY <1>1, <1>2, <1>3, TimeTags, WeekdayIsRight

LEMMA ComingFridayRight ==
    ASSUME NEW e, IsCapture(e), Untagged(e), e.n \in 0..6
    PROVE  DatedRight(<<"coming", "friday">>, e)
<1>1. WordsIn(<<"coming", "friday">>) \subseteq {"coming", "friday"}
      /\ <<"coming", "friday">>[1] = "coming"
  BY DEF WordsIn
<1>2. WeekdaySide("coming_day_of_week", "coming", e)
  BY DEF WeekdaySide
<1> QED
  BY <1>1, <1>2, Phrases2, ComingFriday, TimeTags, WeekdayIsRight

LEMMA OnFridayRight ==
    ASSUME NEW e, IsCapture(e), Untagged(e), e.n \in 0..6
    PROVE  DatedRight(<<"on", "friday">>, e)
<1>1. WordsIn(<<"on", "friday">>) \subseteq {"on", "friday"}
      /\ <<"on", "friday">>[1] = "on"
  BY DEF WordsIn
<1>2. WeekdaySide("on_weekday", "on", e)
  BY DEF WeekdaySide
<1> QED
  BY <1>1, <1>2, Phrases2, OnFriday, TimeTags, WeekdayIsRight

LEMMA FridayRight ==
    ASSUME NEW e, IsCapture(e), Untagged(e), e.n \in 0..6
    PROVE  DatedRight(<<"friday">>, e)
<1>1. WordsIn(<<"friday">>) \subseteq {"friday", "friday"} /\ <<"friday">>[1] = "friday"
  BY DEF WordsIn
<1>2. WeekdaySide("bare_weekday", "friday", e)
  BY DEF WeekdaySide
<1> QED
  BY <1>1, <1>2, Phrases1, Friday, TimeTags, WeekdayIsRight

-----------------------------------------------------------------------------
(* The clock *)

\* Times of the clock.
LEMMA HourOf ==
    ASSUME NEW n \in 1..12, NEW ampm
    PROVE  /\ ApplyAmPm(n, ampm) \in 0..23
           /\ ApplyAmPm(n, ampm) % 12 = n % 12
           /\ ampm = "pm" => ApplyAmPm(n, ampm) >= 12
           /\ ampm = "am" => ApplyAmPm(n, ampm) < 12
BY DEF ApplyAmPm

LEMMA ClockArithmetic ==
    ASSUME NEW h \in 0..23, NEW n \in 1..12, h % 12 = n % 12, NEW m \in 0..59
    PROVE  /\ (60 * h + m) % 720 = 60 * (n % 12) + m
           /\ (60 * ((h - 1) % 24) + 45) % 720 = (60 * (n % 12) - 15) % 720
           /\ (h - 1) % 24 \in 0..23
           /\ h >= 12 => 60 * h + m >= 720
           /\ h < 12 => 60 * h + m < 720
OBVIOUS

\* Which rule takes which words before the hour.
ClockWords(tag, a, b) ==
    \/ tag = "specific_time_datetime" /\ a \notin {"quarter", "half"}
    \/ tag = "quarter_to" /\ a = "quarter" /\ b = "to"
    \/ tag = "quarter_past" /\ a = "quarter" /\ b # "to"
    \/ tag = "half_past" /\ a = "half"

\* The minute of the day a clock phrase is of.
ClockMinute(tag, h, m) ==
    CASE tag = "specific_time_datetime" -> 60 * h + m
      [] tag = "quarter_to" -> 60 * ((h - 1) % 24) + 45
      [] tag = "quarter_past" -> 60 * h + 15
      [] tag = "half_past" -> 60 * h + 30

LEMMA ClockIs ==
    ASSUME NEW f, f.n \in 1..12, f.m \in 0..59, NEW at,
           f.tag \in {"specific_time_datetime", "quarter_to", "quarter_past", "half_past"}
    PROVE  Resolve(f, at) = Moment(at.day, ClockMinute(f.tag, ApplyAmPm(f.n, f.ampm), f.m))
<1> DEFINE tag == f.tag
<1>1. Resolve(f, at) = Clock(f, at)
  BY DEF Resolve, DayParts, Meals, Deadlines, Today, Colloquial, FarDays, NearDays,
         Minutes, ClockTags, Edges, WeekdayTags, Weekends, RelativePeriods
<1>2. ApplyAmPm(f.n, f.ampm) \in 0..23
  BY HourOf
<1>3. CASE tag = "specific_time_datetime"
  BY <1>1, <1>2, <1>3 DEF Clock, AtHour, ClockMinute
<1>4. CASE tag = "quarter_to"
  BY <1>1, <1>2, <1>4 DEF Clock, AtHour, ClockMinute
<1>5. CASE tag = "quarter_past"
  BY <1>1, <1>2, <1>5 DEF Clock, AtHour, ClockMinute
<1>6. CASE tag = "half_past"
  BY <1>1, <1>2, <1>6 DEF Clock, AtHour, ClockMinute
<1> QED
  BY <1>3, <1>4, <1>5, <1>6

LEMMA ClockLands ==
    ASSUME NEW words, NEW e, e.n \in 1..12, e.m \in 0..59, e.ampm = SuffixOf(words, e),
           NEW tag, ClockWords(tag, words[1], words[2]),
           NEW f, GivenTo(f, tag, words, e), NEW at, at.day \in Int
    PROVE  /\ Resolve(f, at) # Untouched
           /\ ClockMeans(words, e, Resolve(f, at), at.day)
<1>1. f.tag = tag /\ f.n = e.n /\ f.m = e.m /\ f.ampm = e.ampm
  BY Zenon DEF GivenTo
<1>2. PICK n \in 1..12, m \in 0..59 : n = e.n /\ m = e.m
  OBVIOUS
<1>3. PICK h : h = ApplyAmPm(n, e.ampm)
  OBVIOUS
<1>4. tag \in {"specific_time_datetime", "quarter_to", "quarter_past", "half_past"}
  BY DEF ClockWords
<1>5. Resolve(f, at) = Moment(at.day, ClockMinute(tag, h, m))
  <2>1. h = ApplyAmPm(f.n, f.ampm)
    BY <1>1, <1>2, <1>3, Zenon
  <2>2. /\ f.n \in 1..12 /\ f.m \in 0..59
        /\ f.tag \in {"specific_time_datetime", "quarter_to", "quarter_past", "half_past"}
    BY <1>1, <1>2, <1>4
  <2>3. Resolve(f, at) = Moment(at.day, ClockMinute(f.tag, ApplyAmPm(f.n, f.ampm), f.m))
    BY <2>2, ClockIs
  <2>4. ClockMinute(f.tag, ApplyAmPm(f.n, f.ampm), f.m) = ClockMinute(tag, h, m)
    BY <1>1, <1>2, <2>1
  <2> QED
    BY <2>3, <2>4, Zenon
<1>6. PICK v : v = Resolve(f, at)
  OBVIOUS
<1>10. PICK b : b = ClockMinute(tag, h, m)
  OBVIOUS
<1>11. v = Moment(at.day, b)
  BY <1>5, <1>6, <1>10, Zenon
<1>12. v # Untouched /\ v.kind = "moment" /\ v.a = at.day /\ v.b = b
  BY <1>11, MomentIs
<1>7. v # Untouched /\ v.kind = "moment" /\ v.a = at.day /\ v.b = ClockMinute(tag, h, m)
  BY <1>10, <1>12, Zenon
<1>8. h \in 0..23 /\ h % 12 = n % 12 /\ (e.ampm = "pm" => h >= 12) /\ (e.ampm = "am" => h < 12)
  BY <1>3, HourOf
<1>9. ClockMeans(words, e, v, at.day)
  <2>1. /\ \A i \in 0..59 : (60 * h + i) % 720 = 60 * (n % 12) + i
        /\ (60 * ((h - 1) % 24) + 45) % 720 = (60 * (n % 12) - 15) % 720
        /\ h >= 12 => 60 * h + m >= 720 /\ 60 * h + 30 >= 720
        /\ h < 12 => 60 * h + m < 720 /\ 60 * h + 30 < 720
    <3>1. h \in 0..23 /\ n \in 1..12 /\ h % 12 = n % 12 /\ 30 \in 0..59
      BY <1>8
    <3> QED
      BY <3>1, ClockArithmetic
  <2>2. CASE tag = "specific_time_datetime"
    <3>1. words[1] \notin {"quarter", "half"}
      BY <2>2 DEF ClockWords
    <3>2. v.b = 60 * h + m
      BY <1>7, <2>2 DEF ClockMinute
    <3> QED
      BY <1>2, <1>7, <1>8, <2>1, <3>1, <3>2 DEF ClockMeans
  <2>3. CASE tag = "quarter_to"
    <3>1. words[1] = "quarter" /\ words[2] = "to"
      BY <2>3 DEF ClockWords
    <3>2. v.b = 60 * ((h - 1) % 24) + 45
      BY <1>7, <2>3 DEF ClockMinute
    <3> QED
      BY <1>2, <1>7, <2>1, <3>1, <3>2 DEF ClockMeans
  <2>4. CASE tag = "quarter_past"
    <3>1. words[1] = "quarter" /\ words[2] # "to"
      BY <2>4 DEF ClockWords
    <3>2. v.b = 60 * h + 15
      BY <1>7, <2>4 DEF ClockMinute
    <3> QED
      BY <1>2, <1>7, <2>1, <3>1, <3>2 DEF ClockMeans
  <2>5. CASE tag = "half_past"
    <3>1. words[1] = "half"
      BY <2>5 DEF ClockWords
    <3>2. v.b = 60 * h + 30
      BY <1>7, <2>5 DEF ClockMinute
    <3> QED
      BY <1>2, <1>7, <1>8, <2>1, <3>1, <3>2 DEF ClockMeans
  <2> QED
    BY <1>4, <2>2, <2>3, <2>4, <2>5
<1> QED
  BY <1>6, <1>7, <1>9, Zenon

\* A clock phrase, and what its pattern captures: no suffix where there is none.
ClockPhrase(tag, words) ==
    /\ ClockWords(tag, words[1], words[2])
    /\ WordsIn(words) \subseteq {"at", "half", "past", "quarter", "to", "3", "3:15", "am/pm"}
    /\ "quarter" \in WordsIn(words) => Len(words) # 2

ClockCapture(words, e) == e.n \in 1..12 /\ e.m \in 0..59 /\ e.ampm = SuffixOf(words, e)

LEMMA ClockIsRight ==
    ASSUME NEW words, IsPhrase(words), NEW e, IsCapture(e), Untagged(e),
           ClockCapture(words, e), NEW j, FirstFits(words, j),
           NEW tag, RulesInOrder[j].tag = tag, ClockPhrase(tag, words)
    PROVE  DatedRight(words, e)
<1>4. PICK said : said = WordsIn(words)
  OBVIOUS
<1>5. /\ said \subseteq {"at", "half", "past", "quarter", "to", "3", "3:15", "am/pm"}
      /\ "quarter" \in said => Len(words) # 2
  BY <1>4, Zenon DEF ClockPhrase
<1>1. /\ "month" \notin said /\ "year" \notin said /\ "spring" \notin said
      /\ "winter" \notin said /\ "week" \notin said /\ "weekend" \notin said
      /\ "friday" \notin said
  BY <1>5
<1>2. \A p \in DayPhrases : WordsIn(p[1]) # said
  <2> SUFFICES ASSUME NEW p \in DayPhrases, WordsIn(p[1]) = said PROVE FALSE
    OBVIOUS
  <2>1. \A u \in WordsIn(p[1]) :
           u \in {"at", "half", "past", "quarter", "to", "3", "3:15", "am/pm"}
    BY <1>5
  <2> QED
    BY <2>1, DayPhraseWords
<1>3. ASSUME NEW at, at.day \in Int
      PROVE  \E v : Values(ProcessMessage(words, e, at)) = <<v>> /\ Means(words, e, v, at.day)
  <2>1. PICK f : /\ GivenTo(f, tag, words, e)
                 /\ Resolve(f, at) # Untouched
                       => Values(ProcessMessage(words, e, at)) = <<Resolve(f, at)>>
    BY RuleSays, Zenon
  <2>2. Resolve(f, at) # Untouched /\ ClockMeans(words, e, Resolve(f, at), at.day)
    BY <1>3, <2>1, ClockLands, Zenon DEF ClockPhrase, ClockCapture
  <2>3. Means(words, e, Resolve(f, at), at.day)
    BY <1>1, <1>2, <1>4, <1>5, <2>2, OtherMeans, Zenon
  <2> QED
    BY <2>1, <2>2, <2>3, Zenon
<1> QED
  BY <1>3, OneIsRight, Zenon

LEMMA AtTheTimeRight ==
    ASSUME NEW e, IsCapture(e), Untagged(e), ClockCapture(<<"at", "3:15", "am/pm">>, e)
    PROVE  DatedRight(<<"at", "3:15", "am/pm">>, e)
<1>1. PICK words : words = <<"at", "3:15", "am/pm">>
  OBVIOUS
<1>2. ClockWords("specific_time_datetime", words[1], words[2])
  BY <1>1 DEF ClockWords
<1>3. /\ WordsIn(words) \subseteq {"at", "half", "past", "quarter", "to", "3", "3:15", "am/pm"}
      /\ "quarter" \in WordsIn(words) => Len(words) # 2
  BY <1>1 DEF WordsIn
<1>4. ClockPhrase("specific_time_datetime", words)
  BY <1>2, <1>3, Zenon DEF ClockPhrase
<1>5. IsPhrase(words) /\ FirstFits(words, 5)
  BY <1>1, Phrases3, AtTheTime, Zenon
<1>6. RulesInOrder[5].tag = "specific_time_datetime"
  BY TimeTags, Zenon
<1> QED
  BY <1>1, <1>4, <1>5, <1>6, ClockIsRight, Zenon

LEMMA TheTimeRight ==
    ASSUME NEW w \in {"3:15", "3"}, NEW e, IsCapture(e), Untagged(e), ClockCapture(<<w, "am/pm">>, e)
    PROVE  DatedRight(<<w, "am/pm">>, e)
<1>1. PICK words : words = <<w, "am/pm">>
  OBVIOUS
<1>2. ClockWords("specific_time_datetime", words[1], words[2])
  BY <1>1 DEF ClockWords
<1>3. /\ WordsIn(words) \subseteq {"at", "half", "past", "quarter", "to", "3", "3:15", "am/pm"}
      /\ "quarter" \in WordsIn(words) => Len(words) # 2
  BY <1>1 DEF WordsIn
<1>4. ClockPhrase("specific_time_datetime", words)
  BY <1>2, <1>3, Zenon DEF ClockPhrase
<1>5. IsPhrase(words) /\ FirstFits(words, 8)
  BY <1>1, Phrases2, TheTime, Zenon
<1>6. RulesInOrder[8].tag = "specific_time_datetime"
  BY TimeTags, Zenon
<1> QED
  BY <1>1, <1>4, <1>5, <1>6, ClockIsRight, Zenon

LEMMA HalfPastRight ==
    ASSUME NEW e, IsCapture(e), Untagged(e), ClockCapture(<<"half", "past", "3">>, e)
    PROVE  DatedRight(<<"half", "past", "3">>, e)
<1>1. PICK words : words = <<"half", "past", "3">>
  OBVIOUS
<1>2. ClockWords("half_past", words[1], words[2])
  BY <1>1 DEF ClockWords
<1>3. /\ WordsIn(words) \subseteq {"at", "half", "past", "quarter", "to", "3", "3:15", "am/pm"}
      /\ "quarter" \in WordsIn(words) => Len(words) # 2
  BY <1>1 DEF WordsIn
<1>4. ClockPhrase("half_past", words)
  BY <1>2, <1>3, Zenon DEF ClockPhrase
<1>5. IsPhrase(words) /\ FirstFits(words, 11)
  BY <1>1, Phrases3, HalfPast, Zenon
<1>6. RulesInOrder[11].tag = "half_past"
  BY TimeTags, Zenon
<1> QED
  BY <1>1, <1>4, <1>5, <1>6, ClockIsRight, Zenon

LEMMA QuarterToRight ==
    ASSUME NEW e, IsCapture(e), Untagged(e), ClockCapture(<<"quarter", "to", "3", "am/pm">>, e)
    PROVE  DatedRight(<<"quarter", "to", "3", "am/pm">>, e)
<1>1. PICK words : words = <<"quarter", "to", "3", "am/pm">>
  OBVIOUS
<1>2. ClockWords("quarter_to", words[1], words[2])
  BY <1>1 DEF ClockWords
<1>3. /\ WordsIn(words) \subseteq {"at", "half", "past", "quarter", "to", "3", "3:15", "am/pm"}
      /\ "quarter" \in WordsIn(words) => Len(words) # 2
  BY <1>1 DEF WordsIn
<1>4. ClockPhrase("quarter_to", words)
  BY <1>2, <1>3, Zenon DEF ClockPhrase
<1>5. IsPhrase(words) /\ FirstFits(words, 6)
  BY <1>1, Phrases4, QuarterTo, Zenon
<1>6. RulesInOrder[6].tag = "quarter_to"
  BY TimeTags, Zenon
<1> QED
  BY <1>1, <1>4, <1>5, <1>6, ClockIsRight, Zenon

LEMMA QuarterToBareRight ==
    ASSUME NEW e, IsCapture(e), Untagged(e), ClockCapture(<<"quarter", "to", "3">>, e)
    PROVE  DatedRight(<<"quarter", "to", "3">>, e)
<1>1. PICK words : words = <<"quarter", "to", "3">>
  OBVIOUS
<1>2. ClockWords("quarter_to", words[1], words[2])
  BY <1>1 DEF ClockWords
<1>3. /\ WordsIn(words) \subseteq {"at", "half", "past", "quarter", "to", "3", "3:15", "am/pm"}
      /\ "quarter" \in WordsIn(words) => Len(words) # 2
  BY <1>1 DEF WordsIn
<1>4. ClockPhrase("quarter_to", words)
  BY <1>2, <1>3, Zenon DEF ClockPhrase
<1>5. IsPhrase(words) /\ FirstFits(words, 6)
  BY <1>1, Phrases3, QuarterToBare, Zenon
<1>6. RulesInOrder[6].tag = "quarter_to"
  BY TimeTags, Zenon
<1> QED
  BY <1>1, <1>4, <1>5, <1>6, ClockIsRight, Zenon

LEMMA QuarterPastRight ==
    ASSUME NEW e, IsCapture(e), Untagged(e), ClockCapture(<<"quarter", "past", "3", "am/pm">>, e)
    PROVE  DatedRight(<<"quarter", "past", "3", "am/pm">>, e)
<1>1. PICK words : words = <<"quarter", "past", "3", "am/pm">>
  OBVIOUS
<1>2. ClockWords("quarter_past", words[1], words[2])
  BY <1>1 DEF ClockWords
<1>3. /\ WordsIn(words) \subseteq {"at", "half", "past", "quarter", "to", "3", "3:15", "am/pm"}
      /\ "quarter" \in WordsIn(words) => Len(words) # 2
  BY <1>1 DEF WordsIn
<1>4. ClockPhrase("quarter_past", words)
  BY <1>2, <1>3, Zenon DEF ClockPhrase
<1>5. IsPhrase(words) /\ FirstFits(words, 7)
  BY <1>1, Phrases4, QuarterPast, Zenon
<1>6. RulesInOrder[7].tag = "quarter_past"
  BY TimeTags, Zenon
<1> QED
  BY <1>1, <1>4, <1>5, <1>6, ClockIsRight, Zenon

LEMMA QuarterPastBareRight ==
    ASSUME NEW e, IsCapture(e), Untagged(e), ClockCapture(<<"quarter", "past", "3">>, e)
    PROVE  DatedRight(<<"quarter", "past", "3">>, e)
<1>1. PICK words : words = <<"quarter", "past", "3">>
  OBVIOUS
<1>2. ClockWords("quarter_past", words[1], words[2])
  BY <1>1 DEF ClockWords
<1>3. /\ WordsIn(words) \subseteq {"at", "half", "past", "quarter", "to", "3", "3:15", "am/pm"}
      /\ "quarter" \in WordsIn(words) => Len(words) # 2
  BY <1>1 DEF WordsIn
<1>4. ClockPhrase("quarter_past", words)
  BY <1>2, <1>3, Zenon DEF ClockPhrase
<1>5. IsPhrase(words) /\ FirstFits(words, 7)
  BY <1>1, Phrases3, QuarterPastBare, Zenon
<1>6. RulesInOrder[7].tag = "quarter_past"
  BY TimeTags, Zenon
<1> QED
  BY <1>1, <1>4, <1>5, <1>6, ClockIsRight, Zenon

-----------------------------------------------------------------------------
(* Weeks and weekends *)
\* Weeks and weekends are tags of their own: their rule comes after the tables.

\* What a phrase with a tag of its own says, if no rule of the tables takes it.
TagFits(words, e) ==
    /\ RulePhrase(words) /\ e.tag # ""
    /\ \A k \in 1..40 : ~Fits(RulesInOrder[k], WordsIn(words))

LEMMA TagSays ==
    ASSUME NEW words, NEW e, IsCapture(e), TagFits(words, e), NEW at
    PROVE  \E f : /\ GivenTo(f, e.tag, words, e)
                  /\ Resolve(f, at) # Untouched
                        => Values(ProcessMessage(words, e, at)) = <<Resolve(f, at)>>
<1>1. PICK v : v = Resolved(words, Rule(e.tag, {words}), e, at)
  OBVIOUS
<1>2. Rule(e.tag, {words}).tag = e.tag
  BY DEF Rule
<1>3. PICK f : v = Resolve(f, at) /\ GivenTo(f, e.tag, words, e)
  BY <1>1, <1>2, ResolvedIs
<1>4. v # Untouched => Values(ProcessMessage(words, e, at)) = <<v>>
  BY <1>1, TagMeans, Zenon DEF TagFits
<1> QED
  BY <1>3, <1>4, Zenon

\* The tags of weeks and weekends.
OfWeek == [last |-> "last_week", this |-> "this_week", next |-> "next_week"]
OfWeekend ==
    [last |-> "last_weekend", this |-> "this_weekend", next |-> "next_weekend"]

\* The words of periods and seasons are no phrase of the tables.
PeriodUnits == {"week", "weekend", "month", "year", "quarter", "spring", "winter"}
PeriodWords == {"last", "this", "next"} \cup PeriodUnits

LEMMA NoPeriodFits == \A k \in 1..40 : ~Fits(RulesInOrder[k], PeriodWords)
<1>1. Idle(TimeDemands, 13, PeriodWords)
  BY DEF Idle, TimeDemands, PeriodWords, PeriodUnits
<1>2. Idle(DayDemands, 13, PeriodWords)
  BY DEF Idle, DayDemands, PeriodWords, PeriodUnits
<1>3. Idle(TomorrowDemands, 14, PeriodWords)
  BY DEF Idle, TomorrowDemands, PeriodWords, PeriodUnits
<1> QED
  BY <1>1, <1>2, <1>3, NoneFits, Zenon

\* A capture has this tag.
Names(e, tag) == e.tag = tag

LEMMA PeriodFits ==
    ASSUME NEW d \in {"last", "this", "next"}, NEW u \in PeriodUnits,
           NEW e, ~Untagged(e)
    PROVE  TagFits(<<d, u>>, e)
<1>1. PICK words : words = <<d, u>>
  OBVIOUS
<1>2. \A w \in WordsIn(words) : w \in PeriodWords
  BY <1>1 DEF WordsIn, PeriodWords, PeriodUnits
<1>6. \A k \in 1..40 : ~Fits(RulesInOrder[k], WordsIn(words))
  <2>1. \A k \in 1..40 : ~Fits(RulesInOrder[k], PeriodWords)
    BY NoPeriodFits, Zenon
  <2> QED
    BY <1>2, <2>1, Zenon DEF Fits
<1>7. d # ""
  OBVIOUS
<1>8. RulePhrase(words)
  BY <1>1, <1>7, Phrase2, Zenon
<1> QED
  BY <1>1, <1>6, <1>8, Zenon DEF TagFits, Untagged

\* Days whose weeks are k apart.
LEMMA WeeksApart ==
    ASSUME NEW n \in Int
    PROVE  /\ StartOf("week", n) = n - DayOfWeek(n) /\ EndOf("week", n) = n - DayOfWeek(n) + 6
           /\ DayOfWeek(n) \in 0..6
           /\ DayOfWeek(n - DayOfWeek(n)) = 0
           /\ DayOfWeek(n - DayOfWeek(n) - 7) = 0
           /\ DayOfWeek(n - DayOfWeek(n) + 7) = 0
           /\ \A k \in 0..6 : DayOfWeek(n - DayOfWeek(n) + k) = k
           /\ DayOfWeek(n - DayOfWeek(n) - 2) = 5 
           /\ DayOfWeek(n - DayOfWeek(n) + 12) = 5 
<1>1. StartOf("week", n) = n - DayOfWeek(n) /\ EndOf("week", n) = n - DayOfWeek(n) + 6
  BY DEF StartOf, EndOf
<1> QED
  BY <1>1 DEF DayOfWeek

\* What the handlers of weeks and weekends make of their tags.
LEMMA WeekLands ==
    ASSUME NEW f, NEW at, at.day \in Int,
           f.tag \in {"last_week", "this_week", "next_week"}
    PROVE  Resolve(f, at) =
              Span("week", CASE f.tag = "last_week" -> StartOf("week", at.day) - 7
                             [] f.tag = "this_week" -> at.day
                             [] f.tag = "next_week" -> StartOf("week", at.day) + 7)
<1>1. Resolve(f, at) = RelativePeriod(f, at)
  BY DEF Resolve, DayParts, Meals, Deadlines, Today, Colloquial, FarDays, NearDays,
         Minutes, ClockTags, Edges, WeekdayTags, Weekends, RelativePeriods
<1> QED
  BY <1>1 DEF RelativePeriod

LEMMA WeekendLands ==
    ASSUME NEW f, NEW at, at.day \in Int,
           f.tag \in {"last_weekend", "this_weekend", "next_weekend"},
           NEW k, k = StartOf("week", at.day) + 5 + Weekends[f.tag]
    PROVE  Resolve(f, at) = Dates(k, k + 1)
<1>1. Resolve(f, at) = Weekend(f, at)
  BY DEF Resolve, DayParts, Meals, Deadlines, Today, Colloquial, FarDays, NearDays,
         Minutes, ClockTags, Edges, WeekdayTags, Weekends, RelativePeriods
<1> QED
  BY <1>1, Zenon DEF Weekend

LEMMA DatesAre ==
    ASSUME NEW a, NEW b
    PROVE  /\ Dates(a, b) # Untouched
           /\ Dates(a, b).kind = "dates" /\ Dates(a, b).a = a /\ Dates(a, b).b = b
BY DEF Dates, Result, Untouched

LEMMA WeekSpan ==
    ASSUME NEW n \in Int
    PROVE  \E m \in Int : /\ Span("week", n) = Dates(m, m + 6) /\ m = n - DayOfWeek(n)
                          /\ StartOf("week", m) = m /\ EndOf("week", m) = m + 6
<1>1. PICK m \in Int : m = n - DayOfWeek(n)
  BY WeeksApart
<1>2. DayOfWeek(m) = 0
  BY <1>1, WeeksApart
<1>3. StartOf("week", m) = m /\ EndOf("week", m) = m + 6
  BY <1>2, WeeksApart
<1>4. Span("week", n) = Dates(m, m + 6)
  BY <1>1, WeeksApart DEF Span
<1> QED
  BY <1>1, <1>3, <1>4

LEMMA WeekMeans ==
    ASSUME NEW d \in {"last", "this", "next"}, NEW words, words[1] = d,
           NEW f, f.tag = OfWeek[d], NEW at, at.day \in Int
    PROVE  Resolve(f, at) # Untouched /\ PeriodMeans("week", words, Resolve(f, at), at.day)
<1>1. PICK today \in Int, s \in Int : today = at.day /\ s = StartOf("week", today)
  BY WeeksApart
<1>2. PICK n \in Int : n = (CASE f.tag = "last_week" -> s - 7
                              [] f.tag = "this_week" -> today
                              [] f.tag = "next_week" -> s + 7)
  BY DEF OfWeek
<1>3. Resolve(f, at) = Span("week", n)
  BY <1>1, <1>2, WeekLands DEF OfWeek
<1>4. PICK m \in Int : /\ Span("week", n) = Dates(m, m + 6) /\ m = n - DayOfWeek(n)
                       /\ StartOf("week", m) = m /\ EndOf("week", m) = m + 6
  BY WeekSpan
<1>5. PICK v : v = Resolve(f, at)
  OBVIOUS
<1>6. v # Untouched /\ v.kind = "dates" /\ v.a = m /\ v.b = m + 6
  BY <1>3, <1>4, <1>5, DatesAre
<1>7. EndOf("week", today) = s + 6 /\ today \in s..(s + 6)
  BY <1>1, WeeksApart
<1>8. m = (CASE d = "last" -> s - 7 [] d = "this" -> s [] d = "next" -> s + 7)
  <2>1. CASE d = "last"
    BY <1>1, <1>2, <1>4, <2>1, WeeksApart DEF OfWeek
  <2>2. CASE d = "this"
    BY <1>1, <1>2, <1>4, <2>2, WeeksApart DEF OfWeek
  <2>3. CASE d = "next"
    BY <1>1, <1>2, <1>4, <2>3, WeeksApart DEF OfWeek
  <2> QED
    BY <2>1, <2>2, <2>3
<1>9. PeriodMeans("week", words, v, today)
  <2>1. v.a = StartOf("week", v.a) /\ v.b = EndOf("week", v.a)
    BY <1>4, <1>6, Zenon
  <2>2. (CASE words[1] = "last" -> v.b + 1 = s
           [] words[1] = "this" -> today \in v.a..v.b
           [] words[1] = "next" -> v.a - 1 = s + 6)
    <3>1. CASE d = "last"
      <4>1. v.b + 1 = s
        BY <1>6, <1>8, <3>1
      <4> QED
        BY <3>1, <4>1
    <3>2. CASE d = "this"
      <4>1. v.a = s /\ v.b = s + 6
        BY <1>6, <1>8, <3>2
      <4>2. today \in v.a..v.b
        BY <1>7, <4>1
      <4> QED
        BY <3>2, <4>2
    <3>3. CASE d = "next"
      <4>1. v.a - 1 = s + 6
        BY <1>6, <1>8, <3>3
      <4> QED
        BY <3>3, <4>1
    <3> QED
      BY <3>1, <3>2, <3>3
  <2>3. (CASE words[1] = "last" -> v.b + 1 = StartOf("week", today)
           [] words[1] = "this" -> today \in v.a..v.b
           [] words[1] = "next" -> v.a - 1 = EndOf("week", today))
    BY <1>1, <1>7, <2>2
  <2> QED
    BY <1>6, <2>1, <2>3, Zenon DEF PeriodMeans
<1> QED
  BY <1>1, <1>5, <1>6, <1>9, Zenon

LEMMA WeekendIs ==
    ASSUME NEW d \in {"last", "this", "next"}, NEW words, words[1] = d,
           NEW f, f.tag = OfWeekend[d], NEW at, at.day \in Int
    PROVE  Resolve(f, at) # Untouched /\ WeekendMeans(words, Resolve(f, at), at.day)
<1>1. PICK today \in Int, s \in Int : today = at.day /\ s = StartOf("week", today)
  BY WeeksApart
<1>2. PICK k \in Int : k = s + 5 + Weekends[f.tag]
  BY DEF OfWeekend, Weekends
<1>3. Resolve(f, at) = Dates(k, k + 1)
  BY <1>1, <1>2, WeekendLands DEF OfWeekend
<1>4. PICK v : v = Resolve(f, at)
  OBVIOUS
<1>5. v # Untouched /\ v.a = k /\ v.b = k + 1
  BY <1>3, <1>4, DatesAre
<1>6. today \in s..(s + 6)
  BY <1>1, WeeksApart
<1>7. k = (CASE d = "last" -> s - 2 [] d = "this" -> s + 5 [] d = "next" -> s + 12)
  BY <1>2 DEF OfWeekend, Weekends
<1>8. DayOfWeek(k) = 5
  <2>1. DayOfWeek(s - 2) = 5 /\ DayOfWeek(s + 5) = 5 /\ DayOfWeek(s + 12) = 5
    BY <1>1, WeeksApart
  <2> QED
    BY <1>7, <2>1
<1>9. WeekendMeans(words, v, today)
  <2>1. DayOfWeek(v.a) = 5 /\ v.b = v.a + 1
    BY <1>5, <1>8, Zenon
  <2>2. CASE d = "last"
    <3>1. v.b < today /\ today - v.b <= 7
      BY <1>5, <1>6, <1>7, <2>2
    <3> QED
      BY <2>1, <2>2, <3>1 DEF WeekendMeans
  <2>3. CASE d = "this"
    <3>1. today <= v.b /\ v.b - today <= 6
      BY <1>5, <1>6, <1>7, <2>3
    <3> QED
      BY <2>1, <2>3, <3>1 DEF WeekendMeans
  <2>4. CASE d = "next"
    <3>1. today < v.a /\ v.a - today <= 12
      BY <1>5, <1>6, <1>7, <2>4
    <3> QED
      BY <2>1, <2>4, <3>1 DEF WeekendMeans
  <2> QED
    BY <2>2, <2>3, <2>4
<1> QED
  BY <1>1, <1>4, <1>5, <1>9, Zenon

LEMMA OwnTags ==
    ASSUME NEW d \in {"last", "this", "next"}
    PROVE  OfWeek[d] # "" /\ OfWeekend[d] # ""
<1>1. OfWeek[d] \in {"last_week", "this_week", "next_week"}
  BY DEF OfWeek
<1>2. OfWeekend[d] \in {"last_weekend", "this_weekend", "next_weekend"}
  BY DEF OfWeekend
<1> QED
  BY <1>1, <1>2

LEMMA WeekIsRight ==
    ASSUME NEW d \in {"last", "this", "next"}, NEW e, IsCapture(e), Names(e, OfWeek[d])
    PROVE  DatedRight(<<d, "week">>, e)
<1>1. PICK words, u : words = <<d, u>> /\ u = "week"
  OBVIOUS
<1>9. u \in PeriodUnits
  BY <1>1 DEF PeriodUnits
<1>2. ~Untagged(e)
  BY OwnTags, Zenon DEF Untagged, Names
<1>3. TagFits(words, e)
  <2>1. TagFits(<<d, u>>, e)
    BY <1>2, <1>9, PeriodFits
  <2> QED
    BY <1>1, <2>1, Zenon
<1>4. words[1] = d /\ \A w \in WordsIn(words) : w \in {d, "week"}
  BY <1>1 DEF WordsIn
<1>5. PICK said : said = WordsIn(words)
  OBVIOUS
<1>6. /\ "month" \notin said /\ "year" \notin said /\ "spring" \notin said
      /\ "winter" \notin said /\ "quarter" \notin said /\ "weekend" \notin said
      /\ "friday" \notin said /\ "3:15" \notin said /\ "3" \notin said
  BY <1>4, <1>5
<1>7. \A p \in DayPhrases : WordsIn(p[1]) # said
  <2> SUFFICES ASSUME NEW p \in DayPhrases, WordsIn(p[1]) = said PROVE FALSE
    OBVIOUS
  <2>1. \A x \in WordsIn(p[1]) : x \in {"last", "this", "next", "week"}
    BY <1>4, <1>5
  <2> QED
    BY <2>1, DayPhraseWords
<1>8. ASSUME NEW at, at.day \in Int
      PROVE  \E v : Values(ProcessMessage(words, e, at)) = <<v>> /\ Means(words, e, v, at.day)
  <2>1. PICK f : /\ GivenTo(f, e.tag, words, e)
                 /\ Resolve(f, at) # Untouched
                       => Values(ProcessMessage(words, e, at)) = <<Resolve(f, at)>>
    BY <1>3, TagSays, Zenon
  <2>2. f.tag = OfWeek[d]
    BY <2>1, Zenon DEF GivenTo, Names
  <2>3. Resolve(f, at) # Untouched /\ PeriodMeans("week", words, Resolve(f, at), at.day)
    BY <1>4, <1>8, <2>2, WeekMeans
  <2>4. Means(words, e, Resolve(f, at), at.day)
    BY <1>5, <1>6, <1>7, <2>3, OtherMeans, Zenon
  <2> QED
    BY <2>1, <2>3, <2>4, Zenon
<1> QED
  BY <1>1, <1>8, OneIsRight, Zenon

LEMMA WeekendIsRight ==
    ASSUME NEW d \in {"last", "this", "next"}, NEW e, IsCapture(e), Names(e, OfWeekend[d])
    PROVE  DatedRight(<<d, "weekend">>, e)
<1>1. PICK words, u : words = <<d, u>> /\ u = "weekend"
  OBVIOUS
<1>9. u \in PeriodUnits
  BY <1>1 DEF PeriodUnits
<1>2. ~Untagged(e)
  BY OwnTags, Zenon DEF Untagged, Names
<1>3. TagFits(words, e)
  <2>1. TagFits(<<d, u>>, e)
    BY <1>2, <1>9, PeriodFits
  <2> QED
    BY <1>1, <2>1, Zenon
<1>4. words[1] = d /\ \A w \in WordsIn(words) : w \in {d, "weekend"}
  BY <1>1 DEF WordsIn
<1>5. PICK said : said = WordsIn(words)
  OBVIOUS
<1>6. /\ "month" \notin said /\ "year" \notin said /\ "spring" \notin said
      /\ "winter" \notin said /\ "quarter" \notin said /\ "week" \notin said
      /\ "friday" \notin said /\ "3:15" \notin said /\ "3" \notin said
  BY <1>4, <1>5
<1>7. \A p \in DayPhrases : WordsIn(p[1]) # said
  <2> SUFFICES ASSUME NEW p \in DayPhrases, WordsIn(p[1]) = said PROVE FALSE
    OBVIOUS
  <2>1. \A x \in WordsIn(p[1]) : x \in {"last", "this", "next", "weekend"}
    BY <1>4, <1>5
  <2> QED
    BY <2>1, DayPhraseWords
<1>8. ASSUME NEW at, at.day \in Int
      PROVE  \E v : Values(ProcessMessage(words, e, at)) = <<v>> /\ Means(words, e, v, at.day)
  <2>1. PICK f : /\ GivenTo(f, e.tag, words, e)
                 /\ Resolve(f, at) # Untouched
                       => Values(ProcessMessage(words, e, at)) = <<Resolve(f, at)>>
    BY <1>3, TagSays, Zenon
  <2>2. f.tag = OfWeekend[d]
    BY <2>1, Zenon DEF GivenTo, Names
  <2>3. Resolve(f, at) # Untouched /\ WeekendMeans(words, Resolve(f, at), at.day)
    BY <1>4, <1>8, <2>2, WeekendIs
  <2>4. Means(words, e, Resolve(f, at), at.day)
    BY <1>5, <1>6, <1>7, <2>3, OtherMeans, Zenon
  <2> QED
    BY <2>1, <2>3, <2>4, Zenon
<1> QED
  BY <1>1, <1>8, OneIsRight, Zenon

-----------------------------------------------------------------------------
(* The calendar *)
\* Months are counted from January of the year 0: the first days of months and
\* years grow, and a day is in the month and year YearOf and MonthOf find.

\* The tables of the calendar.
LEMMA DaysBeforeAre ==
    /\ DaysBefore[1] = 0 /\ DaysBefore[2] = 31 /\ DaysBefore[3] = 59 /\ DaysBefore[4] = 90
    /\ DaysBefore[5] = 120 /\ DaysBefore[6] = 151 /\ DaysBefore[7] = 181
    /\ DaysBefore[8] = 212 /\ DaysBefore[9] = 243 /\ DaysBefore[10] = 273
    /\ DaysBefore[11] = 304 /\ DaysBefore[12] = 334
BY DEF DaysBefore

\* The leap days of the years up to y.
LeapDays(y) == y \div 4 - y \div 100 + y \div 400

LEMMA LeapsIn ==
    ASSUME NEW y \in Int, NEW p \in Int, p = y - 1
    PROVE  /\ LeapDays(y) \in Int
           /\ LeapDays(y) = LeapDays(p) + (IF LeapYear(y) THEN 1 ELSE 0)
<1>1. y \div 4 = p \div 4 + (IF y % 4 = 0 THEN 1 ELSE 0)
  OBVIOUS
<1>2. y \div 100 = p \div 100 + (IF y % 100 = 0 THEN 1 ELSE 0)
  OBVIOUS
<1>3. y \div 400 = p \div 400 + (IF y % 400 = 0 THEN 1 ELSE 0)
  OBVIOUS
<1>4. (y % 100 = 0 => y % 4 = 0) /\ (y % 400 = 0 => y % 100 = 0)
  OBVIOUS
<1>5. PICK a \in Int, b \in Int, c \in Int : a = p \div 4 /\ b = p \div 100 /\ c = p \div 400
  OBVIOUS
<1>6. PICK u, v, w : u = y % 4 /\ v = y % 100 /\ w = y % 400
  OBVIOUS
<1> QED
  BY <1>1, <1>2, <1>3, <1>4, <1>5, <1>6 DEF LeapYear, LeapDays

\* The first day of a year.
Newyear(y) == DayNumber(y, 1, 1)

LEMMA LeapDaysGrow ==
    ASSUME NEW y \in Int
    PROVE  /\ LeapDays(y) \in Int
           /\ LeapDays(y) = LeapDays(y - 1) + (IF LeapYear(y) THEN 1 ELSE 0)
BY LeapsIn

LEMMA NewyearIs ==
    ASSUME NEW y \in Int
    PROVE  Newyear(y) = 365 * (y - 1) + LeapDays(y - 1) + 1
BY DaysBeforeAre DEF Newyear, DayNumber, LeapDays

\* A year is 365 days, or 366.
LEMMA YearLength ==
    ASSUME NEW y \in Int
    PROVE  /\ Newyear(y) \in Int
           /\ Newyear(y + 1) = Newyear(y) + (IF LeapYear(y) THEN 366 ELSE 365)
<1>1. PICK l \in Int, n \in Int : l = LeapDays(y - 1) /\ n = LeapDays(y)
  BY LeapDaysGrow
<1>2. n = l + (IF LeapYear(y) THEN 1 ELSE 0)
  BY <1>1, LeapDaysGrow
<1>3. Newyear(y) = 365 * (y - 1) + l + 1
  BY <1>1, NewyearIs
<1>4. Newyear(y + 1) = 365 * y + n + 1
  <2>1. y + 1 \in Int /\ (y + 1) - 1 = y
    OBVIOUS
  <2> QED
    BY <2>1, <1>1, NewyearIs
<1> QED
  BY <1>2, <1>3, <1>4

LEMMA MonthStarts ==
    ASSUME NEW y \in Int, NEW m \in 1..12
    PROVE  DayNumber(y, m, 1)
             = Newyear(y) + DaysBefore[m] + (IF m > 2 /\ LeapYear(y) THEN 1 ELSE 0)
<1>1. PICK p : p = y - 1
  OBVIOUS
<1>2. PICK l \in Int : l = 365 * p + p \div 4 - p \div 100 + p \div 400
  BY <1>1
<1>3. DayNumber(y, 1, 1) = l + 1
  BY <1>1, <1>2, DaysBeforeAre DEF DayNumber
<1>4. DaysBefore[m] \in Int
  BY DaysBeforeAre
<1>5. DayNumber(y, m, 1) = l + DaysBefore[m] + (IF m > 2 /\ LeapYear(y) THEN 1 ELSE 0) + 1
  BY <1>1, <1>2 DEF DayNumber
<1> QED
  BY <1>3, <1>4, <1>5 DEF Newyear

\* The k-th month, counted from January of the year 0.
FirstOf(k) == DayNumber(k \div 12, (k % 12) + 1, 1)
LengthOf(k) == MonthLength(k \div 12, (k % 12) + 1)

\* A month follows the one before it, from one year to the next too.
LEMMA MonthFollows ==
    ASSUME NEW k \in Int
    PROVE  FirstOf(k) \in Int /\ FirstOf(k + 1) = FirstOf(k) + LengthOf(k)
<1>1. PICK y \in Int, m \in 1..12 : y = k \div 12 /\ m = (k % 12) + 1
  OBVIOUS
<1>2. PICK j \in Int : j = Newyear(y)
  BY YearLength
<1>3. PICK leap \in {0, 1} : leap = IF LeapYear(y) THEN 1 ELSE 0
  OBVIOUS
<1>4. FirstOf(k) = j + DaysBefore[m] + (IF m > 2 THEN leap ELSE 0)
  BY <1>1, <1>2, <1>3, MonthStarts DEF FirstOf
<1>5. DaysBefore[m] \in Int
  BY DaysBeforeAre
<1>6. LengthOf(k) = IF m = 2 THEN 28 + leap ELSE IF m \in {4, 6, 9, 11} THEN 30 ELSE 31
  BY <1>1, <1>3 DEF LengthOf, MonthLength
<1>7. CASE m < 12
  <2>1. (k + 1) \div 12 = y /\ ((k + 1) % 12) + 1 = m + 1 /\ m + 1 \in 1..12
    BY <1>1, <1>7
  <2>2. FirstOf(k + 1) = j + DaysBefore[m + 1] + (IF m + 1 > 2 THEN leap ELSE 0)
    BY <2>1, <1>2, <1>3, MonthStarts DEF FirstOf
  <2>3. DaysBefore[m + 1]
          = DaysBefore[m] + IF m = 2 THEN 28 ELSE IF m \in {4, 6, 9, 11} THEN 30 ELSE 31
    BY <1>7, DaysBeforeAre
  <2> QED
    BY <1>4, <1>5, <1>6, <2>2, <2>3
<1>8. CASE m = 12
  <2>1. (k + 1) \div 12 = y + 1 /\ ((k + 1) % 12) + 1 = 1
    BY <1>1, <1>8
  <2>2. FirstOf(k + 1) = Newyear(y + 1)
    BY <2>1 DEF FirstOf, Newyear
  <2>3. Newyear(y + 1) = j + 365 + leap
    BY <1>2, <1>3, YearLength
  <2> QED
    BY <1>4, <1>5, <1>6, <1>8, <2>2, <2>3, DaysBeforeAre
<1> QED
  BY <1>4, <1>5, <1>7, <1>8

\* Years follow one another.
LEMMA NewyearGrows ==
    ASSUME NEW a \in Int, NEW b \in Int, a <= b
    PROVE  Newyear(a) <= Newyear(b)
<1>1. CASE a = b
  BY <1>1, YearLength
<1>2. CASE b = a + 1
  <2>1. Newyear(a) \in Int /\ Newyear(a + 1) = Newyear(a) + (IF LeapYear(a) THEN 366 ELSE 365)
    BY YearLength
  <2> QED
    BY <1>2, <2>1
<1>3. CASE b >= a + 2
  <2>1. PICK p \in Int, q \in Int : p = a - 1 /\ q = b - 1
    OBVIOUS
  <2>2. PICK s \in Int, t \in Int : s = LeapDays(p) /\ t = LeapDays(q)
    BY DEF LeapDays
  <2>3. s * 400 <= 97 * p + 500
    BY <2>2 DEF LeapDays
  <2>4. t * 400 >= 97 * q - 800
    BY <2>2 DEF LeapDays
  <2>5. Newyear(a) = 365 * p + s + 1 /\ Newyear(b) = 365 * q + t + 1
    BY <2>1, <2>2, NewyearIs
  <2>6. q >= p + 2
    BY <1>3, <2>1
  <2> QED
    BY <2>3, <2>4, <2>5, <2>6
<1> QED
  BY <1>1, <1>2, <1>3

\* The year of a day is the one it is in.
LEMMA YearIs ==
    ASSUME NEW n \in Int, NEW y \in Int, y >= 1, Newyear(y) <= n, n < Newyear(y + 1)
    PROVE  YearOf(n) = y
<1>1. PICK l \in Int, p \in Int : l = LeapDays(p) /\ p = y - 1
  BY LeapsIn
<1>2. 0 <= l /\ l <= p
  BY <1>1 DEF LeapDays
<1>3. Newyear(y) = 365 * p + l + 1
  BY <1>1, NewyearIs
<1>4. n < 365 * p + l + 1 + 366
  <2>1. Newyear(y + 1) = Newyear(y) + (IF LeapYear(y) THEN 366 ELSE 365)
    BY YearLength
  <2>2. Newyear(y) \in Int
    BY YearLength
  <2> QED
    BY <1>3, <2>1, <2>2
<1>5. n <= 366 * y
  BY <1>1, <1>2, <1>4
<1>6. y \in (n \div 366)..(n \div 365 + 1)
  <2>1. n \div 366 <= y
    BY <1>5
  <2>2. y - 1 <= n \div 365
    BY <1>1, <1>2, <1>3
  <2> QED
    BY <2>1, <2>2
<1>7. ASSUME NEW z \in Int, Newyear(z) <= n, n < Newyear(z + 1)
      PROVE  z = y
  <2>1. /\ Newyear(z) \in Int /\ Newyear(y) \in Int
        /\ Newyear(z + 1) \in Int /\ Newyear(y + 1) \in Int
    BY YearLength
  <2>2. CASE z < y
    <3>1. Newyear(z + 1) <= Newyear(y)
      BY <2>2, NewyearGrows
    <3> QED
      BY <1>7, <2>1, <3>1
  <2>3. CASE z > y
    <3>1. Newyear(y + 1) <= Newyear(z)
      BY <2>3, NewyearGrows
    <3> QED
      BY <1>7, <2>1, <3>1
  <2> QED
    BY <2>2, <2>3
<1>8. \A z \in (n \div 366)..(n \div 365 + 1) :
        (DayNumber(z, 1, 1) <= n /\ n < DayNumber(z + 1, 1, 1)) => z = y
  BY <1>7 DEF Newyear
<1>9. DayNumber(y, 1, 1) <= n /\ n < DayNumber(y + 1, 1, 1)
  BY DEF Newyear
<1> QED
  BY <1>6, <1>8, <1>9 DEF YearOf

\* Months of a year do not overlap.
LEMMA MonthsApart ==
    ASSUME NEW y \in Int, NEW a \in 1..12, NEW b \in 1..12, a < b
    PROVE  DayNumber(y, a, 1) + MonthLength(y, a) <= DayNumber(y, b, 1)
<1>1. PICK j \in Int : j = Newyear(y)
  BY YearLength
<1>2. PICK leap \in {0, 1} : leap = IF LeapYear(y) THEN 1 ELSE 0
  OBVIOUS
<1>3. DayNumber(y, a, 1) = j + DaysBefore[a] + (IF a > 2 THEN leap ELSE 0)
  BY <1>1, <1>2, MonthStarts
<1>4. DayNumber(y, b, 1) = j + DaysBefore[b] + (IF b > 2 THEN leap ELSE 0)
  BY <1>1, <1>2, MonthStarts
<1>5. MonthLength(y, a) = IF a = 2 THEN 28 + leap ELSE IF a \in {4, 6, 9, 11} THEN 30 ELSE 31
  BY <1>2 DEF MonthLength
<1>6. /\ DaysBefore[a] \in Int /\ DaysBefore[b] \in Int
      /\ DaysBefore[a] + (IF a = 2 THEN 28 ELSE IF a \in {4, 6, 9, 11} THEN 30 ELSE 31)
           <= DaysBefore[b]
  BY DaysBeforeAre
<1> QED
  BY <1>3, <1>4, <1>5, <1>6

LEMMA MonthInYear ==
    ASSUME NEW y \in Int, NEW m \in 1..12
    PROVE  /\ DayNumber(y, m, 1) \in Int /\ MonthLength(y, m) \in 28..31
           /\ Newyear(y) <= DayNumber(y, m, 1)
           /\ DayNumber(y, m, 1) + MonthLength(y, m) <= Newyear(y + 1)
<1>1. PICK j \in Int : j = Newyear(y)
  BY YearLength
<1>2. PICK leap \in {0, 1} : leap = IF LeapYear(y) THEN 1 ELSE 0
  OBVIOUS
<1>3. DayNumber(y, m, 1) = j + DaysBefore[m] + (IF m > 2 THEN leap ELSE 0)
  BY <1>1, <1>2, MonthStarts
<1>4. MonthLength(y, m) = IF m = 2 THEN 28 + leap ELSE IF m \in {4, 6, 9, 11} THEN 30 ELSE 31
  BY <1>2 DEF MonthLength
<1>5. Newyear(y + 1) = j + 365 + leap
  BY <1>1, <1>2, YearLength
<1>6. DaysBefore[m] \in Int /\ DaysBefore[m] >= 0
  BY DaysBeforeAre
<1>7. DaysBefore[m] + (IF m = 2 THEN 28 ELSE IF m \in {4, 6, 9, 11} THEN 30 ELSE 31) <= 365
  BY DaysBeforeAre
<1> QED
  BY <1>1, <1>3, <1>4, <1>5, <1>6, <1>7

LEMMA MonthTyped ==
    ASSUME NEW y \in Int, NEW m \in 1..12
    PROVE  DayNumber(y, m, 1) \in Int /\ MonthLength(y, m) \in Int
<1>1. MonthLength(y, m) \in 28..31 /\ DayNumber(y, m, 1) \in Int
  BY MonthInYear, Zenon
<1>2. \A b : b \in 28..31 => b \in Int
  OBVIOUS
<1> QED
  BY <1>1, <1>2, Zenon

\* The month of a day is the one it is in.
LEMMA MonthIs ==
    ASSUME NEW y \in Int, y >= 1, NEW m \in 1..12, NEW n \in Int,
           DayNumber(y, m, 1) <= n, n < DayNumber(y, m, 1) + MonthLength(y, m)
    PROVE  YearOf(n) = y /\ MonthOf(n) = m
<1>1. YearOf(n) = y
  <2>1. /\ DayNumber(y, m, 1) \in Int /\ MonthLength(y, m) \in 28..31
        /\ Newyear(y) <= DayNumber(y, m, 1)
        /\ DayNumber(y, m, 1) + MonthLength(y, m) <= Newyear(y + 1)
    BY MonthInYear
  <2>2. Newyear(y) \in Int /\ Newyear(y + 1) \in Int
    BY YearLength
  <2>3. Newyear(y) <= n /\ n < Newyear(y + 1)
    BY <2>1, <2>2
  <2> QED
    BY <2>3, YearIs
<1>2. ASSUME NEW k \in 1..12,
             n \in DayNumber(y, k, 1)..(DayNumber(y, k, 1) + MonthLength(y, k) - 1)
      PROVE  k = m
  <2>1. /\ DayNumber(y, m, 1) \in Int /\ MonthLength(y, m) \in Int
        /\ DayNumber(y, k, 1) \in Int /\ MonthLength(y, k) \in Int
    BY MonthTyped, Zenon
  <2>2. PICK a \in Int, b \in Int, c \in Int, d \in Int :
           /\ a = DayNumber(y, m, 1) /\ b = MonthLength(y, m)
           /\ c = DayNumber(y, k, 1) /\ d = MonthLength(y, k)
    BY <2>1
  <2>3. a <= n /\ n < a + b /\ c <= n /\ n <= c + d - 1
    BY <1>2, <2>2
  <2>4. k < m => c + d <= a
    BY <2>2, MonthsApart
  <2>5. m < k => a + b <= c
    BY <2>2, MonthsApart
  <2> QED
    BY <2>3, <2>4, <2>5
<1>3. n \in DayNumber(y, m, 1)..(DayNumber(y, m, 1) + MonthLength(y, m) - 1)
  <2>1. PICK a \in Int, b \in Int : a = DayNumber(y, m, 1) /\ b = MonthLength(y, m)
    BY MonthTyped, Zenon
  <2> QED
    BY <2>1
<1> QED
  BY <1>1, <1>2, <1>3, Zenon DEF MonthOf

\* A day of the k-th month.
InMonth(n, k) == FirstOf(k) <= n /\ n < FirstOf(k + 1)

LEMMA InMonthIs ==
    ASSUME NEW k \in Int, k >= 12, NEW n \in Int, InMonth(n, k)
    PROVE  /\ YearOf(n) = k \div 12 /\ MonthOf(n) = (k % 12) + 1
           /\ StartOf("month", n) = FirstOf(k) /\ EndOf("month", n) = FirstOf(k + 1) - 1
           /\ DayOfMonth(n) = n - FirstOf(k) + 1
<1>1. PICK y \in Int, m \in 1..12 : y = k \div 12 /\ m = (k % 12) + 1 /\ y >= 1
  OBVIOUS
<1>2. FirstOf(k + 1) = FirstOf(k) + LengthOf(k)
  BY MonthFollows
<1>3. FirstOf(k) = DayNumber(y, m, 1) /\ LengthOf(k) = MonthLength(y, m)
  BY <1>1 DEF FirstOf, LengthOf
<1>8. DayNumber(y, m, 1) <= n /\ n < DayNumber(y, m, 1) + MonthLength(y, m)
  BY <1>2, <1>3, Zenon DEF InMonth
<1>4. YearOf(n) = y /\ MonthOf(n) = m
  BY <1>1, <1>8, MonthIs, Zenon
<1>5. StartOf("month", n) = FirstOf(k)
  BY <1>3, <1>4, Zenon DEF StartOf
<1>6. EndOf("month", n) = FirstOf(k) + MonthLength(y, m) - 1
  BY <1>4, <1>5 DEF EndOf
<1>7. DayOfMonth(n) = n - FirstOf(k) + 1
  BY <1>3, <1>4 DEF DayOfMonth
<1>9. EndOf("month", n) = FirstOf(k + 1) - 1
  <2>1. PICK f \in Int, l \in Int : f = FirstOf(k) /\ l = MonthLength(y, m)
    BY <1>3, MonthTyped, Zenon
  <2>2. EndOf("month", n) = (f + l) - 1
    BY <1>6, <2>1
  <2>3. FirstOf(k + 1) = f + l
    BY <1>2, <1>3, <2>1
  <2> QED
    BY <2>2, <2>3
<1> QED
  BY <1>1, <1>4, <1>5, <1>7, <1>9, Zenon

\* Every day is in one.
LEMMA MonthExists ==
    ASSUME NEW n \in Int, n >= 1
    PROVE  \E k \in Int : k >= 12 /\ InMonth(n, k)
<1> DEFINE Later1 == {j \in Nat : n < FirstOf(12 + j)}
<1>1. \A j \in Nat : FirstOf(12 + j) >= 1 + j
  <2> DEFINE P(j) == FirstOf(12 + j) >= 1 + j
             Bad == {j \in Nat : ~P(j)}
  <2> SUFFICES ASSUME Bad # {} PROVE FALSE
    OBVIOUS
  <2>1. PICK j \in Bad : \A i \in Bad : j <= i
    <3>1. Bad \in SUBSET Nat
      OBVIOUS
    <3> HIDE DEF Bad
    <3> QED
      BY <3>1, LeastNumber
  <2>2. P(0)
    <3>1. FirstOf(12) = Newyear(1)
      BY DEF FirstOf, Newyear
    <3>2. LeapDays(0) = 0
      BY DEF LeapDays
    <3>3. Newyear(1) = 1
      BY <3>2, NewyearIs
    <3> QED
      BY <3>1, <3>3
  <2>3. j \in Nat /\ j # 0 /\ j - 1 \in Nat
    BY <2>1, <2>2
  <2>4. P(j - 1)
    BY <2>1, <2>3
  <2>5. FirstOf(12 + j) = FirstOf(12 + (j - 1)) + LengthOf(12 + (j - 1))
    <3>1. (12 + (j - 1)) + 1 = 12 + j /\ 12 + (j - 1) \in Int
      BY <2>3
    <3> QED
      BY <3>1, MonthFollows
  <2>6. LengthOf(12 + (j - 1)) >= 1 /\ LengthOf(12 + (j - 1)) \in Int
    <3>1. PICK k \in Int : k = 12 + (j - 1)
      BY <2>3
    <3>2. k \div 12 \in Int /\ (k % 12) + 1 \in 1..12
      OBVIOUS
    <3>3. MonthLength(k \div 12, (k % 12) + 1) \in 28..31
      BY <3>2, MonthInYear
    <3> QED
      BY <3>1, <3>3 DEF LengthOf
  <2>7. FirstOf(12 + (j - 1)) \in Int
    BY <2>3, MonthFollows
  <2> QED
    BY <2>1, <2>3, <2>4, <2>5, <2>6, <2>7
<1>2. n \in Later1
  BY <1>1, MonthFollows
<1>3. PICK j \in Later1 : \A i \in Later1 : j <= i
  <2>1. Later1 \in SUBSET Nat
    OBVIOUS
  <2> HIDE DEF Later1
  <2> QED
    BY <1>2, <2>1, LeastNumber
<1>4. j \in Nat /\ n < FirstOf(12 + j)
  OBVIOUS
<1>5. j # 0
  <2>1. FirstOf(12) = Newyear(1)
    BY DEF FirstOf, Newyear
  <2>2. LeapDays(0) = 0
    BY DEF LeapDays
  <2>3. Newyear(1) = 1
    BY <2>2, NewyearIs
  <2> QED
    BY <1>4, <2>1, <2>3
<1>6. j - 1 \in Nat /\ FirstOf(12 + (j - 1)) <= n
  <2>1. j - 1 \in Nat
    BY <1>4, <1>5
  <2>2. j - 1 \notin Later1
    BY <1>3, <1>4
  <2>3. FirstOf(12 + (j - 1)) \in Int
    BY <2>1, MonthFollows
  <2> QED
    BY <2>1, <2>2, <2>3
<1>7. PICK k \in Int : k = 12 + (j - 1) /\ k >= 12 /\ k + 1 = 12 + j
  BY <1>6
<1>8. InMonth(n, k)
  BY <1>4, <1>6, <1>7 DEF InMonth
<1> QED
  BY <1>7, <1>8

\* Months follow one another, four weeks or more each.
LEMMA MonthSteps ==
    ASSUME NEW k \in Int
    PROVE  /\ FirstOf(k) \in Int /\ FirstOf(k + 1) \in Int
           /\ FirstOf(k) + 28 <= FirstOf(k + 1) /\ FirstOf(k + 1) <= FirstOf(k) + 31
<1>1. k \div 12 \in Int /\ (k % 12) + 1 \in 1..12
  OBVIOUS
<1>2. LengthOf(k) \in 28..31
  BY <1>1, MonthInYear DEF LengthOf
<1>3. FirstOf(k) \in Int /\ FirstOf(k + 1) = FirstOf(k) + LengthOf(k)
  BY MonthFollows
<1> QED
  BY <1>2, <1>3

LEMMA FirstGrows ==
    ASSUME NEW i \in Int, NEW k \in Int, i <= k
    PROVE  FirstOf(i) <= FirstOf(k)
<1>1. PICK y \in Int, m \in 1..12 : y = i \div 12 /\ m = (i % 12) + 1
  OBVIOUS
<1>2. PICK z \in Int, n \in 1..12 : z = k \div 12 /\ n = (k % 12) + 1
  OBVIOUS
<1>3. y < z \/ (y = z /\ m <= n)
  BY <1>1, <1>2
<1>4. PICK a \in Int, b \in Int : a = FirstOf(i) /\ b = FirstOf(k)
  BY MonthSteps
<1>5. a = DayNumber(y, m, 1) /\ b = DayNumber(z, n, 1)
  BY <1>1, <1>2, <1>4 DEF FirstOf
<1>6. CASE y < z
  <2>1. PICK l \in 28..31, j \in Int, h \in Int :
           l = MonthLength(y, m) /\ j = Newyear(y + 1) /\ h = Newyear(z)
    <3>1. MonthLength(y, m) \in 28..31
      BY MonthInYear, Zenon
    <3>2. y + 1 \in Int
      OBVIOUS
    <3>3. Newyear(y + 1) \in Int /\ Newyear(z) \in Int
      BY <3>2, YearLength, Zenon
    <3> QED
      BY <3>1, <3>3
  <2>2. a + l <= j
    BY <1>5, <2>1, MonthInYear
  <2>3. j <= h
    BY <1>6, <2>1, NewyearGrows
  <2>4. h <= b
    BY <1>5, <2>1, MonthInYear
  <2> QED
    BY <1>4, <2>1, <2>2, <2>3, <2>4
<1>7. CASE y = z /\ m = n
  BY <1>4, <1>5, <1>7
<1>8. CASE y = z /\ m < n
  <2>1. PICK l \in 28..31 : l = MonthLength(y, m)
    BY MonthInYear
  <2>2. a + l <= b
    BY <1>5, <1>8, <2>1, MonthsApart
  <2> QED
    BY <1>4, <2>1, <2>2
<1> QED
  BY <1>3, <1>6, <1>7, <1>8

\* The first day of a month is in it.
LEMMA FirstIsIn ==
    ASSUME NEW k \in Int
    PROVE  InMonth(FirstOf(k), k) /\ FirstOf(k) \in Int
<1>1. PICK a \in Int, b \in Int : a = FirstOf(k) /\ b = FirstOf(k + 1) /\ a + 28 <= b
  BY MonthSteps
<1>2. a <= a /\ a < b
  BY <1>1
<1> QED
  BY <1>1, <1>2, Zenon DEF InMonth

\* A day, its month and its year.
Falls(n, k, y) ==
    /\ k \in Int /\ k >= 36 /\ InMonth(n, k) /\ y = k \div 12 /\ y \in Int /\ y >= 3
    /\ YearOf(n) = y /\ MonthOf(n) = (k % 12) + 1
    /\ Newyear(y) <= n /\ n < Newyear(y + 1)

\* Every day of the calendar falls in one month of one year.
LEMMA DayFalls ==
    ASSUME NEW n \in CalendarDays
    PROVE  \E k, y : Falls(n, k, y)
<1>1. n \in Int /\ n >= 1000
  BY DEF CalendarDays
<1>2. PICK k \in Int : k >= 12 /\ InMonth(n, k)
  BY <1>1, MonthExists
<1>3. PICK y \in Int, m \in 1..12 : y = k \div 12 /\ m = (k % 12) + 1
  OBVIOUS
<1>4. YearOf(n) = y /\ MonthOf(n) = (k % 12) + 1
  BY <1>1, <1>2, <1>3, InMonthIs
<1>5. Newyear(y) <= n /\ n < Newyear(y + 1)
  <2>1. PICK a \in Int, l \in Int, s \in Int, t \in Int :
           a = FirstOf(k) /\ l = LengthOf(k) /\ s = Newyear(y) /\ t = Newyear(y + 1)
    <3>1. FirstOf(k) \in Int
      BY MonthSteps, Zenon
    <3>2. LengthOf(k) \in Int
      BY <1>3, MonthTyped DEF LengthOf
    <3>3. y + 1 \in Int
      OBVIOUS
    <3>4. Newyear(y) \in Int /\ Newyear(y + 1) \in Int
      BY <3>3, YearLength, Zenon
    <3> QED
      BY <3>1, <3>2, <3>4
  <2>2. a = DayNumber(y, m, 1) /\ l = MonthLength(y, m)
    BY <1>3, <2>1 DEF FirstOf, LengthOf
  <2>3. s <= a /\ a + l <= t
    BY <2>1, <2>2, MonthInYear
  <2>4. FirstOf(k + 1) = a + l
    BY <2>1, MonthFollows
  <2>5. a <= n /\ n < a + l
    BY <1>2, <2>1, <2>4 DEF InMonth
  <2> QED
    BY <1>1, <2>1, <2>3, <2>5
<1>6. y >= 3
  <2> SUFFICES ASSUME y + 1 <= 3 PROVE FALSE
    BY <1>3
  <2>1. LeapDays(2) = 0
    BY DEF LeapDays
  <2>2. Newyear(3) = 731
    BY <2>1, NewyearIs
  <2>3. PICK t \in Int : t = Newyear(y + 1)
    BY YearLength
  <2>4. t <= 731
    BY <2>2, <2>3, NewyearGrows
  <2> QED
    BY <1>1, <1>5, <2>3, <2>4
<1>7. k >= 36
  BY <1>3, <1>6
<1> QED
  BY <1>2, <1>3, <1>4, <1>5, <1>6, <1>7, Zenon DEF Falls

-----------------------------------------------------------------------------
(* Months and years *)
\* The first day of a month, and the month it spans.
LEMMA FirstIs ==
    ASSUME NEW k \in Int, k >= 12
    PROVE  /\ YearOf(FirstOf(k)) = k \div 12 /\ MonthOf(FirstOf(k)) = (k % 12) + 1
           /\ StartOf("month", FirstOf(k)) = FirstOf(k)
           /\ EndOf("month", FirstOf(k)) = FirstOf(k + 1) - 1
           /\ DayOfMonth(FirstOf(k)) = 1
<1>1. PICK n \in Int : n = FirstOf(k) /\ InMonth(n, k)
  BY FirstIsIn
<1>2. n - n + 1 = 1
  OBVIOUS
<1> QED
  BY <1>1, <1>2, InMonthIs, Zenon

\* The range of a month, from any of its days.
LEMMA MonthSpan ==
    ASSUME NEW k \in Int, k >= 12, NEW n \in Int, InMonth(n, k)
    PROVE  Span("month", n) = Dates(FirstOf(k), FirstOf(k + 1) - 1)
BY InMonthIs, Zenon DEF Span

\* The tags of months, years and quarters.
OfMonth == [last |-> "last_month", this |-> "this_month", next |-> "next_month"]
OfYear == [last |-> "last_year", this |-> "this_year", next |-> "next_year"]
OfQuarter == [last |-> "last_quarter", this |-> "this_quarter", next |-> "next_quarter"]

\* Their handlers.
LEMMA PeriodLands ==
    ASSUME NEW f, NEW at
    PROVE  /\ f.tag \in {"last_month", "this_month", "next_month", "last_year", "this_year",
                         "next_year"} => Resolve(f, at) = RelativePeriod(f, at)
           /\ f.tag \in {"last_quarter", "this_quarter", "next_quarter"}
                => Resolve(f, at) = Quarter(f, at)
           /\ f.tag = "relative_season" => Resolve(f, at) = Season(f, at)
BY DEF Resolve, DayParts, Meals, Deadlines, Today, Colloquial, FarDays, NearDays,
       Minutes, ClockTags, Edges, WeekdayTags, Weekends, RelativePeriods

\* The one before, the same or the one after.
Beside(d, k) == CASE d = "last" -> k - 1 [] d = "this" -> k [] d = "next" -> k + 1

\* The month the handler reaches is the one before, around or after today's.
LEMMA MonthLands ==
    ASSUME NEW d \in {"last", "this", "next"}, NEW f, f.tag = OfMonth[d],
           NEW at, NEW k, NEW y, Falls(at.day, k, y), at.day \in Int
    PROVE  \E j \in Int :
              /\ j = Beside(d, k)
              /\ Resolve(f, at) = Dates(FirstOf(j), FirstOf(j + 1) - 1)
<1>1. PICK today \in Int : today = at.day
  OBVIOUS
<1>2. k \in Int /\ k >= 36 /\ InMonth(today, k)
  BY <1>1, Zenon DEF Falls
<1>3. PICK a \in Int, b \in Int, c \in Int, z \in Int :
         /\ a = FirstOf(k - 1) /\ b = FirstOf(k) /\ c = FirstOf(k + 1) /\ z = FirstOf(k + 2)
         /\ a + 28 <= b /\ b + 28 <= c /\ c <= b + 31 /\ c + 28 <= z
  <2>1. k - 1 \in Int /\ k + 1 \in Int /\ (k - 1) + 1 = k /\ (k + 1) + 1 = k + 2
    BY <1>2
  <2> QED
    BY <1>2, <2>1, MonthSteps
<1>4. /\ StartOf("month", today) = b /\ DayOfMonth(today) = today - b + 1
      /\ b <= today /\ today < c
  BY <1>2, <1>3, InMonthIs DEF InMonth
<1>5. Resolve(f, at) = RelativePeriod(f, at)
  BY PeriodLands DEF OfMonth
<1>6. CASE d = "last"
  <2>1. Resolve(f, at) = Span("month", today - DayOfMonth(today))
    BY <1>1, <1>5, <1>6 DEF RelativePeriod, OfMonth
  <2>2. today - DayOfMonth(today) = b - 1
    BY <1>4
  <2>3. InMonth(b - 1, k - 1) /\ b - 1 \in Int /\ k - 1 \in Int /\ k - 1 >= 12
    BY <1>2, <1>3 DEF InMonth
  <2>4. Span("month", b - 1) = Dates(FirstOf(k - 1), FirstOf((k - 1) + 1) - 1)
    BY <2>3, MonthSpan, Zenon
  <2> QED
    BY <1>6, <2>1, <2>2, <2>3, <2>4 DEF Beside
<1>7. CASE d = "this"
  <2>1. Resolve(f, at) = Span("month", today)
    BY <1>1, <1>5, <1>7 DEF RelativePeriod, OfMonth
  <2>2. k >= 12
    BY <1>2
  <2>3. Span("month", today) = Dates(FirstOf(k), FirstOf(k + 1) - 1)
    BY <1>2, <2>2, MonthSpan, Zenon
  <2> QED
    BY <1>2, <1>7, <2>1, <2>3 DEF Beside
<1>8. CASE d = "next"
  <2>1. Resolve(f, at) = Span("month", b + 32)
    BY <1>1, <1>4, <1>5, <1>8 DEF RelativePeriod, OfMonth
  <2>2. c <= b + 32 /\ b + 32 < z
    BY <1>3
  <2>3. FirstOf((k + 1) + 1) = z
    BY <1>2, <1>3
  <2>4. InMonth(b + 32, k + 1) /\ b + 32 \in Int /\ k + 1 \in Int /\ k + 1 >= 12
    BY <1>2, <1>3, <2>2, <2>3 DEF InMonth
  <2>5. Span("month", b + 32) = Dates(FirstOf(k + 1), FirstOf((k + 1) + 1) - 1)
    BY <2>4, MonthSpan, Zenon
  <2> QED
    BY <1>8, <2>1, <2>4, <2>5 DEF Beside
<1> QED
  BY <1>6, <1>7, <1>8

\* It is the one that is meant.
LEMMA MonthMeans ==
    ASSUME NEW d \in {"last", "this", "next"}, NEW words, words[1] = d,
           NEW f, f.tag = OfMonth[d], NEW at, at.day \in CalendarDays
    PROVE  Resolve(f, at) # Untouched /\ PeriodMeans("month", words, Resolve(f, at), at.day)
<1>12. PICK k, y : Falls(at.day, k, y)
  BY DayFalls, Zenon
<1>1. PICK today \in Int : today = at.day
  BY DEF CalendarDays
<1>2. k \in Int /\ k >= 36 /\ InMonth(today, k)
  BY <1>1, <1>12, Zenon DEF Falls
<1>3. PICK j \in Int :
         /\ j = Beside(d, k)
         /\ Resolve(f, at) = Dates(FirstOf(j), FirstOf(j + 1) - 1)
  <2>1. at.day \in Int
    BY <1>1
  <2>2. f.tag = OfMonth[d] /\ d \in {"last", "this", "next"}
    OBVIOUS
  <2> QED
    BY <1>12, <2>1, <2>2, MonthLands, SMTT(30)
<1>4. PICK v : v = Resolve(f, at)
  OBVIOUS
<1>5. PICK a \in Int, b \in Int : a = FirstOf(j) /\ b = FirstOf(j + 1)
  BY MonthSteps
<1>6. v # Untouched /\ v.kind = "dates" /\ v.a = a /\ v.b = b - 1
  BY <1>3, <1>4, <1>5, DatesAre
<1>7. j >= 12
  BY <1>2, <1>3 DEF Beside
<1>8. v.a = StartOf("month", v.a) /\ v.b = EndOf("month", v.a)
  BY <1>5, <1>6, <1>7, FirstIs, Zenon
<1>9. PICK s \in Int, e \in Int : s = FirstOf(k) /\ e = FirstOf(k + 1)
  BY <1>2, MonthSteps
<1>10. StartOf("month", today) = s /\ EndOf("month", today) = e - 1 /\ today \in s..(e - 1)
  <2>1. k >= 12
    BY <1>2
  <2>2. StartOf("month", today) = s /\ EndOf("month", today) = e - 1
    BY <1>2, <1>9, <2>1, InMonthIs, Zenon
  <2>3. s <= today /\ today < e
    BY <1>2, <1>9, Zenon DEF InMonth
  <2> QED
    BY <2>2, <2>3
<1>11. PeriodMeans("month", words, v, today)
  <2>1. CASE d = "last"
    <3>1. j + 1 = k
      BY <1>2, <1>3, <2>1 DEF Beside
    <3>2. v.b + 1 = StartOf("month", today)
      BY <1>5, <1>6, <1>9, <1>10, <3>1
    <3> QED
      BY <1>6, <1>8, <2>1, <3>2 DEF PeriodMeans
  <2>2. CASE d = "this"
    <3>1. j = k
      BY <1>3, <2>2 DEF Beside
    <3>2. today \in v.a..v.b
      BY <1>5, <1>6, <1>9, <1>10, <3>1
    <3> QED
      BY <1>6, <1>8, <2>2, <3>2 DEF PeriodMeans
  <2>3. CASE d = "next"
    <3>1. j = k + 1
      BY <1>3, <2>3 DEF Beside
    <3>2. v.a - 1 = EndOf("month", today)
      BY <1>5, <1>6, <1>9, <1>10, <3>1
    <3> QED
      BY <1>6, <1>8, <2>3, <3>2 DEF PeriodMeans
  <2> QED
    BY <2>1, <2>2, <2>3
<1> QED
  BY <1>1, <1>4, <1>6, <1>11, Zenon

\* The range of a year, from any of its days.
LEMMA YearSpan ==
    ASSUME NEW y \in Int, y >= 1, NEW n \in Int, Newyear(y) <= n, n < Newyear(y + 1)
    PROVE  /\ StartOf("year", n) = Newyear(y) /\ EndOf("year", n) = Newyear(y + 1) - 1
           /\ Span("year", n) = Dates(Newyear(y), Newyear(y + 1) - 1)
<1>1. YearOf(n) = y
  BY YearIs, Zenon
<1>2. StartOf("year", n) = Newyear(y) /\ EndOf("year", n) = Newyear(y + 1) - 1
  BY <1>1 DEF StartOf, EndOf, Newyear
<1> QED
  BY <1>2, Zenon DEF Span

LEMMA NewyearIn ==
    ASSUME NEW y \in Int
    PROVE  /\ Newyear(y) \in Int /\ Newyear(y + 1) \in Int
           /\ Newyear(y) <= Newyear(y) /\ Newyear(y) < Newyear(y + 1)
<1>1. PICK n \in Int : n = Newyear(y)
  BY YearLength
<1>2. Newyear(y + 1) = n + (IF LeapYear(y) THEN 366 ELSE 365)
  BY <1>1, YearLength
<1> QED
  BY <1>1, <1>2

LEMMA NewyearSpan ==
    ASSUME NEW y \in Int, y >= 1
    PROVE  /\ StartOf("year", Newyear(y)) = Newyear(y)
           /\ EndOf("year", Newyear(y)) = Newyear(y + 1) - 1
           /\ Span("year", Newyear(y)) = Dates(Newyear(y), Newyear(y + 1) - 1)
<1>1. PICK n \in Int : n = Newyear(y) /\ Newyear(y) <= n /\ n < Newyear(y + 1)
  BY NewyearIn, Zenon
<1> QED
  BY <1>1, YearSpan, Zenon

\* What process_message keeps for a handler that raised.
LEMMA RaisedIs == Raised # Untouched /\ Raised.kind = "error"
BY DEF Raised, Untouched, Result

\* The year the handler reaches is the one before, around or after today's,
\* unless it has no such day.
LEMMA YearLands ==
    ASSUME NEW d \in {"last", "this", "next"}, NEW f, f.tag = OfYear[d],
           NEW at, NEW k, NEW y, Falls(at.day, k, y), at.day \in Int
    PROVE  \E j \in Int :
              /\ j = Beside(d, y)
              /\ Resolve(f, at) \in {Raised, Dates(Newyear(j), Newyear(j + 1) - 1)}
<1>1. PICK today \in Int : today = at.day
  OBVIOUS
<1>2. /\ y \in Int /\ y >= 3 /\ YearOf(today) = y
      /\ Newyear(y) <= today /\ today < Newyear(y + 1)
  BY <1>1, Zenon DEF Falls
<1>3. Resolve(f, at) = RelativePeriod(f, at)
  BY PeriodLands DEF OfYear
<1>4. CASE d = "last"
  <2>1. Resolve(f, at) = InYear(today, y - 1, Span("year", DayNumber(y - 1, 1, 1)))
    BY <1>1, <1>2, <1>3, <1>4 DEF RelativePeriod, OfYear
  <2>2. y - 1 \in Int /\ y - 1 >= 1
    BY <1>2
  <2>3. Span("year", DayNumber(y - 1, 1, 1)) = Dates(Newyear(y - 1), Newyear((y - 1) + 1) - 1)
    BY <2>2, NewyearSpan, Zenon DEF Newyear
  <2>4. Resolve(f, at) \in {Raised, Dates(Newyear(y - 1), Newyear((y - 1) + 1) - 1)}
    BY <2>1, <2>3 DEF InYear
  <2> QED
    BY <1>4, <2>2, <2>4 DEF Beside
<1>5. CASE d = "this"
  <2>1. Resolve(f, at) = Span("year", today)
    BY <1>1, <1>3, <1>5 DEF RelativePeriod, OfYear
  <2>2. y >= 1
    BY <1>2
  <2>3. Span("year", today) = Dates(Newyear(y), Newyear(y + 1) - 1)
    BY <1>2, <2>2, YearSpan, Zenon
  <2> QED
    BY <1>2, <1>5, <2>1, <2>3 DEF Beside
<1>6. CASE d = "next"
  <2>1. Resolve(f, at) = InYear(today, y + 1, Span("year", DayNumber(y + 1, 1, 1)))
    BY <1>1, <1>2, <1>3, <1>6 DEF RelativePeriod, OfYear
  <2>2. y + 1 \in Int /\ y + 1 >= 1
    BY <1>2
  <2>3. Span("year", DayNumber(y + 1, 1, 1)) = Dates(Newyear(y + 1), Newyear((y + 1) + 1) - 1)
    BY <2>2, NewyearSpan, Zenon DEF Newyear
  <2>4. Resolve(f, at) \in {Raised, Dates(Newyear(y + 1), Newyear((y + 1) + 1) - 1)}
    BY <2>1, <2>3 DEF InYear
  <2> QED
    BY <1>6, <2>2, <2>4 DEF Beside
<1> QED
  BY <1>4, <1>5, <1>6

\* It is the one that is meant.
LEMMA YearMeans ==
    ASSUME NEW d \in {"last", "this", "next"}, NEW words, words[1] = d,
           NEW f, f.tag = OfYear[d], NEW at, at.day \in CalendarDays,
           Resolve(f, at) # Raised
    PROVE  Resolve(f, at) # Untouched /\ PeriodMeans("year", words, Resolve(f, at), at.day)
<1>12. PICK k, y : Falls(at.day, k, y)
  BY DayFalls, Zenon
<1>1. PICK today \in Int : today = at.day
  BY DEF CalendarDays
<1>2. /\ y \in Int /\ y >= 3 /\ Newyear(y) <= today /\ today < Newyear(y + 1)
  BY <1>1, <1>12, Zenon DEF Falls
<1>3. PICK j \in Int :
         /\ j = Beside(d, y)
         /\ Resolve(f, at) \in {Raised, Dates(Newyear(j), Newyear(j + 1) - 1)}
  <2>1. at.day \in Int
    BY <1>1
  <2>2. f.tag = OfYear[d] /\ d \in {"last", "this", "next"}
    OBVIOUS
  <2> QED
    BY <1>12, <2>1, <2>2, YearLands, SMTT(30)
<1>4. PICK v : v = Resolve(f, at)
  OBVIOUS
<1>5. PICK a \in Int, b \in Int : a = Newyear(j) /\ b = Newyear(j + 1)
  BY NewyearIn
<1>6. v # Untouched /\ v.kind = "dates" /\ v.a = a /\ v.b = b - 1
  BY <1>3, <1>4, <1>5, DatesAre
<1>7. j >= 1
  BY <1>2, <1>3 DEF Beside
<1>8. v.a = StartOf("year", v.a) /\ v.b = EndOf("year", v.a)
  BY <1>5, <1>6, <1>7, NewyearSpan, Zenon
<1>9. PICK s \in Int, e \in Int : s = Newyear(y) /\ e = Newyear(y + 1)
  BY <1>2, NewyearIn
<1>10. StartOf("year", today) = s /\ EndOf("year", today) = e - 1 /\ today \in s..(e - 1)
  <2>1. y >= 1
    BY <1>2
  <2>2. StartOf("year", today) = s /\ EndOf("year", today) = e - 1
    BY <1>2, <1>9, <2>1, YearSpan, Zenon
  <2>3. s <= today /\ today < e
    BY <1>2, <1>9, Zenon
  <2> QED
    BY <2>2, <2>3
<1>11. PeriodMeans("year", words, v, today)
  <2>1. CASE d = "last"
    <3>1. j + 1 = y
      BY <1>2, <1>3, <2>1 DEF Beside
    <3>2. v.b + 1 = StartOf("year", today)
      BY <1>5, <1>6, <1>9, <1>10, <3>1
    <3> QED
      BY <1>6, <1>8, <2>1, <3>2 DEF PeriodMeans
  <2>2. CASE d = "this"
    <3>1. j = y
      BY <1>3, <2>2 DEF Beside
    <3>2. today \in v.a..v.b
      BY <1>5, <1>6, <1>9, <1>10, <3>1
    <3> QED
      BY <1>6, <1>8, <2>2, <3>2 DEF PeriodMeans
  <2>3. CASE d = "next"
    <3>1. j = y + 1
      BY <1>3, <2>3 DEF Beside
    <3>2. v.a - 1 = EndOf("year", today)
      BY <1>5, <1>6, <1>9, <1>10, <3>1
    <3> QED
      BY <1>6, <1>8, <2>3, <3>2 DEF PeriodMeans
  <2> QED
    BY <2>1, <2>2, <2>3
<1> QED
  BY <1>1, <1>4, <1>6, <1>11, Zenon

-----------------------------------------------------------------------------
(* Quarters and seasons *)
\* Three months from the j-th on.
Months3(j) == Dates(FirstOf(j), FirstOf(j + 3) - 1)

\* Four months in a row.
LEMMA MonthsInRow ==
    ASSUME NEW j \in Int
    PROVE  \E a, b, c, z \in Int :
              /\ a = FirstOf(j) /\ b = FirstOf(j + 1) /\ c = FirstOf(j + 2) /\ z = FirstOf(j + 3)
              /\ a + 28 <= b /\ b <= a + 31 /\ b + 28 <= c /\ c <= b + 31
              /\ c + 28 <= z /\ z <= c + 31
<1>1. j + 1 \in Int /\ j + 2 \in Int /\ (j + 1) + 1 = j + 2 /\ (j + 2) + 1 = j + 3
  OBVIOUS
<1>2. PICK a \in Int, b \in Int : /\ a = FirstOf(j) /\ b = FirstOf(j + 1)
                                  /\ a + 28 <= b /\ b <= a + 31
  BY MonthSteps
<1>3. PICK c \in Int : c = FirstOf(j + 2) /\ b + 28 <= c /\ c <= b + 31
  BY <1>1, <1>2, MonthSteps
<1>4. PICK z \in Int : z = FirstOf(j + 3) /\ c + 28 <= z /\ z <= c + 31
  BY <1>1, <1>3, MonthSteps
<1> QED
  BY <1>2, <1>3, <1>4

\* Quarters and seasons: the months they begin with make 90 to 92 days.
LEMMA ThreeMonths ==
    ASSUME NEW j \in Int, j % 3 = 0 \/ j % 12 \in {2, 11}
    PROVE  FirstOf(j + 3) - FirstOf(j) \in 90..92
<1>1. PICK a \in Int, b \in Int, c \in Int, z \in Int :
         /\ a = FirstOf(j) /\ b = FirstOf(j + 1) /\ c = FirstOf(j + 2) /\ z = FirstOf(j + 3)
  <2>1. j + 1 \in Int /\ j + 2 \in Int /\ j + 3 \in Int
    OBVIOUS
  <2> QED
    BY <2>1, MonthSteps
<1>2. PICK u \in 28..31, v \in 28..31, w \in 28..31 :
         u = LengthOf(j) /\ v = LengthOf(j + 1) /\ w = LengthOf(j + 2)
  <2>1. \A i \in Int : i \div 12 \in Int /\ (i % 12) + 1 \in 1..12
    OBVIOUS
  <2>2. \A i \in Int : LengthOf(i) \in 28..31
    BY <2>1, MonthInYear, Zenon DEF LengthOf
  <2>3. j + 1 \in Int /\ j + 2 \in Int
    OBVIOUS
  <2> QED
    BY <2>2, <2>3
<1>3. b = a + u /\ c = b + v /\ z = c + w
  <2>1. j + 1 \in Int /\ j + 2 \in Int /\ (j + 1) + 1 = j + 2 /\ (j + 2) + 1 = j + 3
    OBVIOUS
  <2> QED
    BY <1>1, <1>2, <2>1, MonthFollows
<1>4. u + v + w \in 90..92
  <2>1. PICK m \in 1..12 : m = (j % 12) + 1
    OBVIOUS
  <2>2. m \in {1, 4, 7, 10, 3, 12}
    BY <2>1
  <2>3. LengthOf(j) = MonthLength(j \div 12, m)
    BY <2>1 DEF LengthOf
  <2>4. m # 12 => LengthOf(j + 1) = MonthLength(j \div 12, m + 1)
                  /\ LengthOf(j + 2) = MonthLength(j \div 12, m + 2)
    <3>1. m # 12 => /\ (j + 1) \div 12 = j \div 12 /\ ((j + 1) % 12) + 1 = m + 1
                    /\ (j + 2) \div 12 = j \div 12 /\ ((j + 2) % 12) + 1 = m + 2
      BY <2>1, <2>2
    <3> QED
      BY <3>1 DEF LengthOf
  <2>5. m = 12 => LengthOf(j + 1) = MonthLength(j \div 12 + 1, 1)
                  /\ LengthOf(j + 2) = MonthLength(j \div 12 + 1, 2)
    <3>1. m = 12 => /\ (j + 1) \div 12 = j \div 12 + 1 /\ ((j + 1) % 12) + 1 = 1
                    /\ (j + 2) \div 12 = j \div 12 + 1 /\ ((j + 2) % 12) + 1 = 2
      BY <2>1
    <3> QED
      BY <3>1 DEF LengthOf
  <2>6. PICK y : y = j \div 12
    OBVIOUS
  <2>7. PICK x : x = j \div 12 + 1
    OBVIOUS
  <2> QED
    BY <1>2, <2>2, <2>3, <2>4, <2>5, <2>6, <2>7 DEF MonthLength
<1> QED
  BY <1>1, <1>3, <1>4

\* The range of a quarter: its end is found month by month.
LEMMA QuarterSpan ==
    ASSUME NEW y \in Int, y >= 1, NEW q \in 1..4, NEW j \in Int, j = 12 * y + 3 * (q - 1)
    PROVE  QuarterRange(y, q) = Months3(j)
<1>1. j >= 12 /\ j \div 12 = y /\ (j % 12) + 1 = 3 * (q - 1) + 1
  BY q \in {1, 2, 3, 4}
<1>2. DayNumber(y, 3 * (q - 1) + 1, 1) = FirstOf(j)
  BY <1>1 DEF FirstOf
<1>3. PICK b \in Int, c \in Int, z \in Int :
         b = FirstOf(j + 1) /\ c = FirstOf(j + 2) /\ z = FirstOf(j + 3)
  <2>1. j + 1 \in Int /\ j + 2 \in Int /\ j + 3 \in Int
    OBVIOUS
  <2>2. FirstOf(j + 1) \in Int /\ FirstOf(j + 2) \in Int /\ FirstOf(j + 3) \in Int
    BY <2>1, MonthSteps, Zenon
  <2> QED
    BY <2>2, Zenon
<1>4. EndOf("month", FirstOf(j)) + 1 = b
  <2>1. EndOf("month", FirstOf(j)) = b - 1
    BY <1>1, <1>3, FirstIs
  <2> QED
    BY <1>3, <2>1
<1>5. EndOf("month", FirstOf(j + 1)) + 1 = c
  <2>1. j + 1 \in Int /\ j + 1 >= 12 /\ (j + 1) + 1 = j + 2
    BY <1>1
  <2>2. EndOf("month", FirstOf(j + 1)) = c - 1
    BY <1>3, <2>1, FirstIs
  <2> QED
    BY <1>3, <2>2
<1>6. EndOf("month", FirstOf(j + 2)) = z - 1
  <2>1. j + 2 \in Int /\ j + 2 >= 12 /\ (j + 2) + 1 = j + 3
    BY <1>1
  <2> QED
    BY <1>3, <2>1, FirstIs
<1>7. EndOf("month", b) + 1 = c /\ EndOf("month", c) = z - 1
  BY <1>3, <1>5, <1>6
<1>8. QuarterRange(y, q)
        = Dates(FirstOf(j),
                EndOf("month", EndOf("month", EndOf("month", FirstOf(j)) + 1) + 1))
  BY <1>2, Zenon DEF QuarterRange
<1>9. EndOf("month", EndOf("month", EndOf("month", FirstOf(j)) + 1) + 1) = z - 1
  BY <1>4, <1>7, Zenon
<1> QED
  BY <1>3, <1>8, <1>9, Zenon DEF Months3

\* The quarter the handler reaches is the one before, around or after today's,
\* unless the year it is set to has no such day.
LEMMA QuarterLands ==
    ASSUME NEW d \in {"last", "this", "next"}, NEW f, f.tag = OfQuarter[d],
           NEW at, NEW k, NEW y, Falls(at.day, k, y), at.day \in Int
    PROVE  \E i \in Int : /\ i = Beside(d, k \div 3)
                          /\ Resolve(f, at) \in {Raised, Months3(3 * i)}
<1>1. PICK today \in Int : today = at.day
  OBVIOUS
<1>2. /\ k \in Int /\ k >= 36 /\ y = k \div 12 /\ y \in Int /\ y >= 3
      /\ YearOf(today) = y /\ MonthOf(today) = (k % 12) + 1
  BY <1>1, Zenon DEF Falls
<1>3. Resolve(f, at) = Quarter(f, at)
  BY PeriodLands DEF OfQuarter
<1>4. PICK q \in 1..4 : q = QuarterOf(today) /\ k \div 3 = 4 * y + (q - 1)
  <2>1. QuarterOf(today) = (k % 12) \div 3 + 1
    BY <1>2 DEF QuarterOf
  <2>2. PICK p \in 0..3 : p = (k % 12) \div 3 /\ k \div 3 = 4 * y + p
    BY <1>2
  <2>3. p + 1 \in 1..4 /\ p + 1 = QuarterOf(today) /\ k \div 3 = 4 * y + ((p + 1) - 1)
    BY <2>1, <2>2
  <2> QED
    BY <2>3, Zenon
<1>5. \A z \in Int, p \in 1..4 : z >= 1 => QuarterRange(z, p) = Months3(3 * (4 * z + (p - 1)))
  <2> SUFFICES ASSUME NEW z \in Int, NEW p \in 1..4, z >= 1
               PROVE  QuarterRange(z, p) = Months3(3 * (4 * z + (p - 1)))
    OBVIOUS
  <2>1. PICK j \in Int : j = 12 * z + 3 * (p - 1) /\ j = 3 * (4 * z + (p - 1))
    OBVIOUS
  <2>2. QuarterRange(z, p) = Months3(j)
    BY <2>1, QuarterSpan, Zenon
  <2> QED
    BY <2>1, <2>2, Zenon
<1>6. \A z : \A r : InYear(today, z, r) \in {Raised, r}
  BY DEF InYear
<1>7. CASE d = "last" /\ q = 1
  <2>1. Resolve(f, at) = InYear(today, y - 1, QuarterRange(y - 1, 4))
    BY <1>1, <1>2, <1>3, <1>4, <1>7 DEF Quarter, OfQuarter
  <2>2. y - 1 \in Int /\ y - 1 >= 1 /\ 4 \in 1..4
    BY <1>2
  <2>3. QuarterRange(y - 1, 4) = Months3(3 * (4 * (y - 1) + (4 - 1)))
    BY <1>5, <2>2, Zenon
  <2>4. PICK i \in Int : i = k \div 3 - 1 /\ i = 4 * (y - 1) + (4 - 1)
    BY <1>2, <1>4, <1>7
  <2>5. Resolve(f, at) \in {Raised, Months3(3 * i)}
    BY <1>6, <2>1, <2>3, <2>4, Zenon
  <2> QED
    BY <1>7, <2>4, <2>5 DEF Beside
<1>8. CASE d = "last" /\ q # 1
  <2>1. Resolve(f, at) = QuarterRange(y, q - 1)
    BY <1>1, <1>2, <1>3, <1>4, <1>8 DEF Quarter, OfQuarter
  <2>2. y >= 1 /\ q - 1 \in 1..4
    BY <1>2, <1>8
  <2>3. QuarterRange(y, q - 1) = Months3(3 * (4 * y + ((q - 1) - 1)))
    BY <1>2, <1>5, <2>2, Zenon
  <2>4. PICK i \in Int : i = k \div 3 - 1 /\ i = 4 * y + ((q - 1) - 1)
    BY <1>2, <1>4
  <2>5. Resolve(f, at) \in {Raised, Months3(3 * i)}
    BY <2>1, <2>3, <2>4, Zenon
  <2> QED
    BY <1>8, <2>4, <2>5 DEF Beside
<1>9. CASE d = "this"
  <2>1. Resolve(f, at) = QuarterRange(y, q)
    BY <1>1, <1>2, <1>3, <1>4, <1>9 DEF Quarter, OfQuarter
  <2>2. y >= 1
    BY <1>2
  <2>3. QuarterRange(y, q) = Months3(3 * (4 * y + (q - 1)))
    BY <1>2, <1>5, <2>2, Zenon
  <2>4. PICK i \in Int : i = k \div 3 /\ i = 4 * y + (q - 1)
    BY <1>2, <1>4
  <2>5. Resolve(f, at) \in {Raised, Months3(3 * i)}
    BY <2>1, <2>3, <2>4, Zenon
  <2> QED
    BY <1>9, <2>4, <2>5 DEF Beside
<1>10. CASE d = "next" /\ q = 4
  <2>1. Resolve(f, at) = InYear(today, y + 1, QuarterRange(y + 1, 1))
    BY <1>1, <1>2, <1>3, <1>4, <1>10 DEF Quarter, OfQuarter
  <2>2. y + 1 \in Int /\ y + 1 >= 1 /\ 1 \in 1..4
    BY <1>2
  <2>3. QuarterRange(y + 1, 1) = Months3(3 * (4 * (y + 1) + (1 - 1)))
    BY <1>5, <2>2, Zenon
  <2>4. PICK i \in Int : i = k \div 3 + 1 /\ i = 4 * (y + 1) + (1 - 1)
    BY <1>2, <1>4, <1>10
  <2>5. Resolve(f, at) \in {Raised, Months3(3 * i)}
    BY <1>6, <2>1, <2>3, <2>4, Zenon
  <2> QED
    BY <1>10, <2>4, <2>5 DEF Beside
<1>11. CASE d = "next" /\ q # 4
  <2>1. Resolve(f, at) = QuarterRange(y, q + 1)
    BY <1>1, <1>2, <1>3, <1>4, <1>11 DEF Quarter, OfQuarter
  <2>2. y >= 1 /\ q + 1 \in 1..4
    BY <1>2, <1>11
  <2>3. QuarterRange(y, q + 1) = Months3(3 * (4 * y + ((q + 1) - 1)))
    BY <1>2, <1>5, <2>2, Zenon
  <2>4. PICK i \in Int : i = k \div 3 + 1 /\ i = 4 * y + ((q + 1) - 1)
    BY <1>2, <1>4
  <2>5. Resolve(f, at) \in {Raised, Months3(3 * i)}
    BY <2>1, <2>3, <2>4, Zenon
  <2> QED
    BY <1>11, <2>4, <2>5 DEF Beside
<1> QED
  BY <1>7, <1>8, <1>9, <1>10, <1>11

\* What is common to the meanings of quarters and seasons.
LEMMA Months3Are ==
    ASSUME NEW j \in Int, j >= 12, j % 3 = 0 \/ j % 12 \in {2, 11}
    PROVE  \E a \in Int, z \in Int :
              /\ a = FirstOf(j) /\ z = FirstOf(j + 3) /\ z - a \in 90..92
              /\ Months3(j) # Untouched /\ Months3(j).a = a /\ Months3(j).b = z - 1
              /\ DayOfMonth(a) = 1 /\ DayOfMonth((z - 1) + 1) = 1
              /\ MonthOf(a) = (j % 12) + 1 /\ YearOf(a) = j \div 12
<1>1. j + 3 \in Int /\ j + 3 >= 12
  OBVIOUS
<1>2. PICK a \in Int, z \in Int : a = FirstOf(j) /\ z = FirstOf(j + 3)
  BY <1>1, MonthSteps, Zenon
<1>3. z - a \in 90..92
  BY <1>2, ThreeMonths, Zenon
<1>4. Months3(j) # Untouched /\ Months3(j).a = a /\ Months3(j).b = z - 1
  <2>1. Months3(j) = Dates(a, z - 1)
    BY <1>2 DEF Months3
  <2>2. PICK b : b = z - 1
    OBVIOUS
  <2>3. Dates(a, b) # Untouched /\ Dates(a, b).a = a /\ Dates(a, b).b = b
    BY DatesAre
  <2> QED
    BY <2>1, <2>2, <2>3
<1>5. DayOfMonth(a) = 1 /\ MonthOf(a) = (j % 12) + 1 /\ YearOf(a) = j \div 12
  BY <1>2, FirstIs, Zenon
<1>6. DayOfMonth(z) = 1 /\ (z - 1) + 1 = z
  BY <1>1, <1>2, FirstIs
<1> QED
  BY <1>2, <1>3, <1>4, <1>5, <1>6

\* It is the quarter that is meant.
LEMMA QuarterMeant ==
    ASSUME NEW d \in {"last", "this", "next"}, NEW words, words[1] = d,
           NEW f, f.tag = OfQuarter[d], NEW at, at.day \in CalendarDays,
           Resolve(f, at) # Raised
    PROVE  Resolve(f, at) # Untouched /\ QuarterMeans(words, Resolve(f, at), at.day)
<1>1. PICK k, y : Falls(at.day, k, y)
  BY DayFalls, Zenon
<1>2. PICK today \in Int : today = at.day
  BY DEF CalendarDays
<1>3. k \in Int /\ k >= 36 /\ InMonth(today, k)
  BY <1>1, <1>2, Zenon DEF Falls
<1>4. PICK i \in Int : i = Beside(d, k \div 3) /\ Resolve(f, at) \in {Raised, Months3(3 * i)}
  <2>1. at.day \in Int
    BY <1>2
  <2>2. f.tag = OfQuarter[d] /\ d \in {"last", "this", "next"}
    OBVIOUS
  <2> QED
    BY <1>1, <2>1, <2>2, QuarterLands, SMTT(30)
<1>5. PICK j \in Int, h \in Int : j = 3 * i /\ h = 3 * (k \div 3) /\ h <= k /\ k + 1 <= h + 3
  BY <1>3
<1>6. j = (IF d = "last" THEN h - 3 ELSE IF d = "this" THEN h ELSE h + 3)
  BY <1>3, <1>4, <1>5 DEF Beside
<1>7. j >= 12 /\ j % 3 = 0 /\ (j % 12) + 1 \in {1, 4, 7, 10} /\ h \in Int /\ h % 3 = 0
  BY <1>3, <1>5, <1>6
<1>8. PICK a \in Int, z \in Int :
         /\ a = FirstOf(j) /\ z = FirstOf(j + 3) /\ z - a \in 90..92
         /\ Months3(j) # Untouched /\ Months3(j).a = a /\ Months3(j).b = z - 1
         /\ DayOfMonth(a) = 1 /\ DayOfMonth((z - 1) + 1) = 1
         /\ MonthOf(a) = (j % 12) + 1 /\ YearOf(a) = j \div 12
  BY <1>7, Months3Are, Zenon
<1>9. PICK v : v = Resolve(f, at) /\ v = Months3(j)
  BY <1>4, <1>5
<1>10. v # Untouched /\ v.a = a /\ v.b = z - 1
  BY <1>8, <1>9, Zenon
<1>11. DayOfMonth(v.a) = 1 /\ DayOfMonth(v.b + 1) = 1 /\ MonthOf(v.a) \in {1, 4, 7, 10}
  BY <1>7, <1>8, <1>10, Zenon
<1>12. PICK s \in Int, e \in Int, m \in Int, n \in Int :
         /\ s = FirstOf(h) /\ e = FirstOf(h + 3) /\ e - s \in 90..92
         /\ m = FirstOf(k) /\ n = FirstOf(k + 1) /\ s <= m /\ n <= e /\ m <= today /\ today < n
  <2>1. h + 3 \in Int /\ k + 1 \in Int
    BY <1>3
  <2>2. FirstOf(h) \in Int /\ FirstOf(h + 3) \in Int /\ FirstOf(k) \in Int /\ FirstOf(k + 1) \in Int
    BY <1>3, <2>1, MonthSteps, Zenon
  <2>3. FirstOf(h) <= FirstOf(k) /\ FirstOf(k + 1) <= FirstOf(h + 3)
    BY <1>3, <1>5, <2>1, FirstGrows, Zenon
  <2>4. FirstOf(h + 3) - FirstOf(h) \in 90..92
    BY <1>7, ThreeMonths, Zenon
  <2>5. FirstOf(k) <= today /\ today < FirstOf(k + 1)
    BY <1>3, Zenon DEF InMonth
  <2> QED
    BY <2>2, <2>3, <2>4, <2>5, Zenon
<1>13. v.b - v.a \in 89..91
  BY <1>8, <1>10
<1>14. (CASE words[1] = "last" -> v.b < today /\ today - v.b <= 92
          [] words[1] = "this" -> today \in v.a..v.b
          [] words[1] = "next" -> today < v.a /\ v.a - today <= 92)
  <2>1. CASE d = "last"
    <3>1. j + 3 = h
      BY <1>6, <2>1
    <3>2. z = s
      BY <1>8, <1>12, <3>1
    <3>3. v.b < today /\ today - v.b <= 92
      BY <1>10, <1>12, <3>2
    <3> QED
      BY <2>1, <3>3
  <2>2. CASE d = "this"
    <3>1. j = h
      BY <1>6, <2>2
    <3>2. a = s /\ z = e
      BY <1>8, <1>12, <3>1
    <3>3. today \in v.a..v.b
      BY <1>10, <1>12, <3>2
    <3> QED
      BY <2>2, <3>3
  <2>3. CASE d = "next"
    <3>1. j = h + 3
      BY <1>6, <2>3
    <3>2. a = e
      BY <1>8, <1>12, <3>1
    <3>3. today < v.a /\ v.a - today <= 92
      BY <1>10, <1>12, <3>2
    <3> QED
      BY <2>3, <3>3
  <2> QED
    BY <2>1, <2>2, <2>3
<1>15. QuarterMeans(words, v, today)
  BY <1>11, <1>13, <1>14, Zenon DEF QuarterMeans
<1> QED
  BY <1>2, <1>9, <1>10, <1>15, Zenon

\* Three months from the one a season starts in: the last that has begun, the
\* one of this year, or the next to begin.
LEMMA SeasonLands ==
    ASSUME NEW f, f.tag = "relative_season", f.n \in {3, 12}, f.dir \in {"last", "this", "next"},
           NEW at, at.day \in Int, NEW k, NEW y, Falls(at.day, k, y)
    PROVE  \E j \in Int :
              /\ j >= 12 /\ j % 12 = f.n - 1 /\ Resolve(f, at) = Months3(j)
              /\ f.dir = "last" => j <= k
              /\ f.dir = "next" => k + 1 <= j
              /\ f.dir = "this" => j \div 12 = y
<1>1. PICK today \in Int, n \in {3, 12} : today = at.day /\ n = f.n
  OBVIOUS
<1>2. /\ k \in Int /\ k >= 36 /\ y = k \div 12 /\ y \in Int /\ y >= 3
      /\ YearOf(today) = y /\ MonthOf(today) = (k % 12) + 1
  BY <1>1, Zenon DEF Falls
<1>3. PICK year \in Int :
         year = (CASE f.dir = "last" -> IF (k % 12) + 1 >= n THEN y ELSE y - 1
                   [] f.dir = "next" -> IF (k % 12) + 1 >= n THEN y + 1 ELSE y
                   [] OTHER -> y)
  BY <1>2
<1>4. PICK j \in Int : j = 12 * year + (n - 1)
  BY <1>1
<1>5. j >= 12 /\ j % 12 = n - 1 /\ j \div 12 = year /\ (j % 12) + 1 = n
  <2>1. year >= 2
    BY <1>2, <1>3
  <2> QED
    BY <1>1, <1>4, <2>1
<1>6. /\ f.dir = "last" => j <= k
      /\ f.dir = "next" => k + 1 <= j
      /\ f.dir = "this" => j \div 12 = y
  <2>1. PICK r \in 0..11 : r = k % 12 /\ k = 12 * y + r
    BY <1>2
  <2>2. CASE f.dir = "last"
    <3>1. year = IF r + 1 >= n THEN y ELSE y - 1
      BY <1>3, <2>1, <2>2
    <3> QED
      BY <1>1, <1>2, <1>4, <2>1, <2>2, <3>1
  <2>3. CASE f.dir = "next"
    <3>1. year = IF r + 1 >= n THEN y + 1 ELSE y
      BY <1>3, <2>1, <2>3
    <3> QED
      BY <1>1, <1>2, <1>4, <2>1, <2>3, <3>1
  <2>4. CASE f.dir = "this"
    BY <1>3, <1>5, <2>4
  <2> QED
    BY <2>2, <2>3, <2>4
<1>7. DayNumber(year, n, 1) = FirstOf(j)
  BY <1>5 DEF FirstOf
<1>8. Resolve(f, at) = Dates(DayNumber(year, n, 1), EndOf("month", DayNumber(year, n, 1) + 89))
  <2>1. Resolve(f, at) = Season(f, at)
    BY PeriodLands
  <2>2. MonthOf(today) >= n <=> (k % 12) + 1 >= n
    BY <1>2
  <2> QED
    BY <1>1, <1>2, <1>3, <2>1, <2>2 DEF Season
<1>9. PICK a \in Int, b \in Int, c \in Int, z \in Int :
         /\ a = FirstOf(j) /\ b = FirstOf(j + 1) /\ c = FirstOf(j + 2) /\ z = FirstOf(j + 3)
         /\ a + 28 <= b /\ b <= a + 31 /\ b + 28 <= c /\ c <= b + 31
         /\ c + 28 <= z /\ z <= c + 31
  BY MonthsInRow, Zenon
<1>10. z - a \in 90..92
  <2>1. j % 12 \in {2, 11}
    BY <1>1, <1>5
  <2> QED
    BY <1>9, <2>1, ThreeMonths, Zenon
<1>11. EndOf("month", a + 89) = z - 1
  <2>1. j + 2 \in Int /\ j + 2 >= 12 /\ (j + 2) + 1 = j + 3
    BY <1>5
  <2>2. c <= a + 89 /\ a + 89 < z
    BY <1>9, <1>10
  <2>3. InMonth(a + 89, j + 2)
    BY <1>9, <2>1, <2>2 DEF InMonth
  <2>4. PICK x \in Int : x = a + 89
    OBVIOUS
  <2>5. EndOf("month", x) = FirstOf((j + 2) + 1) - 1
    BY <2>1, <2>3, <2>4, InMonthIs, Zenon
  <2> QED
    BY <1>9, <2>1, <2>4, <2>5
<1>12. Resolve(f, at) = Months3(j)
  <2>1. Resolve(f, at) = Dates(a, EndOf("month", a + 89))
    BY <1>7, <1>8, <1>9
  <2> QED
    BY <1>9, <1>11, <2>1 DEF Months3
<1> QED
  BY <1>1, <1>5, <1>6, <1>12

\* It is the season that is meant.
LEMMA SeasonMeant ==
    ASSUME NEW d \in {"last", "this", "next"}, NEW words, words[1] = d, NEW e,
           NEW f, f.tag = "relative_season", f.n \in {3, 12}, f.n = e.n, f.dir = d,
           NEW at, at.day \in CalendarDays
    PROVE  Resolve(f, at) # Untouched /\ SeasonMeans(words, e, Resolve(f, at), at.day)
<1>1. PICK k, y : Falls(at.day, k, y)
  BY DayFalls, Zenon
<1>2. PICK today \in Int : today = at.day
  BY DEF CalendarDays
<1>3. k \in Int /\ k >= 36 /\ InMonth(today, k) /\ YearOf(today) = y
  BY <1>1, <1>2, Zenon DEF Falls
<1>4. PICK j \in Int :
         /\ j >= 12 /\ j % 12 = f.n - 1 /\ Resolve(f, at) = Months3(j)
         /\ f.dir = "last" => j <= k
         /\ f.dir = "next" => k + 1 <= j
         /\ f.dir = "this" => j \div 12 = y
  <2>1. at.day \in Int
    BY <1>2
  <2> QED
    BY <1>1, <2>1, SeasonLands, SMTT(30)
<1>5. j % 12 \in {2, 11} /\ (j % 12) + 1 = e.n
  BY <1>4
<1>6. PICK a \in Int, z \in Int :
         /\ a = FirstOf(j) /\ z = FirstOf(j + 3) /\ z - a \in 90..92
         /\ Months3(j) # Untouched /\ Months3(j).a = a /\ Months3(j).b = z - 1
         /\ DayOfMonth(a) = 1 /\ DayOfMonth((z - 1) + 1) = 1
         /\ MonthOf(a) = (j % 12) + 1 /\ YearOf(a) = j \div 12
  BY <1>4, <1>5, Months3Are, Zenon
<1>7. PICK v : v = Resolve(f, at) /\ v = Months3(j)
  BY <1>4
<1>8. v # Untouched /\ v.a = a /\ v.b = z - 1
  BY <1>6, <1>7, Zenon
<1>9. DayOfMonth(v.a) = 1 /\ MonthOf(v.a) = e.n /\ DayOfMonth(v.b + 1) = 1
  BY <1>5, <1>6, <1>8, Zenon
<1>10. v.b - v.a \in 89..91
  BY <1>6, <1>8
<1>11. PICK m \in Int, n \in Int :
          m = FirstOf(k) /\ n = FirstOf(k + 1) /\ m <= today /\ today < n
  <2>1. FirstOf(k) \in Int /\ FirstOf(k + 1) \in Int
    BY <1>3, MonthSteps, Zenon
  <2> QED
    BY <1>3, <2>1, Zenon DEF InMonth
<1>12. (CASE words[1] = "last" -> v.a <= today
          [] words[1] = "next" -> v.a > today
          [] words[1] = "this" -> YearOf(v.a) = YearOf(today))
  <2>1. CASE d = "last"
    <3>1. FirstOf(j) <= FirstOf(k)
      BY <1>3, <1>4, <2>1, FirstGrows
    <3>2. v.a <= today
      BY <1>6, <1>8, <1>11, <3>1
    <3> QED
      BY <2>1, <3>2
  <2>2. CASE d = "next"
    <3>1. k + 1 \in Int /\ k + 1 <= j
      BY <1>3, <1>4, <2>2
    <3>2. FirstOf(k + 1) <= FirstOf(j)
      BY <3>1, FirstGrows
    <3>3. v.a > today
      BY <1>6, <1>8, <1>11, <3>2
    <3> QED
      BY <2>2, <3>3
  <2>3. CASE d = "this"
    <3>1. YearOf(v.a) = YearOf(today)
      BY <1>3, <1>4, <1>6, <1>8, <2>3
    <3> QED
      BY <2>3, <3>1
  <2> QED
    BY <2>1, <2>2, <2>3
<1>13. SeasonMeans(words, e, v, today)
  BY <1>9, <1>10, <1>12, Zenon DEF SeasonMeans
<1> QED
  BY <1>2, <1>7, <1>8, <1>13, Zenon

-----------------------------------------------------------------------------
(* Phrases of months, quarters, years and seasons *)
\* Their handlers reach the months that are meant; the handler that sets the year
\* raises on a day that year has not, and then nothing is dated.

\* What is asked of such a unit of the calendar.
CalendarUnits == {"month", "year", "quarter", "spring", "winter"}

UnitMeans(u, words, e, v, today) ==
    /\ u \in {"month", "year"} => PeriodMeans(u, words, v, today)
    /\ u = "quarter" => QuarterMeans(words, v, today)
    /\ u \in {"spring", "winter"} => SeasonMeans(words, e, v, today)

\* Such a phrase is asked for nothing else.
LEMMA UnitMeansAll ==
    ASSUME NEW d \in {"last", "this", "next"}, NEW u \in CalendarUnits,
           NEW words, words = <<d, u>>,
           NEW e, NEW v, NEW today, UnitMeans(u, words, e, v, today)
    PROVE  Means(words, e, v, today)
<1>1. \A w : HasWord(words, w) <=> w \in {d, u}
  BY DEF HasWord
<1>2. \A unit \in {"week", "month", "year"} :
         HasWord(words, unit) => unit = u /\ u \in {"month", "year"}
  BY <1>1 DEF CalendarUnits
<1>3. /\ HasWord(words, "quarter") => u = "quarter"
      /\ HasWord(words, "spring") \/ HasWord(words, "winter") => u \in {"spring", "winter"}
      /\ ~HasWord(words, "weekend") /\ ~HasWord(words, "friday")
      /\ ~HasWord(words, "3:15") /\ ~HasWord(words, "3")
  BY <1>1 DEF CalendarUnits
<1>4. \A p \in DayPhrases : words # p[1]
  <2> SUFFICES ASSUME NEW p \in DayPhrases, words = p[1] PROVE FALSE
    OBVIOUS
  <2>1. \A w \in WordsIn(p[1]) : w \in {d, u}
    BY DEF WordsIn
  <2>2. d \notin {"today", "tomorrow", "yesterday", "the", "first", "a", "3", "end"}
    OBVIOUS
  <2>3. u \notin {"today", "tomorrow", "yesterday", "the", "first", "a", "3", "end"}
    BY DEF CalendarUnits
  <2>4. PICK said : said = WordsIn(p[1])
    OBVIOUS
  <2>5. \A w \in said : w \notin {"today", "tomorrow", "yesterday", "the", "first", "a", "3", "end"}
    BY <2>1, <2>2, <2>3, <2>4
  <2> QED
    BY <2>4, <2>5, DayPhraseWords
<1>5. \A unit \in {"week", "month", "year"} :
         HasWord(words, unit) => PeriodMeans(unit, words, v, today)
  BY <1>2, Zenon DEF UnitMeans
<1>6. /\ HasWord(words, "quarter") => QuarterMeans(words, v, today)
      /\ HasWord(words, "spring") \/ HasWord(words, "winter")
            => SeasonMeans(words, e, v, today)
  BY <1>3, Zenon DEF UnitMeans
<1> QED
  BY <1>3, <1>4, <1>5, <1>6, Zenon DEF Means

\* If its handler means what is asked, the phrase is dated right.
LEMMA UnitIsRight ==
    ASSUME NEW d \in {"last", "this", "next"}, NEW u \in CalendarUnits,
           NEW words, words = <<d, u>>, NEW e, IsCapture(e), ~Untagged(e),
           \A f, at : GivenTo(f, e.tag, words, e) /\ at.day \in CalendarDays
                         /\ Resolve(f, at) # Raised
                      => /\ Resolve(f, at) # Untouched
                         /\ UnitMeans(u, words, e, Resolve(f, at), at.day)
    PROVE  DatedRight(words, e)
<1>1. TagFits(words, e)
  <2>1. u \in PeriodUnits
    BY DEF CalendarUnits, PeriodUnits
  <2>2. TagFits(<<d, u>>, e)
    BY <2>1, PeriodFits
  <2> QED
    BY <2>2, Zenon
<1>2. ASSUME NEW at, at.day \in CalendarDays
      PROVE  \E v : /\ Values(ProcessMessage(words, e, at)) = <<v>>
                    /\ RightOrRaised(words, e, v, at.day)
  <2>1. PICK f : /\ GivenTo(f, e.tag, words, e)
                 /\ Resolve(f, at) # Untouched
                       => Values(ProcessMessage(words, e, at)) = <<Resolve(f, at)>>
    BY <1>1, TagSays, Zenon
  <2>2. Resolve(f, at) # Untouched
    BY <1>2, <2>1, RaisedIs, Zenon
  <2>3. Resolve(f, at) # Raised => Means(words, e, Resolve(f, at), at.day)
    BY <1>2, <2>1, UnitMeansAll, Zenon
  <2>4. RightOrRaised(words, e, Resolve(f, at), at.day)
    BY <2>3, Zenon DEF RightOrRaised
  <2> QED
    BY <2>1, <2>2, <2>4, Zenon
<1> QED
  BY <1>2, OneUnlessRaised, Zenon

LEMMA TwoWords ==
    ASSUME NEW d, NEW u
    PROVE  \E words : words = <<d, u>> /\ words[1] = d
<1>1. <<d, u>>[1] = d
  OBVIOUS
<1> QED
  BY <1>1

LEMMA CalendarTags ==
    ASSUME NEW d \in {"last", "this", "next"}
    PROVE  OfMonth[d] # "" /\ OfYear[d] # "" /\ OfQuarter[d] # ""
<1>1. OfMonth[d] \in {"last_month", "this_month", "next_month"}
  BY DEF OfMonth
<1>2. OfYear[d] \in {"last_year", "this_year", "next_year"}
  BY DEF OfYear
<1>3. OfQuarter[d] \in {"last_quarter", "this_quarter", "next_quarter"}
  BY DEF OfQuarter
<1> QED
  BY <1>1, <1>2, <1>3

LEMMA MonthIsRight ==
    ASSUME NEW d \in {"last", "this", "next"}, NEW e, IsCapture(e), Names(e, OfMonth[d])
    PROVE  DatedRight(<<d, "month">>, e)
<1>1. PICK words : words = <<d, "month">> /\ words[1] = d
  BY TwoWords, Zenon
<1>2. ~Untagged(e)
  BY CalendarTags, Zenon DEF Untagged, Names
<1>3. ASSUME NEW f, NEW at, GivenTo(f, e.tag, words, e), at.day \in CalendarDays
      PROVE  /\ Resolve(f, at) # Untouched
             /\ UnitMeans("month", words, e, Resolve(f, at), at.day)
  <2>1. f.tag = OfMonth[d]
    BY <1>3, Zenon DEF GivenTo, Names
  <2>2. Resolve(f, at) # Untouched /\ PeriodMeans("month", words, Resolve(f, at), at.day)
    BY <1>1, <1>3, <2>1, MonthMeans, Zenon
  <2> QED
    BY <2>2 DEF UnitMeans
<1>4. "month" \in CalendarUnits
  BY DEF CalendarUnits
<1> QED
  BY <1>1, <1>2, <1>3, <1>4, UnitIsRight, Zenon

LEMMA YearIsRight ==
    ASSUME NEW d \in {"last", "this", "next"}, NEW e, IsCapture(e), Names(e, OfYear[d])
    PROVE  DatedRight(<<d, "year">>, e)
<1>1. PICK words : words = <<d, "year">> /\ words[1] = d
  BY TwoWords, Zenon
<1>2. ~Untagged(e)
  BY CalendarTags, Zenon DEF Untagged, Names
<1>3. ASSUME NEW f, NEW at, GivenTo(f, e.tag, words, e), at.day \in CalendarDays,
             Resolve(f, at) # Raised
      PROVE  /\ Resolve(f, at) # Untouched
             /\ UnitMeans("year", words, e, Resolve(f, at), at.day)
  <2>1. f.tag = OfYear[d]
    BY <1>3, Zenon DEF GivenTo, Names
  <2>2. Resolve(f, at) # Untouched /\ PeriodMeans("year", words, Resolve(f, at), at.day)
    BY <1>1, <1>3, <2>1, YearMeans, Zenon
  <2> QED
    BY <2>2 DEF UnitMeans
<1>4. "year" \in CalendarUnits
  BY DEF CalendarUnits
<1> QED
  BY <1>1, <1>2, <1>3, <1>4, UnitIsRight, Zenon

LEMMA QuarterIsRight ==
    ASSUME NEW d \in {"last", "this", "next"}, NEW e, IsCapture(e), Names(e, OfQuarter[d])
    PROVE  DatedRight(<<d, "quarter">>, e)
<1>1. PICK words : words = <<d, "quarter">> /\ words[1] = d
  BY TwoWords, Zenon
<1>2. ~Untagged(e)
  BY CalendarTags, Zenon DEF Untagged, Names
<1>3. ASSUME NEW f, NEW at, GivenTo(f, e.tag, words, e), at.day \in CalendarDays,
             Resolve(f, at) # Raised
      PROVE  /\ Resolve(f, at) # Untouched
             /\ UnitMeans("quarter", words, e, Resolve(f, at), at.day)
  <2>1. f.tag = OfQuarter[d]
    BY <1>3, Zenon DEF GivenTo, Names
  <2>2. Resolve(f, at) # Untouched /\ QuarterMeans(words, Resolve(f, at), at.day)
    BY <1>1, <1>3, <2>1, QuarterMeant, Zenon
  <2> QED
    BY <2>2 DEF UnitMeans
<1>4. "quarter" \in CalendarUnits
  BY DEF CalendarUnits
<1> QED
  BY <1>1, <1>2, <1>3, <1>4, UnitIsRight, Zenon

\* The months a season is captured as.
SeasonCapture(e, d, n) == Names(e, "relative_season") /\ e.dir = d /\ e.n = n

LEMMA SeasonIsRight ==
    ASSUME NEW d \in {"last", "this", "next"}, NEW u \in {"spring", "winter"},
           NEW n \in {3, 12}, NEW e, IsCapture(e), SeasonCapture(e, d, n)
    PROVE  DatedRight(<<d, u>>, e)
<1>1. PICK words : words = <<d, u>> /\ words[1] = d
  BY TwoWords, Zenon
<1>2. ~Untagged(e)
  BY DEF Untagged, Names, SeasonCapture
<1>3. ASSUME NEW f, NEW at, GivenTo(f, e.tag, words, e), at.day \in CalendarDays
      PROVE  /\ Resolve(f, at) # Untouched
             /\ UnitMeans(u, words, e, Resolve(f, at), at.day)
  <2>1. f.tag = "relative_season" /\ f.n \in {3, 12} /\ f.n = e.n /\ f.dir = d
    BY <1>3, Zenon DEF GivenTo, Names, SeasonCapture
  <2>2. Resolve(f, at) # Untouched /\ SeasonMeans(words, e, Resolve(f, at), at.day)
    BY <1>1, <1>3, <2>1, SeasonMeant, Zenon
  <2> QED
    BY <2>2 DEF UnitMeans
<1>4. u \in CalendarUnits
  BY DEF CalendarUnits
<1> QED
  BY <1>1, <1>2, <1>3, <1>4, UnitIsRight, Zenon

-----------------------------------------------------------------------------
(* Other expressions *)
\* Of an expression Means says nothing of, what is right is that it is one value.

\* Expressions of the other kinds, each the phrase of a tag of its own.
NamedTimes ==
    {"a_while_ago", "teatime", "cob", "shortly", "midweek", "noon_datetime", "later_today"}
OtherTags ==
    NamedTimes \cup
    {"eom", "past_n_units", "few_units_ago", "military_time_hundred", "start_of_period",
     "following_period", "quarter_n", "relative_decade"}

\* A handler that gave no text back said something.
LEMMA ResultsSpeak ==
    ASSUME NEW a, NEW b
    PROVE  /\ Dates(a, b) # Untouched /\ Moment(a, b) # Untouched /\ Years(a, b) # Untouched
           /\ Day(a) # Untouched /\ Raised # Untouched
BY DEF Dates, Moment, Years, Day, Raised, Result, Untouched

LEMMA LaterSpeaks ==
    ASSUME NEW at, NEW minutes
    PROVE  Later(at, minutes) # Untouched
<1>1. PICK a, b : Later(at, minutes) = Moment(a, b)
  BY DEF Later
<1> QED
  BY <1>1, ResultsSpeak, Zenon

LEMMA TimesSpeak ==
    ASSUME NEW f, NEW at, f.tag \in NamedTimes
    PROVE  Resolve(f, at) # Untouched
<1>1. CASE f.tag = "teatime"
  <2>1. Resolve(f, at) = AtTime(Meals, f, at)
    BY <1>1 DEF Resolve, DayParts, Meals, Deadlines, Today, Colloquial, FarDays, NearDays,
       Minutes, ClockTags, Edges, WeekdayTags, Weekends, RelativePeriods
  <2> QED
    BY <2>1, ResultsSpeak, Zenon DEF AtTime
<1>2. CASE f.tag = "cob"
  <2>1. Resolve(f, at) = AtTime(Deadlines, f, at)
    BY <1>2 DEF Resolve, DayParts, Meals, Deadlines, Today, Colloquial, FarDays, NearDays,
       Minutes, ClockTags, Edges, WeekdayTags, Weekends, RelativePeriods
  <2> QED
    BY <2>1, ResultsSpeak, Zenon DEF AtTime
<1>3. CASE f.tag = "noon_datetime"
  <2>1. Resolve(f, at) = AtTime(Today, f, at)
    BY <1>3 DEF Resolve, DayParts, Meals, Deadlines, Today, Colloquial, FarDays, NearDays,
       Minutes, ClockTags, Edges, WeekdayTags, Weekends, RelativePeriods
  <2> QED
    BY <2>1, ResultsSpeak, Zenon DEF AtTime
<1>4. CASE f.tag = "a_while_ago"
  <2>1. Resolve(f, at) = OnDay(Colloquial, f, at)
    BY <1>4 DEF Resolve, DayParts, Meals, Deadlines, Today, Colloquial, FarDays, NearDays,
       Minutes, ClockTags, Edges, WeekdayTags, Weekends, RelativePeriods
  <2> QED
    BY <2>1, ResultsSpeak, Zenon DEF OnDay
<1>5. CASE f.tag \in {"shortly", "later_today"}
  <2>1. Resolve(f, at) = Later(at, Minutes[f.tag])
    BY <1>5 DEF Resolve, DayParts, Meals, Deadlines, Today, Colloquial, FarDays, NearDays,
       Minutes, ClockTags, Edges, WeekdayTags, Weekends, RelativePeriods
  <2> QED
    BY <2>1, LaterSpeaks, Zenon
<1>6. CASE f.tag = "midweek"
  <2>1. Resolve(f, at) = Day(StartOf("week", at.day) + 2)
    BY <1>6 DEF Resolve, DayParts, Meals, Deadlines, Today, Colloquial, FarDays, NearDays,
       Minutes, ClockTags, Edges, WeekdayTags, Weekends, RelativePeriods
  <2> QED
    BY <2>1, ResultsSpeak, Zenon
<1> QED
  BY <1>1, <1>2, <1>3, <1>4, <1>5, <1>6 DEF NamedTimes

LEMMA HandlersAre ==
    ASSUME NEW f, NEW at
    PROVE  /\ f.tag = "past_n_units" => Resolve(f, at) = CountedUnits(f, at)
           /\ f.tag = "few_units_ago" => Resolve(f, at) = FewUnits(f, at)
           /\ f.tag = "military_time_hundred" => Resolve(f, at) = Clock(f, at)
           /\ f.tag \in {"eom", "start_of_period"} => Resolve(f, at) = Edge(f, at)
           /\ f.tag = "following_period" => Resolve(f, at) = FollowingPeriod(f, at)
           /\ f.tag = "quarter_n" => Resolve(f, at) = Quarter(f, at)
           /\ f.tag = "relative_decade" => Resolve(f, at) = Decade(f, at)
<1>1. CASE f.tag = "past_n_units"
  BY <1>1 DEF Resolve, DayParts, Meals, Deadlines, Today, Colloquial, FarDays, NearDays,
       Minutes, ClockTags, Edges, WeekdayTags, Weekends, RelativePeriods
<1>2. CASE f.tag = "few_units_ago"
  BY <1>2 DEF Resolve, DayParts, Meals, Deadlines, Today, Colloquial, FarDays, NearDays,
       Minutes, ClockTags, Edges, WeekdayTags, Weekends, RelativePeriods
<1>3. CASE f.tag = "military_time_hundred"
  BY <1>3 DEF Resolve, DayParts, Meals, Deadlines, Today, Colloquial, FarDays, NearDays,
       Minutes, ClockTags, Edges, WeekdayTags, Weekends, RelativePeriods
<1>4. CASE f.tag = "eom"
  BY <1>4 DEF Resolve, DayParts, Meals, Deadlines, Today, Colloquial, FarDays, NearDays,
       Minutes, ClockTags, Edges, WeekdayTags, Weekends, RelativePeriods
<1>8. CASE f.tag = "start_of_period"
  BY <1>8 DEF Resolve, DayParts, Meals, Deadlines, Today, Colloquial, FarDays, NearDays,
       Minutes, ClockTags, Edges, WeekdayTags, Weekends, RelativePeriods
<1>5. CASE f.tag = "following_period"
  BY <1>5 DEF Resolve, DayParts, Meals, Deadlines, Today, Colloquial, FarDays, NearDays,
       Minutes, ClockTags, Edges, WeekdayTags, Weekends, RelativePeriods
<1>6. CASE f.tag = "quarter_n"
  BY <1>6 DEF Resolve, DayParts, Meals, Deadlines, Today, Colloquial, FarDays, NearDays,
       Minutes, ClockTags, Edges, WeekdayTags, Weekends, RelativePeriods
<1>7. CASE f.tag = "relative_decade"
  BY <1>7 DEF Resolve, DayParts, Meals, Deadlines, Today, Colloquial, FarDays, NearDays,
       Minutes, ClockTags, Edges, WeekdayTags, Weekends, RelativePeriods
<1> QED
  BY <1>1, <1>2, <1>3, <1>4, <1>5, <1>6, <1>7, <1>8

LEMMA OthersSpeak ==
    ASSUME NEW f, NEW at, f.tag \in OtherTags
    PROVE  Resolve(f, at) # Untouched
<1>1. CASE f.tag \in NamedTimes
  BY <1>1, TimesSpeak, Zenon
<1>2. CASE f.tag = "past_n_units"
  <2>1. \/ \E k : CountedUnits(f, at) = Later(at, k)
        \/ \E n : CountedUnits(f, at) = Day(n)
    BY DEF CountedUnits
  <2>2. CountedUnits(f, at) # Untouched
    BY <2>1, LaterSpeaks, ResultsSpeak, Zenon
  <2> QED
    BY <1>2, <2>2, HandlersAre, Zenon
<1>3. CASE f.tag = "few_units_ago"
  <2>1. \E n : FewUnits(f, at) = Day(n)
    BY DEF FewUnits
  <2>2. FewUnits(f, at) # Untouched
    BY <2>1, ResultsSpeak, Zenon
  <2> QED
    BY <1>3, <2>2, HandlersAre, Zenon
<1>4. CASE f.tag = "military_time_hundred"
  <2>1. Clock(f, at) = AtHour(at, f.n % 24, 0)
    BY <1>4 DEF Clock
  <2>2. AtHour(at, f.n % 24, 0) # Untouched
    BY ResultsSpeak, Zenon DEF AtHour
  <2> QED
    BY <1>4, <2>1, <2>2, HandlersAre, Zenon
<1>5. CASE f.tag \in {"eom", "start_of_period"}
  <2>1. \/ Edge(f, at) = Day(StartOf(f.unit, at.day))
        \/ Edge(f, at) = Day(EndOf(Edges[f.tag], at.day))
    BY <1>5 DEF Edge, Edges
  <2> QED
    BY <1>5, <2>1, HandlersAre, ResultsSpeak, Zenon
<1>6. CASE f.tag = "following_period"
  <2>1. \/ FollowingPeriod(f, at) = Span("week", StartOf("week", at.day) + 7)
        \/ FollowingPeriod(f, at) = Span("month", StartOf("month", at.day) + 32)
        \/ FollowingPeriod(f, at) = Day(at.day + 1)
    BY DEF FollowingPeriod
  <2>2. FollowingPeriod(f, at) # Untouched
    BY <2>1, ResultsSpeak, Zenon DEF Span
  <2> QED
    BY <1>6, <2>2, HandlersAre, Zenon
<1>7. CASE f.tag = "quarter_n"
  <2>1. Quarter(f, at) = QuarterRange(YearOf(at.day), f.n)
    BY <1>7 DEF Quarter
  <2>2. QuarterRange(YearOf(at.day), f.n) # Untouched
    BY ResultsSpeak, Zenon DEF QuarterRange
  <2> QED
    BY <1>7, <2>1, <2>2, HandlersAre, Zenon
<1>8. CASE f.tag = "relative_decade"
  <2>1. PICK y : y = YearOf(at.day)
    OBVIOUS
  <2>2. \/ Decade(f, at) = Years(y - 10, y - 1) \/ Decade(f, at) = Years(y + 1, y + 10)
        \/ Decade(f, at) = Years((y \div 10) * 10, (y \div 10) * 10 + 9)
    BY <2>1 DEF Decade
  <2> QED
    BY <1>8, <2>2, HandlersAre, ResultsSpeak, Zenon
<1> QED
  BY <1>1, <1>2, <1>3, <1>4, <1>5, <1>6, <1>7, <1>8 DEF OtherTags

\* They are words of no rule of the tables, and of no phrase that has a meaning.
LEMMA NoOtherFits == \A k \in 1..40 : ~Fits(RulesInOrder[k], OtherTags)
<1>1. Idle(TimeDemands, 13, OtherTags)
  BY DEF Idle, TimeDemands, OtherTags, NamedTimes
<1>2. Idle(DayDemands, 13, OtherTags)
  BY DEF Idle, DayDemands, OtherTags, NamedTimes
<1>3. Idle(TomorrowDemands, 14, OtherTags)
  BY DEF Idle, TomorrowDemands, OtherTags, NamedTimes
<1> QED
  BY <1>1, <1>2, <1>3, NoneFits, Zenon

LEMMA OneWord ==
    ASSUME NEW t
    PROVE  \E words : words = <<t>> /\ WordsIn(words) = {t}
<1>1. WordsIn(<<t>>) = {t}
  BY DEF WordsIn
<1> QED
  BY <1>1

LEMMA OtherMeaning ==
    ASSUME NEW t \in OtherTags, NEW words, WordsIn(words) = {t},
           NEW e, NEW v, NEW today
    PROVE  Means(words, e, v, today)
<1>1. PICK said : said = WordsIn(words)
  OBVIOUS
<1>2. /\ "month" \notin said /\ "year" \notin said /\ "spring" \notin said
      /\ "winter" \notin said /\ "quarter" \notin said /\ "week" \notin said
      /\ "weekend" \notin said /\ "friday" \notin said /\ "3:15" \notin said
      /\ "3" \notin said
  BY <1>1 DEF OtherTags, NamedTimes
<1>3. \A p \in DayPhrases : WordsIn(p[1]) # said
  <2> SUFFICES ASSUME NEW p \in DayPhrases, WordsIn(p[1]) = said PROVE FALSE
    OBVIOUS
  <2>1. \A w \in said :
           w \notin {"today", "tomorrow", "yesterday", "the", "first", "a", "3", "end"}
    BY <1>1 DEF OtherTags, NamedTimes
  <2> QED
    BY <2>1, DayPhraseWords
<1> QED
  BY <1>1, <1>2, <1>3, OtherMeans, Zenon

LEMMA OtherIsRight ==
    ASSUME NEW t \in OtherTags, NEW e, IsCapture(e), Names(e, t)
    PROVE  DatedRight(<<t>>, e)
<1>1. PICK words : words = <<t>> /\ WordsIn(words) = {t}
  BY OneWord, Zenon
<1>2. TagFits(words, e)
  <2>1. t # ""
    BY DEF OtherTags, NamedTimes
  <2>2. RulePhrase(words)
    BY <1>1, <2>1, Phrase1, Zenon
  <2>3. \A w \in WordsIn(words) : w \in OtherTags
    BY <1>1
  <2>4. \A k \in 1..40 : ~Fits(RulesInOrder[k], WordsIn(words))
    BY <2>3, NoOtherFits, Zenon DEF Fits
  <2> QED
    BY <2>1, <2>2, <2>4, Zenon DEF TagFits, Names
<1>3. ASSUME NEW at, at.day \in CalendarDays
      PROVE  \E v : /\ Values(ProcessMessage(words, e, at)) = <<v>>
                    /\ RightOrRaised(words, e, v, at.day)
  <2>1. PICK f : /\ GivenTo(f, e.tag, words, e)
                 /\ Resolve(f, at) # Untouched
                       => Values(ProcessMessage(words, e, at)) = <<Resolve(f, at)>>
    BY <1>2, TagSays, Zenon
  <2>2. f.tag = t
    BY <2>1, Zenon DEF GivenTo, Names
  <2>3. Resolve(f, at) # Untouched
    BY <2>2, OthersSpeak, Zenon
  <2>4. RightOrRaised(words, e, Resolve(f, at), at.day)
    BY <1>1, OtherMeaning, Zenon DEF RightOrRaised
  <2> QED
    BY <2>1, <2>3, <2>4, Zenon
<1> QED
  BY <1>1, <1>3, OneUnlessRaised, Zenon

-----------------------------------------------------------------------------
(* Conversations *)
\* The dates of a conversation: the messages of a request are dated by the day it
\* is asked, and keep what was made of them until they are sent.

\* A message that was or can be dated: what it says is dated right by any day.
HasDate(m) == IsMessage(m) /\ {"words", "e", "blocks", "values"} \subseteq DOMAIN m.text

Datable(m) ==
    /\ HasDate(m)
    /\ script.temporal /\ m.text.words # <<>> /\ ~m.text.blocks
         => m.role \in {"system", "user"} /\ DatedRight(m.text.words, m.text.e)

\* What DatesRight asks of a message.
RightNow(m) ==
    script.temporal /\ m.text.words # <<>> /\ ~m.text.blocks =>
        /\ Len(m.text.values) = 1
        /\ Means(m.text.words, m.text.e, m.text.values[1], now.day)

\* The inductive invariant: what was said can be dated, and what is under way is
\* dated right by the day it was asked.
DateInv ==
    /\ \A i \in DOMAIN history : Datable(history[i])
    /\ \A i \in DOMAIN request : Datable(request[i])
    /\ phase \in {"routing", "classifying", "sending"}
          => \A i \in DOMAIN request : RightNow(request[i])
    /\ \A i \in DOMAIN sent.messages : RightNow(sent.messages[i])

\* The clock shows a day of the calendar.
InCalendar == now.day \in CalendarDays

\* Scripts that start on one, and whose clock is not set back by a day.
CalendarScripts == \A s \in Scripts : s.start.day \in CalendarDays /\ s.days \subseteq Nat

\* The texts of every script that is dated are dated right.
TextsDatedRight ==
    \A s \in Scripts : s.temporal =>
        \A t \in TextsOf(s) : t.words # <<>> /\ ~t.blocks => DatedRight(t.words, t.e)

\* Two messages with the same words and captures.
SameDates(m, n) ==
    /\ n.role = m.role /\ n.text.words = m.text.words
    /\ n.text.e = m.text.e /\ n.text.blocks = m.text.blocks

\* Cleaning, dating and the prefix leave the words alone.
LEMMA MarksKeepDates ==
    ASSUME NEW m, NEW cfg, HasDate(m)
    PROVE  LET n == [m EXCEPT !.text.marks = CleanInput(@, cfg)]
           IN  HasDate(n) /\ SameDates(m, n)
BY DEF HasDate, IsMessage, SameDates

LEMMA ValuesKeepDates ==
    ASSUME NEW m, NEW v, HasDate(m)
    PROVE  LET n == [m EXCEPT !.text.values = v]
           IN  HasDate(n) /\ SameDates(m, n) /\ n.text.values = v
BY DEF HasDate, IsMessage, SameDates

LEMMA PrefixKeepsDates ==
    ASSUME NEW m, HasDate(m)
    PROVE  LET n == [m EXCEPT !.text.prefix = NoLevel]
           IN  HasDate(n) /\ SameDates(m, n) /\ n.text.values = m.text.values
BY DEF HasDate, IsMessage, SameDates

LEMMA SameDatesDatable ==
    ASSUME NEW m, NEW n, Datable(m), HasDate(n), SameDates(m, n)
    PROVE  /\ Datable(n)
           /\ RightNow(m) /\ n.text.values = m.text.values => RightNow(n)
BY Zenon DEF Datable, SameDates, RightNow

\* process_messages dates a message right.
LEMMA DatedIsRight ==
    ASSUME NEW m, Datable(m), InCalendar,
           \A k \in DOMAIN Dated(m).text.values : Dated(m).text.values[k] # Raised
    PROVE  Datable(Dated(m)) /\ RightNow(Dated(m))
<1> DEFINE says == script.temporal /\ m.text.words # <<>> /\ ~m.text.blocks
           v == Values(ProcessMessage(m.text.words, m.text.e, now))
           n == [m EXCEPT !.text.values = v]
<1>1. CASE ~says
  <2>1. Dated(m) = m
    BY <1>1 DEF Dated
  <2> QED
    BY <1>1, <2>1 DEF RightNow
<1>2. CASE says
  <2>1. m.role \in {"system", "user"} /\ DatedRight(m.text.words, m.text.e) /\ HasDate(m)
    BY <1>2 DEF Datable
  <2>2. Dated(m) = n
    BY <1>2, <2>1 DEF Dated
  <2>3. HasDate(n) /\ SameDates(m, n) /\ n.text.values = v
    BY <2>1, ValuesKeepDates
  <2> HIDE DEF n, v
  <2>4. \A k \in DOMAIN v : v[k] # Raised
    BY <2>2, <2>3
  <2>5. Len(v) = 1 /\ Means(m.text.words, m.text.e, v[1], now.day)
    BY <2>1, <2>4, Zenon DEF DatedRight, InCalendar, v
  <2>6. RightNow(n)
    BY <2>3, <2>5, Zenon DEF RightNow, SameDates
  <2>7. Datable(n)
    BY <2>3, SameDatesDatable, Zenon
  <2> QED
    BY <2>2, <2>6, <2>7, Zenon
<1> QED
  BY <1>1, <1>2

\* What the client writes can be dated, what the router says has no words.
LEMMA WrittenDates ==
    ASSUME NEW t \in ClientText, NEW role \in {"system", "user"},
           script.temporal /\ t.words # <<>> /\ ~t.blocks => DatedRight(t.words, t.e)
    PROVE  Datable([role |-> role, text |-> t])
<1> DEFINE m == [role |-> role, text |-> t]
<1>1. m.role = role /\ m.text = t
  OBVIOUS
<1>2. HasDate(m)
  BY DEF HasDate, IsMessage, ClientText
<1> HIDE DEF m
<1>3. Datable(m)
  BY <1>1, <1>2, Zenon DEF Datable
<1> QED
  BY <1>3 DEF m

LEMMA SaidSilent ==
    ASSUME NEW k \in SUBSET Marks, Sound(k), script.opening \in ClientText
    PROVE  Assistant(Said(k)) \in Message /\ Datable(Assistant(Said(k)))
<1> DEFINE t == Said(k)
           m == Assistant(t)
<1>1. t \in ClientText
  BY SaidText
<1>2. t.words = <<>>
  BY DEF Said, ClientText
<1>6. m \in Message
  BY <1>1 DEF Assistant, Message
<1> HIDE DEF t
<1>3. m.text = t
  BY DEF Assistant
<1>4. HasDate(m)
  BY <1>1, <1>3 DEF HasDate, IsMessage, Assistant, ClientText
<1> HIDE DEF m
<1>5. Datable(m)
  BY <1>2, <1>3, <1>4 DEF Datable
<1> QED
  BY <1>5, <1>6 DEF m, t

LEMMA ReplyDates ==
    ASSUME ConvInv, DateInv, phase # "client", NEW code, NEW answer, Reply(code, answer),
           answer = <<>> \/ \E m \in Message : answer = <<m>> /\ Datable(m),
           UNCHANGED <<script, now, sent>>
    PROVE  DateInv'
<1>1. history \in Seq(Message) /\ history # <<>>
  BY DEF ConvInv, Conversation
<1>2. \A i \in DOMAIN history' : Datable(history'[i])
  <2>1. CASE answer = <<>>
    <3>1. history' = SubSeq(history, 1, Len(history) - 1)
      BY <2>1 DEF Reply
    <3>2. \A i \in DOMAIN history' : i \in DOMAIN history /\ history'[i] = history[i]
      BY <1>1, <3>1
    <3> QED
      BY <3>2 DEF DateInv
  <2>2. CASE answer # <<>>
    <3>1. PICK m \in Message : answer = <<m>> /\ Datable(m)
      BY <2>2
    <3>2. history' = history \o <<m>>
      BY <2>2, <3>1 DEF Reply
    <3>3. \A i \in DOMAIN history' :
             history'[i] = m \/ (i \in DOMAIN history /\ history'[i] = history[i])
      BY <1>1, <3>2
    <3> QED
      BY <3>1, <3>3 DEF DateInv
  <2> QED
    BY <2>1, <2>2
<1>3. phase' = "client" /\ request' = <<>>
  BY DEF Reply
<1>4. (\A i \in DOMAIN history : Datable(history[i]))'
  BY <1>2 DEF Datable
<1>5. (\A i \in DOMAIN sent.messages : RightNow(sent.messages[i]))'
  BY DEF DateInv, RightNow
<1> QED
  BY <1>3, <1>4, <1>5 DEF DateInv

LEMMA MoveDates ==
    ASSUME DateInv, \A i \in DOMAIN request' : Datable(request'[i]),
           UNCHANGED <<script, now, history>>,
           phase' \in {"routing", "classifying", "sending"}
              => \A i \in DOMAIN request' : RightNow(request'[i]),
           \/ sent'.messages = sent.messages
           \/ sent'.messages = request' /\ phase' = "sending"
    PROVE  DateInv'
<1>1. (\A i \in DOMAIN request : Datable(request[i]))'
      /\ (\A i \in DOMAIN history : Datable(history[i]))'
  BY DEF DateInv, Datable
<1>2. (phase \in {"routing", "classifying", "sending"}
          => \A i \in DOMAIN request : RightNow(request[i]))'
  BY DEF RightNow
<1>3. (\A i \in DOMAIN sent.messages : RightNow(sent.messages[i]))'
  BY DEF DateInv, RightNow
<1> QED
  BY <1>1, <1>2, <1>3 DEF DateInv

\* The steps of a request, one by one.
LEMMA ScreenDates == ASSUME ConvInv, DateInv, Screen PROVE DateInv'
<1> DEFINE cleaned == Cleaned(request)
           code == Admission(cleaned)
<1>1. phase = "arrived" /\ UNCHANGED <<script, now, sent>>
  BY DEF Screen, client
<1>2. ASSUME NEW i \in DOMAIN cleaned PROVE Datable(cleaned[i])
  <2>1. i \in DOMAIN request /\ Datable(request[i])
    BY DEF DateInv, Cleaned
  <2>2. cleaned[i] = [request[i] EXCEPT !.text.marks = CleanInput(@, script.guard)]
    BY <2>1 DEF Cleaned
  <2> HIDE DEF cleaned
  <2>3. HasDate(cleaned[i]) /\ SameDates(request[i], cleaned[i])
    <3>1. PICK m : m = request[i] /\ HasDate(m)
      BY <2>1 DEF Datable
    <3>2. cleaned[i] = [m EXCEPT !.text.marks = CleanInput(@, script.guard)]
      BY <2>2, <3>1
    <3>3. HasDate(cleaned[i]) /\ SameDates(m, cleaned[i])
      BY <3>1, <3>2, MarksKeepDates
    <3> QED
      BY <3>1, <3>3, Zenon
  <2> QED
    BY <2>1, <2>3, SameDatesDatable, Zenon
<1> HIDE DEF cleaned
<1>3. CASE request' = cleaned /\ phase' \in {"judging", "admitted"} /\ UNCHANGED history
  BY <1>1, <1>2, <1>3, MoveDates
<1>4. CASE Refuse(code)
  BY <1>1, <1>4, ReplyDates DEF Refuse
<1> QED
  BY <1>3, <1>4 DEF Screen, cleaned

LEMMA JudgeDates == ASSUME ScriptsTyped, ConvInv, DateInv, Judge PROVE DateInv'
<1>1. phase = "judging" /\ UNCHANGED <<script, now, sent>> /\ script.opening \in ClientText
  BY DEF Judge, client, ConvInv, ScriptsTyped, TextsOf
<1>2. {"refusal"} \in SUBSET Marks /\ Sound({"refusal"})
  BY DEF Marks, Sound
<1>3. PICK m : m = Assistant(Said({"refusal"}))
  OBVIOUS
<1>4. m \in Message /\ Datable(m)
  BY <1>1, <1>2, <1>3, SaidSilent
<1>5. CASE phase' = "admitted" /\ UNCHANGED <<history, request>>
  BY <1>1, <1>5, MoveDates DEF DateInv
<1>6. CASE Reply(200, <<m>>)
  BY <1>1, <1>4, <1>6, ReplyDates
<1>7. CASE Refuse(400)
  BY <1>1, <1>7, ReplyDates DEF Refuse
<1> QED
  BY <1>3, <1>5, <1>6, <1>7 DEF Judge, Rejection

LEMMA PrepareDates == ASSUME ConvInv, InCalendar, DateInv, Prepare PROVE DateInv'
<1> DEFINE dated == [i \in DOMAIN request |-> Dated(request[i])]
<1>1. phase = "admitted" /\ UNCHANGED <<script, now, sent>>
  BY DEF Prepare, client
<1>2. CASE Refuse(500)
  BY <1>1, <1>2, ReplyDates DEF Refuse
<1>3. CASE ~Raises(dated) /\ phase' = "routing" /\ request' = dated /\ UNCHANGED history
  <2>1. ASSUME NEW i \in DOMAIN dated PROVE Datable(dated[i]) /\ RightNow(dated[i])
    <3>1. PICK m : m = request[i]
      OBVIOUS
    <3>2. Datable(m) /\ dated[i] = Dated(m)
      BY <3>1 DEF DateInv
    <3>3. \A k \in DOMAIN dated[i].text.values : dated[i].text.values[k] # Raised
      BY <1>3, Zenon DEF Raises
    <3> HIDE DEF dated
    <3>4. \A k \in DOMAIN Dated(m).text.values : Dated(m).text.values[k] # Raised
      BY <3>2, <3>3, Zenon
    <3>5. Datable(Dated(m)) /\ RightNow(Dated(m))
      BY <1>1, <3>2, <3>4, DatedIsRight, Zenon
    <3> QED
      BY <3>2, <3>5, Zenon
  <2> HIDE DEF dated
  <2>2. \A i \in DOMAIN request' : Datable(request'[i]) /\ RightNow(request'[i])
    BY <1>3, <2>1, Zenon
  <2> QED
    BY <1>1, <1>3, <2>2, MoveDates
<1> HIDE DEF dated
<1> QED
  BY <1>2, <1>3 DEF Prepare, dated

LEMMA PrefixDates == ASSUME ConvInv, DateInv, PinPrefix PROVE DateInv'
<1> DEFINE first == request[FirstUser]
           cut == [first EXCEPT !.text.prefix = NoLevel]
           stripped == IF first.text.size > 3 THEN cut ELSE first
           r == [request EXCEPT ![FirstUser] = stripped]
<1>1. phase = "routing" /\ Under(request) /\ UNCHANGED <<script, now, history>>
  BY DEF PinPrefix, Unpinned, client, ConvInv, Pin, Send
<1>2. phase' = "sending" /\ request' = r /\ sent'.messages = r
  BY DEF PinPrefix, Pin, Send
<1>3. FirstUser \in DOMAIN request
  BY <1>1, FirstUserIs
<1>4. \A i \in DOMAIN request : Datable(request[i]) /\ RightNow(request[i])
  BY <1>1 DEF DateInv
<1>5. Datable(first) /\ RightNow(first)
  BY <1>3, <1>4, Zenon
<1>6. HasDate(cut) /\ SameDates(first, cut) /\ cut.text.values = first.text.values
  BY <1>5, PrefixKeepsDates DEF Datable
<1> HIDE DEF first, cut
<1>7. Datable(cut) /\ RightNow(cut)
  BY <1>5, <1>6, SameDatesDatable, Zenon
<1>8. Datable(stripped) /\ RightNow(stripped)
  BY <1>5, <1>7
<1> HIDE DEF stripped
<1>9. \A i \in DOMAIN r : i \in DOMAIN request /\ (r[i] = stripped \/ r[i] = request[i])
  BY <1>3
<1> HIDE DEF r
<1>10. \A i \in DOMAIN r : Datable(r[i]) /\ RightNow(r[i])
  BY <1>4, <1>8, <1>9
<1>11. \A i \in DOMAIN request' : Datable(request'[i]) /\ RightNow(request'[i])
  BY <1>2, <1>10
<1> QED
  BY <1>1, <1>2, <1>11, MoveDates

LEMMA AskDates ==
    ASSUME ScriptsTyped, TextsDatedRight, ConvInv, DateInv, Ask
    PROVE  DateInv'
<1>1. script \in Scripts /\ now \in [day : Int, minute : Int] /\ history \in Seq(Message)
  BY DEF ConvInv, Conversation
<1>2. TextsOf(script) \subseteq ClientText /\ script.days \subseteq Int
  BY <1>1 DEF ScriptsTyped
<1>3. PICK days \in script.days,
            text \in (IF history = <<>> THEN {script.opening} ELSE script.followups) :
        /\ now' = [now EXCEPT !.day = @ + days]
        /\ history' = Append(history, User(text))
  BY DEF Ask
<1>4. now'.day \in Int
  BY <1>1, <1>2, <1>3
<1>5. PICK d \in Int : d = IF script.stamped THEN now'.day ELSE 0
  BY <1>4
<1>6. PICK system : system = [script.system EXCEPT !.stamp = d]
  OBVIOUS
<1>7. request' = <<System(system)>> \o history'
  BY <1>5, <1>6 DEF Ask
<1>8. text \in TextsOf(script) /\ script.system \in TextsOf(script)
  BY <1>3 DEF TextsOf
<1>9. Datable(User(text)) /\ User(text) \in Message
  <2>1. script.temporal /\ text.words # <<>> /\ ~text.blocks => DatedRight(text.words, text.e)
    BY <1>1, <1>8, Zenon DEF TextsDatedRight
  <2>2. text \in ClientText
    BY <1>2, <1>8
  <2>3. "user" \in {"system", "user"}
    OBVIOUS
  <2>4. Datable(User(text))
    BY <2>1, <2>2, <2>3, WrittenDates, Zenon DEF User
  <2> QED
    BY <2>2, <2>4 DEF User, Message
<1>10. Datable(System(system)) /\ System(system) \in Message
  <2>1. script.system \in ClientText
    BY <1>2, <1>8
  <2>2. system \in ClientText
    BY <1>6, <2>1, StampedText
  <2>3. /\ system.words = script.system.words /\ system.e = script.system.e
        /\ system.blocks = script.system.blocks
    BY <1>6, <2>1 DEF ClientText
  <2>4. script.temporal /\ script.system.words # <<>> /\ ~script.system.blocks
           => DatedRight(script.system.words, script.system.e)
    BY <1>1, <1>8, Zenon DEF TextsDatedRight
  <2>5. "system" \in {"system", "user"}
    OBVIOUS
  <2>6. Datable(System(system))
    BY <2>2, <2>3, <2>4, <2>5, WrittenDates, Zenon DEF System
  <2> QED
    BY <2>2, <2>6 DEF System, Message
<1>11. \A i \in DOMAIN history' : Datable(history'[i])
  <2>1. \A i \in DOMAIN history' :
           history'[i] = User(text) \/ (i \in DOMAIN history /\ history'[i] = history[i])
    BY <1>1, <1>3, <1>9
  <2> QED
    BY <1>9, <2>1 DEF DateInv
<1>12. \A i \in DOMAIN request' : Datable(request'[i])
  <2>1. history' \in Seq(Message)
    BY <1>1, <1>3, <1>9
  <2>2. \A i \in DOMAIN request' :
           request'[i] = System(system)
             \/ (i - 1 \in DOMAIN history' /\ request'[i] = history'[i - 1])
    BY <1>7, <1>10, <2>1
  <2> QED
    BY <1>10, <1>11, <2>2
<1>13. script' = script /\ phase' = "arrived" /\ sent' = NotSent
  BY DEF Ask
<1>14. (\A i \in DOMAIN history : Datable(history[i]))'
       /\ (\A i \in DOMAIN request : Datable(request[i]))'
  BY <1>11, <1>12, <1>13 DEF Datable
<1>15. (\A i \in DOMAIN sent.messages : RightNow(sent.messages[i]))'
  BY <1>13 DEF NotSent
<1> QED
  BY <1>13, <1>14, <1>15 DEF DateInv

LEMMA AnswerDates == ASSUME ScriptsTyped, ConvInv, DateInv, Answer PROVE DateInv'
<1>1. script \in Scripts /\ phase = "sending" /\ UNCHANGED <<script, now, sent>>
  BY DEF ConvInv, Answer, client
<1>2. PICK marks \in script.answers :
        Reply(200, <<Assistant(Said(CleanOutput(marks, script.guard)))>>)
  BY DEF Answer
<1>3. marks \subseteq Marks /\ Sound(marks) /\ script.opening \in ClientText
  BY <1>1 DEF ScriptsTyped, TextsOf
<1>4. PICK out : out = CleanOutput(marks, script.guard)
  OBVIOUS
<1>5. out \subseteq Marks /\ Sound(out)
  BY <1>3, <1>4 DEF CleanOutput, MaskedOnOutput, Marks, Sensitive, Sound
<1>6. PICK m : m = Assistant(Said(out))
  OBVIOUS
<1>7. m \in Message /\ Datable(m)
  BY <1>3, <1>5, <1>6, SaidSilent
<1>8. Reply(200, <<m>>)
  BY <1>2, <1>4, <1>6, Zenon
<1> QED
  BY <1>1, <1>7, <1>8, ReplyDates

LEMMA OthersDate ==
    ASSUME ConvInv, DateInv,
           \/ RefuseRoute \/ Fail \/ PassThrough \/ ClassifyAlone \/ HitPin \/ RaceWon
           \/ PinForced \/ LookUp \/ ClassifierAnswers
    PROVE  DateInv'
<1>1. phase \in {"routing", "classifying", "sending"} /\ UNCHANGED <<script, now>>
  BY DEF RefuseRoute, Fail, PassThrough, ClassifyAlone, HitPin, RaceWon, PinForced, LookUp,
         ClassifierAnswers, Unpinned, client
<1>2. \A i \in DOMAIN request : Datable(request[i]) /\ RightNow(request[i])
  BY <1>1 DEF DateInv
<1>3. CASE UNCHANGED sent /\ \E code : Reply(code, <<>>)
  BY <1>1, <1>3, ReplyDates
<1>4. CASE request' = request /\ UNCHANGED history
           /\ (sent'.messages = sent.messages
                 \/ (sent'.messages = request' /\ phase' = "sending"))
  BY <1>1, <1>2, <1>4, MoveDates
<1>5. CASE RefuseRoute \/ Fail
  BY <1>3, <1>5 DEF RefuseRoute, Fail, Refuse
<1>6. CASE PassThrough \/ ClassifyAlone \/ HitPin \/ RaceWon \/ PinForced \/ LookUp
  BY <1>4, <1>6 DEF PassThrough, ClassifyAlone, HitPin, RaceWon, PinForced, LookUp, Pin, Send
<1>7. CASE ClassifierAnswers
  BY <1>3, <1>4, <1>7 DEF ClassifierAnswers, Pin, Send, Refuse
<1> QED
  BY <1>5, <1>6, <1>7

LEMMA DateNext ==
    ASSUME ScriptsTyped, TextsDatedRight, ConvInv, InCalendar, DateInv, [Next]_vars
    PROVE  DateInv'
<1>1. CASE Expire \/ OtherConversation \/ UNCHANGED vars
  <2>1. UNCHANGED <<script, now, history, request, phase, sent>>
    BY <1>1 DEF Expire, OtherConversation, vars, client
  <2> QED
    BY <2>1, MoveDates DEF DateInv
<1> QED
  BY <1>1, AskDates, ScreenDates, JudgeDates, PrepareDates, PrefixDates, OthersDate,
     AnswerDates DEF Next

\* The clock moves when a request is asked only.
LEMMA CalendarNext ==
    ASSUME CalendarScripts, ConvInv, InCalendar, [Next]_vars
    PROVE  InCalendar'
<1>1. CASE Ask
  <2>1. PICK days \in script.days : now' = [now EXCEPT !.day = @ + days]
    BY <1>1 DEF Ask
  <2>2. days \in Nat /\ now \in [day : Int, minute : Int]
    BY <2>1 DEF CalendarScripts, ConvInv
  <2>3. now'.day = now.day + days
    BY <2>1, <2>2
  <2> QED
    BY <2>2, <2>3 DEF InCalendar, CalendarDays
<1>2. CASE ~Ask
  <2>1. now' = now
    BY <1>2 DEF Next, Screen, Judge, Prepare, PinPrefix, RefuseRoute, Fail, PassThrough,
       ClassifyAlone, HitPin, RaceWon, PinForced, LookUp, ClassifierAnswers, Answer,
       Expire, OtherConversation, Unpinned, vars, client
  <2> QED
    BY <2>1 DEF InCalendar
<1> QED
  BY <1>1, <1>2

\* If the texts are dated right one by one, so is every conversation.
LEMMA RightIfTextsAre ==
    ASSUME ScriptsTyped, CalendarScripts, TextsDatedRight
    PROVE  Spec => []DatesRight
<1>1. Init => InCalendar /\ DateInv
  BY DEF Init, CalendarScripts, InCalendar, DateInv, NotSent
<1>2. DateInv => DatesRight
  BY Zenon DEF DateInv, RightNow, DatesRight
<1>3. ConvInv /\ InCalendar /\ DateInv /\ [Next]_vars => ConvInv' /\ InCalendar' /\ DateInv'
  BY ConvNext, CalendarNext, DateNext
<1> QED
  BY <1>1, <1>2, <1>3, ConvInit, PTL DEF Spec

-----------------------------------------------------------------------------
(* Theorems *)

\* The phrases of the engine, with what their patterns capture. Days:
SaysDay(words, e) ==
    /\ Untagged(e)
    /\ \E p \in DayPhrases : words = p[1] /\ (p[2] = 3 => e.n = 3 /\ e.unit = "day")

\* Weekdays, with the side the pattern captured.
SaysWeekday(words, e) ==
    /\ Untagged(e) /\ e.n \in 0..6
    /\ \/ words \in {<<"coming", "friday">>, <<"on", "friday">>, <<"friday">>}
       \/ \E d \in {"last", "next", "this", "previous"} :
             words = <<d, "friday">> /\ e.dir = d

\* Times of the clock, with the hour and minute captured.
SaysTime(words, e) ==
    /\ Untagged(e) /\ ClockCapture(words, e)
    /\ words \in {<<"at", "3:15", "am/pm">>, <<"3:15", "am/pm">>, <<"3", "am/pm">>,
                  <<"half", "past", "3">>,
                  <<"quarter", "to", "3", "am/pm">>, <<"quarter", "to", "3">>,
                  <<"quarter", "past", "3", "am/pm">>, <<"quarter", "past", "3">>}

\* Periods, with the tag of their pattern.
SaysPeriod(words, e) ==
    \E d \in {"last", "this", "next"} :
       \/ words = <<d, "week">> /\ Names(e, OfWeek[d])
       \/ words = <<d, "weekend">> /\ Names(e, OfWeekend[d])
       \/ words = <<d, "month">> /\ Names(e, OfMonth[d])
       \/ words = <<d, "year">> /\ Names(e, OfYear[d])
       \/ words = <<d, "quarter">> /\ Names(e, OfQuarter[d])

\* Seasons, with the side captured and the month they begin in.
SaysSeason(words, e) ==
    \E d \in {"last", "this", "next"} :
       \/ words = <<d, "spring">> /\ SeasonCapture(e, d, 3)
       \/ words = <<d, "winter">> /\ SeasonCapture(e, d, 12)

\* And one expression of every other kind, by its tag.
SaysOther(words, e) == \E t \in OtherTags : words = <<t>> /\ Names(e, t)

KnownPhrase(words, e) ==
    /\ IsCapture(e)
    /\ \/ SaysDay(words, e) \/ SaysWeekday(words, e) \/ SaysTime(words, e)
       \/ SaysPeriod(words, e) \/ SaysSeason(words, e) \/ SaysOther(words, e)

\* Every text that is dated is such a phrase.
KnownTexts ==
    \A s \in Scripts : s.temporal =>
        \A t \in TextsOf(s) : t.words # <<>> /\ ~t.blocks => KnownPhrase(t.words, t.e)

\* The phrases kind by kind.
LEMMA DaysRight ==
    ASSUME NEW words, NEW e, IsCapture(e), SaysDay(words, e)
    PROVE  DatedRight(words, e)
<1>1. Untagged(e)
  BY Zenon DEF SaysDay
<1>2. \/ words = <<"today">> \/ words = <<"tomorrow">> \/ words = <<"yesterday">>
      \/ words = <<"the", "day", "after", "tomorrow">>
      \/ words = <<"the", "day", "before", "yesterday">>
      \/ words = <<"yesterday", "afternoon">> \/ words = <<"tomorrow", "night">>
      \/ words = <<"first", "thing", "in", "the", "morning">>
      \/ words = <<"a", "fortnight", "from", "now">>
      \/ words = <<"3", "days", "from", "now">> /\ e.n = 3 /\ e.unit = "day"
      \/ words = <<"end", "of", "day">>
  BY DEF SaysDay, DayPhrases
<1> QED
  BY <1>1, <1>2, TodayIsRight, TomorrowRight, YesterdayRight, AfterTomorrowRight,
     BeforeYesterdayRight, YesterdayAfternoonRight, TomorrowNightRight, FirstThingRight,
     FortnightFromNowRight, DaysFromNowRight, EndOfDayRight, Zenon

LEMMA WeekdaysRight ==
    ASSUME NEW words, NEW e, IsCapture(e), SaysWeekday(words, e)
    PROVE  DatedRight(words, e)
<1>1. Untagged(e) /\ e.n \in 0..6
  BY Zenon DEF SaysWeekday
<1>2. CASE words \in {<<"coming", "friday">>, <<"on", "friday">>, <<"friday">>}
  BY <1>1, <1>2, ComingFridayRight, OnFridayRight, FridayRight, Zenon
<1>3. ASSUME NEW d \in {"last", "next", "this", "previous"}, words = <<d, "friday">>, e.dir = d
      PROVE  DatedRight(words, e)
  BY <1>1, <1>3, RelativeFridayRight, Zenon
<1> QED
  BY <1>2, <1>3, Zenon DEF SaysWeekday

LEMMA TimesRight ==
    ASSUME NEW words, NEW e, IsCapture(e), SaysTime(words, e)
    PROVE  DatedRight(words, e)
<1>1. Untagged(e) /\ ClockCapture(words, e)
  BY Zenon DEF SaysTime
<1>2. \/ words = <<"at", "3:15", "am/pm">> \/ words = <<"3:15", "am/pm">>
      \/ words = <<"3", "am/pm">> \/ words = <<"half", "past", "3">>
      \/ words = <<"quarter", "to", "3", "am/pm">> \/ words = <<"quarter", "to", "3">>
      \/ words = <<"quarter", "past", "3", "am/pm">> \/ words = <<"quarter", "past", "3">>
  BY Zenon DEF SaysTime
<1>3. "3" \in {"3:15", "3"} /\ "3:15" \in {"3:15", "3"}
  OBVIOUS
<1> QED
  BY <1>1, <1>2, <1>3, AtTheTimeRight, TheTimeRight, HalfPastRight, QuarterToRight,
     QuarterToBareRight, QuarterPastRight, QuarterPastBareRight, Zenon

LEMMA PeriodsRight ==
    ASSUME NEW words, NEW e, IsCapture(e), SaysPeriod(words, e)
    PROVE  DatedRight(words, e)
BY WeekIsRight, WeekendIsRight, MonthIsRight, YearIsRight, QuarterIsRight, Zenon
   DEF SaysPeriod

LEMMA SeasonsRight ==
    ASSUME NEW words, NEW e, IsCapture(e), SaysSeason(words, e)
    PROVE  DatedRight(words, e)
<1>1. 3 \in {3, 12} /\ 12 \in {3, 12}
  OBVIOUS
<1>2. "spring" \in {"spring", "winter"} /\ "winter" \in {"spring", "winter"}
  OBVIOUS
<1> QED
  BY <1>1, <1>2, SeasonIsRight, Zenon DEF SaysSeason

\* process_message makes one value of such a phrase, whatever day of the calendar
\* and minute it is tried at, and the value is the right one: no rule of rules.py
\* before the right one takes a part of the phrase, the right one takes all of it,
\* no rule after it finds a word, and the handler of its tag reaches the days and
\* the time that are meant, across the ends of months, quarters and years, if
\* Means says which (a handler that raises, on a day the year it sets has not,
\* fails the request).
THEOREM PhrasesAreDatedRight ==
    ASSUME NEW words, NEW e, KnownPhrase(words, e)
    PROVE  DatedRight(words, e)
BY DaysRight, WeekdaysRight, TimesRight, PeriodsRight, SeasonsRight, OtherIsRight, Zenon
   DEF KnownPhrase, SaysOther

\* In conversations of any length of such texts, on any days of the calendar, every
\* dated message a request sends to the provider is dated by the day of that
\* request: dates are resolved from the request's own clock, also in turns said
\* on earlier days.
THEOREM DatesAreRight ==
    ASSUME ScriptsTyped, CalendarScripts, KnownTexts
    PROVE  Spec => []DatesRight
<1>1. TextsDatedRight
  BY PhrasesAreDatedRight, Zenon DEF TextsDatedRight, KnownTexts
<1> QED
  BY <1>1, RightIfTextsAre
=============================================================================
