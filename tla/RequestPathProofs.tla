------------------------- MODULE RequestPathProofs -------------------------
(***************************************************************************)
(* For any scripts, conversations of any length and any number of turns:   *)
(* what the provider is sent has been screened, and goes to a tier the     *)
(* request and the configuration allow; the state keeps its types; and a   *)
(* conversation that keeps its name or its head stays one session.         *)
(***************************************************************************)
EXTENDS FiniteSetTheorems, SequenceTheorems, RequestPath, TLAPS

\* A broken credential is one with an invisible character in it.
Sound(marks) == "broken" \in marks => "invisible" \in marks

TextsOf(s) == {s.opening, s.system} \cup s.followups
Captures == {t.e : t \in UNION {TextsOf(s) : s \in Scripts}}

Topics == {"answer"} \cup {t.topic : t \in UNION {TextsOf(s) : s \in Scripts}}

\* What a client writes.
ClientText ==
    [topic : Topics, marks : {k \in SUBSET Marks : Sound(k)}, size : Nat, fences : Nat,
     phrases : SUBSET STRING, prefix : Level \cup {NoLevel}, blocks : BOOLEAN,
     stamp : Int, words : Seq(STRING), e : Captures, values : {<<>>}]
Message == [role : {"system", "user", "assistant"}, text : ClientText]

Asked == Level \cup {NoLevel, BadLevel}

\* Scripts of clients that write such texts and send options the router can
\* parse, and of configurations whose levels are levels in their order.
ScriptsTyped ==
    \A s \in Scripts :
        /\ TextsOf(s) \subseteq ClientText
        /\ s.start \in [day : Int, minute : Int] /\ s.days \subseteq Int
        /\ \A marks \in s.answers : marks \subseteq Marks /\ Sound(marks)
        /\ \A o \in s.options : {o.headerLevel, o.level, o.max, o.min} \subseteq Asked
        /\ {s.routing.globalMax, s.routing.globalMin, s.routing.default} \subseteq Level
        /\ s.routing.globalMin <= s.routing.globalMax
        /\ {s.classify.default, s.classify.unknown} \subseteq Level

\* What is left of a message under way: its values and prefix may have changed.
IsMessage(m) ==
    /\ {"role", "text"} \subseteq DOMAIN m /\ {"marks", "prefix"} \subseteq DOMAIN m.text
    /\ m.text.prefix \in Level \cup {NoLevel}

\* What SentIsScreened asks of a message.
Screened(marks) ==
    /\ script.guard.maskInput => marks \cap Sensitive = {}
    /\ script.guard.maskInput /\ script.guard.invisible => "broken" \notin marks
    /\ ~Blocked({marks}, script.guard)

\* Stripping before masking leaves nothing of what is masked.
LEMMA CleanedIsClean ==
    ASSUME NEW marks, NEW cfg, Sound(marks)
    PROVE  /\ cfg.maskInput => CleanInput(marks, cfg) \cap Sensitive = {}
           /\ cfg.maskInput /\ cfg.invisible => "broken" \notin CleanInput(marks, cfg)
BY DEF CleanInput, MaskInput, StripInvisible, Sensitive, Sound

-----------------------------------------------------------------------------
(* Messages and conversations                                              *)

LEMMA WrittenMessage == ASSUME NEW m \in Message PROVE IsMessage(m) /\ Sound(m.text.marks)
BY DEF Message, ClientText, IsMessage

LEMMA ValuesSet ==
    ASSUME NEW m, NEW v, IsMessage(m)
    PROVE  LET n == [m EXCEPT !.text.values = v]
           IN  IsMessage(n) /\ n.text.marks = m.text.marks /\ n.role = m.role
BY DEF IsMessage

LEMMA PrefixSet ==
    ASSUME NEW m, IsMessage(m)
    PROVE  LET n == [m EXCEPT !.text.prefix = NoLevel]
           IN  IsMessage(n) /\ n.text.marks = m.text.marks /\ n.role = m.role
BY DEF IsMessage

LEMMA MarksSet ==
    ASSUME NEW m, NEW cfg, IsMessage(m)
    PROVE  LET n == [m EXCEPT !.text.marks = CleanInput(@, cfg)]
           IN  IsMessage(n) /\ n.text.marks = CleanInput(m.text.marks, cfg) /\ n.role = m.role
BY DEF IsMessage

LEMMA SaidText ==
    ASSUME NEW k \in SUBSET Marks, Sound(k), script.opening \in ClientText
    PROVE  Said(k) \in ClientText
<1> DEFINE t1 == [script.opening EXCEPT !.topic = "answer"]
           t2 == [t1 EXCEPT !.marks = k]
           t3 == [t2 EXCEPT !.size = 60]
           t4 == [t3 EXCEPT !.fences = 0]
           t5 == [t4 EXCEPT !.phrases = {}]
           t6 == [t5 EXCEPT !.prefix = NoLevel]
           t7 == [t6 EXCEPT !.blocks = FALSE]
           t8 == [t7 EXCEPT !.words = <<>>]
<1>1. t1 \in ClientText /\ t2 \in ClientText
  <2>1. "answer" \in Topics
    BY DEF Topics
  <2> QED
    BY <2>1 DEF ClientText
<1>2. t3 \in ClientText /\ t4 \in ClientText
  BY <1>1 DEF ClientText
<1>3. t5 \in ClientText /\ t6 \in ClientText
  BY <1>2 DEF ClientText
<1>4. t7 \in ClientText /\ t8 \in ClientText
  <2>1. <<>> \in Seq(STRING)
    OBVIOUS
  <2> HIDE DEF t6
  <2> QED
    BY <1>3, <2>1 DEF ClientText
<1> QED
  BY <1>4 DEF Said

LEMMA StampedText ==
    ASSUME NEW d \in Int, script.system \in ClientText
    PROVE  [script.system EXCEPT !.stamp = d] \in ClientText
BY DEF ClientText

\* A conversation starts with the user and is sent behind a system message.
Conversation(h) == h \in Seq(Message) /\ (h # <<>> => h[1].role = "user")

LEMMA Asking ==
    ASSUME NEW h, Conversation(h), NEW t \in ClientText, NEW u \in ClientText
    PROVE  /\ Conversation(Append(h, User(t))) /\ Append(h, User(t)) # <<>>
           /\ <<System(u)>> \o Append(h, User(t)) \in Seq(Message)
           /\ Len(<<System(u)>> \o Append(h, User(t))) >= 2
           /\ (<<System(u)>> \o Append(h, User(t)))[1].role = "system"
           /\ (<<System(u)>> \o Append(h, User(t)))[2].role = "user"
<1> DEFINE a == Append(h, User(t))
<1>1. User(t) \in Message /\ User(t).role = "user"
  BY DEF User, Message
<1>2. System(u) \in Message /\ System(u).role = "system"
  BY DEF System, Message
<1>3. h \in Seq(Message)
  BY DEF Conversation
<1>4. a \in Seq(Message) /\ Len(a) = Len(h) + 1 /\ Len(a) >= 1
      /\ a[1] = (IF h = <<>> THEN User(t) ELSE h[1])
  BY <1>1, <1>3
<1>5. a[1].role = "user" /\ a # <<>>
  BY <1>1, <1>4 DEF Conversation
<1> HIDE DEF a
<1>6. <<System(u)>> \in Seq(Message) /\ Len(<<System(u)>>) = 1 /\ <<System(u)>>[1] = System(u)
  BY <1>2
<1>7. <<System(u)>> \o a \in Seq(Message) /\ Len(<<System(u)>> \o a) = 1 + Len(a)
  BY <1>4, <1>6
<1>8. (<<System(u)>> \o a)[1] = System(u) /\ (<<System(u)>> \o a)[2] = a[1]
  BY <1>4, <1>6
<1>9. Conversation(a)
  BY <1>4, <1>5 DEF Conversation
<1> QED
  BY <1>2, <1>4, <1>5, <1>7, <1>8, <1>9 DEF a

LEMMA Replying ==
    ASSUME NEW h, Conversation(h), h # <<>>
    PROVE  /\ Conversation(SubSeq(h, 1, Len(h) - 1))
           /\ \A t \in ClientText : Conversation(h \o <<Assistant(t)>>)
<1>1. h \in Seq(Message) /\ h[1].role = "user" /\ Len(h) >= 1
  BY DEF Conversation
<1>2. Conversation(SubSeq(h, 1, Len(h) - 1))
  <2> DEFINE b == SubSeq(h, 1, Len(h) - 1)
  <2>1. b \in Seq(Message) /\ (b # <<>> => b[1] = h[1])
    BY <1>1
  <2> QED
    BY <1>1, <2>1 DEF Conversation
<1>3. ASSUME NEW t \in ClientText PROVE Conversation(h \o <<Assistant(t)>>)
  <2>1. Assistant(t) \in Message
    BY DEF Assistant, Message
  <2> DEFINE c == h \o <<Assistant(t)>>
  <2>2. c \in Seq(Message) /\ c[1] = h[1]
    BY <1>1, <2>1
  <2> QED
    BY <1>1, <2>2 DEF Conversation
<1> QED
  BY <1>2, <1>3

-----------------------------------------------------------------------------
(* The conversation and the request made of it                             *)

\* The messages under way: a system message and the user's first come first.
Under(r) ==
    /\ {1, 2} \subseteq DOMAIN r /\ DOMAIN r \subseteq Nat \ {0}
    /\ r[1].role = "system" /\ r[2].role = "user"
    /\ \A i \in DOMAIN r : IsMessage(r[i])

AllScreened(r) == \A i \in DOMAIN r : Screened(r[i].text.marks)

ConvInv ==
    /\ script \in Scripts /\ opts \in script.options
    /\ now \in [day : Int, minute : Int]
    /\ Conversation(history)
    /\ phase # "client" => history # <<>> /\ Under(request)
    /\ phase = "arrived" => \A i \in DOMAIN request : Sound(request[i].text.marks)
    /\ phase \in {"judging", "admitted", "routing", "classifying"} => AllScreened(request)
    /\ AllScreened(sent.messages)

LEMMA WrittenRequest ==
    ASSUME NEW r \in Seq(Message), Len(r) >= 2, r[1].role = "system", r[2].role = "user"
    PROVE  Under(r) /\ \A i \in DOMAIN r : Sound(r[i].text.marks)
<1>1. DOMAIN r = 1..Len(r) /\ \A i \in DOMAIN r : r[i] \in Message
  OBVIOUS
<1>2. \A i \in DOMAIN r : IsMessage(r[i]) /\ Sound(r[i].text.marks)
  BY <1>1, WrittenMessage
<1> QED
  BY <1>1, <1>2 DEF Under

\* The end of a request keeps the conversation one.
LEMMA ReplyKeeps ==
    ASSUME ConvInv, phase # "client", NEW code, NEW answer, Reply(code, answer),
           answer = <<>> \/ \E t \in ClientText : answer = <<Assistant(t)>>,
           UNCHANGED <<script, now, opts, sent>>
    PROVE  ConvInv'
<1>1. Conversation(history) /\ history # <<>>
  BY DEF ConvInv
<1>2. Conversation(history')
  BY <1>1, Replying DEF Reply
<1>3. phase' = "client"
  BY DEF Reply
<1>4. AllScreened(sent.messages)'
  BY DEF ConvInv, AllScreened, Screened
<1> QED
  BY <1>2, <1>3, <1>4 DEF ConvInv

\* So does what only moves the request on, with messages that are screened.
LEMMA MoveKeeps ==
    ASSUME ConvInv, phase # "client", phase' \notin {"client", "arrived"},
           Under(request'), AllScreened(request'), UNCHANGED <<script, now, opts, history>>,
           sent'.messages = sent.messages \/ sent'.messages = request'
    PROVE  ConvInv'
<1>1. AllScreened(request)' /\ AllScreened(sent.messages)'
  BY DEF ConvInv, AllScreened, Screened
<1> QED
  BY <1>1 DEF ConvInv

LEMMA AdmittedIsUnblocked ==
    ASSUME NEW r, Admission(r) \in {Undecided, Passed}
    PROVE  ~Blocked({r[i].text.marks : i \in DOMAIN r}, script.guard)
BY DEF Admission, Undecided, Passed

LEMMA ScreenKeeps == ASSUME ConvInv, Screen PROVE ConvInv'
<1> DEFINE cleaned == Cleaned(request)
           code == Admission(cleaned)
<1>1. phase = "arrived" /\ Under(request) /\ UNCHANGED <<script, now, opts, sent>>
  BY DEF Screen, client, ConvInv
<1>2. ASSUME NEW i \in DOMAIN request
      PROVE  /\ IsMessage(cleaned[i]) /\ cleaned[i].role = request[i].role
             /\ cleaned[i].text.marks = CleanInput(request[i].text.marks, script.guard)
  BY <1>1, MarksSet DEF Under, Cleaned
<1>3. DOMAIN cleaned = DOMAIN request
  BY DEF Cleaned
<1>4. Under(cleaned)
  BY <1>1, <1>2, <1>3 DEF Under
<1>5. CASE code \in {Undecided, Passed} /\ request' = cleaned
           /\ phase' \in {"judging", "admitted"} /\ UNCHANGED history
  <2>1. ~Blocked({cleaned[i].text.marks : i \in DOMAIN cleaned}, script.guard)
    BY <1>5, AdmittedIsUnblocked
  <2>2. ASSUME NEW i \in DOMAIN cleaned PROVE Screened(cleaned[i].text.marks)
    <3>1. Sound(request[i].text.marks)
      BY <1>1, <1>3 DEF ConvInv
    <3>2. /\ script.guard.maskInput => cleaned[i].text.marks \cap Sensitive = {}
          /\ script.guard.maskInput /\ script.guard.invisible
                => "broken" \notin cleaned[i].text.marks
      BY <1>2, <1>3, <3>1, CleanedIsClean
    <3>3. ~Blocked({cleaned[i].text.marks}, script.guard)
      BY <2>1 DEF Blocked
    <3> QED
      BY <3>2, <3>3 DEF Screened
  <2>3. AllScreened(cleaned)
    BY <2>2 DEF AllScreened
  <2> HIDE DEF cleaned
  <2>4. Under(request') /\ AllScreened(request')
    BY <1>4, <1>5, <2>3
  <2> QED
    BY <1>1, <1>5, <2>4, MoveKeeps
<1>6. CASE Refuse(code)
  BY <1>1, <1>6, ReplyKeeps DEF Refuse
<1> HIDE DEF cleaned
<1> QED
  BY <1>5, <1>6 DEF Screen, cleaned

LEMMA JudgeKeeps == ASSUME ScriptsTyped, ConvInv, Judge PROVE ConvInv'
<1>1. phase = "judging" /\ Under(request) /\ AllScreened(request)
      /\ UNCHANGED <<script, now, opts, sent>> /\ script.opening \in ClientText
  BY DEF Judge, client, ConvInv, ScriptsTyped, TextsOf
<1>2. Said({"refusal"}) \in ClientText
  <2>1. {"refusal"} \in SUBSET Marks /\ Sound({"refusal"})
    BY DEF Marks, Sound
  <2> QED
    BY <1>1, <2>1, SaidText
<1>3. CASE phase' = "admitted" /\ UNCHANGED <<history, request>>
  BY <1>1, <1>3, MoveKeeps
<1>4. CASE Reply(200, <<Assistant(Said({"refusal"}))>>)
  BY <1>1, <1>2, <1>4, ReplyKeeps
<1>5. CASE Refuse(400)
  BY <1>1, <1>5, ReplyKeeps DEF Refuse
<1> QED
  BY <1>3, <1>4, <1>5 DEF Judge, Rejection

LEMMA PrepareKeeps == ASSUME ConvInv, Prepare PROVE ConvInv'
<1> DEFINE dated == [i \in DOMAIN request |-> Dated(request[i])]
<1>1. phase = "admitted" /\ Under(request) /\ AllScreened(request)
      /\ UNCHANGED <<script, now, opts, sent>>
  BY DEF Prepare, client, ConvInv
<1>2. ASSUME NEW i \in DOMAIN request
      PROVE  /\ IsMessage(dated[i]) /\ dated[i].role = request[i].role
             /\ dated[i].text.marks = request[i].text.marks
  BY <1>1, ValuesSet DEF Under, Dated
<1>3. Under(dated) /\ AllScreened(dated)
  BY <1>1, <1>2 DEF Under, AllScreened
<1> HIDE DEF dated
<1>4. CASE Refuse(500)
  BY <1>1, <1>4, ReplyKeeps DEF Refuse
<1>5. CASE phase' = "routing" /\ request' = dated /\ UNCHANGED history
  <2>1. Under(request') /\ AllScreened(request')
    BY <1>3, <1>5
  <2> QED
    BY <1>1, <1>5, <2>1, MoveKeeps
<1> QED
  BY <1>4, <1>5 DEF Prepare, dated

\* The first user message is the second of all.
LEMMA FirstUserIs ==
    ASSUME Under(request)
    PROVE  FirstUser \in DOMAIN request /\ PrefixLevel \in Level \cup {NoLevel}
<1>1. 2 \in UserAt(request) /\ \A j \in UserAt(request) : 2 <= j
  BY DEF Under, UserAt
<1>2. FirstUser \in UserAt(request)
  BY <1>1 DEF FirstUser
<1>3. FirstUser \in DOMAIN request
  BY <1>2 DEF UserAt
<1>4. IsMessage(request[FirstUser])
  BY <1>3 DEF Under
<1> HIDE DEF FirstUser
<1> QED
  BY <1>3, <1>4 DEF PrefixLevel, IsMessage

LEMMA PrefixKeeps == ASSUME ConvInv, PinPrefix PROVE ConvInv'
<1> DEFINE first == request[FirstUser]
           cut == [first EXCEPT !.text.prefix = NoLevel]
           stripped == IF first.text.size > 3 THEN cut ELSE first
           r == [request EXCEPT ![FirstUser] = stripped]
<1>1. phase = "routing" /\ Under(request) /\ AllScreened(request)
      /\ UNCHANGED <<script, now, opts, history>>
  BY DEF PinPrefix, Unpinned, client, ConvInv, Pin, Send
<1>2. phase' = "sending" /\ request' = r /\ sent'.messages = r
  BY DEF PinPrefix, Pin, Send
<1>3. FirstUser \in DOMAIN request
  BY <1>1, FirstUserIs
<1>4. IsMessage(first)
  BY <1>1, <1>3 DEF Under
<1>5. IsMessage(cut) /\ cut.text.marks = first.text.marks /\ cut.role = first.role
  BY <1>4, PrefixSet
<1> HIDE DEF cut
<1>6. IsMessage(stripped) /\ stripped.text.marks = first.text.marks
      /\ stripped.role = first.role
  BY <1>4, <1>5
<1> HIDE DEF stripped
<1>7. DOMAIN r = DOMAIN request
      /\ \A i \in DOMAIN request : r[i] = IF i = FirstUser THEN stripped ELSE request[i]
  BY <1>3
<1> HIDE DEF r
<1>8. Under(r) /\ AllScreened(r)
  BY <1>1, <1>6, <1>7 DEF Under, AllScreened
<1>9. Under(request') /\ AllScreened(request')
  BY <1>2, <1>8
<1> QED
  BY <1>1, <1>2, <1>9, MoveKeeps
LEMMA AskKeeps == ASSUME ScriptsTyped, ConvInv, Ask PROVE ConvInv'
<1>1. script \in Scripts /\ now \in [day : Int, minute : Int] /\ Conversation(history)
  BY DEF ConvInv
<1>2. TextsOf(script) \subseteq ClientText /\ script.days \subseteq Int
  BY <1>1 DEF ScriptsTyped
<1>3. PICK days \in script.days, o \in script.options,
            text \in (IF history = <<>> THEN {script.opening} ELSE script.followups) :
        /\ now' = [now EXCEPT !.day = @ + days]
        /\ opts' = o
        /\ history' = Append(history, User(text))
  BY DEF Ask
<1>4. now' \in [day : Int, minute : Int] /\ now'.day \in Int
  BY <1>1, <1>2, <1>3
<1> DEFINE system == [script.system EXCEPT !.stamp = IF script.stamped THEN now'.day ELSE 0]
<1>5. system \in ClientText
  BY <1>2, <1>4, StampedText DEF TextsOf
<1>6. text \in ClientText
  BY <1>2, <1>3 DEF TextsOf
<1>7. request' = <<System(system)>> \o history'
  BY DEF Ask
<1> HIDE DEF system
<1>8. /\ Conversation(history') /\ history' # <<>>
      /\ request' \in Seq(Message) /\ Len(request') >= 2
      /\ request'[1].role = "system" /\ request'[2].role = "user"
  BY <1>1, <1>3, <1>5, <1>6, <1>7, Asking
<1>9. Under(request') /\ \A i \in DOMAIN request' : Sound(request'[i].text.marks)
  BY <1>8, WrittenRequest
<1>10. phase' = "arrived" /\ sent' = NotSent /\ script' = script
  BY DEF Ask
<1>11. AllScreened(sent.messages)'
  BY <1>10 DEF AllScreened, NotSent
<1> QED
  BY <1>1, <1>3, <1>4, <1>8, <1>9, <1>10, <1>11 DEF ConvInv

\* What is cleaned on the way out is a text a client may send again.
LEMMA AnswerKeeps == ASSUME ScriptsTyped, ConvInv, Answer PROVE ConvInv'
<1>1. script \in Scripts /\ phase = "sending" /\ UNCHANGED <<script, now, opts, sent>>
  BY DEF ConvInv, Answer, client
<1>2. PICK marks \in script.answers :
        Reply(200, <<Assistant(Said(CleanOutput(marks, script.guard)))>>)
  BY DEF Answer
<1>3. marks \subseteq Marks /\ Sound(marks) /\ script.opening \in ClientText
  BY <1>1 DEF ScriptsTyped, TextsOf
<1> DEFINE out == CleanOutput(marks, script.guard)
<1>4. out \subseteq Marks /\ Sound(out)
  BY <1>3 DEF CleanOutput, MaskedOnOutput, Marks, Sensitive, Sound
<1> HIDE DEF out
<1>5. Said(out) \in ClientText
  BY <1>3, <1>4, SaidText
<1> QED
  BY <1>1, <1>2, <1>5, ReplyKeeps DEF out

LEMMA RefusalKeeps ==
    ASSUME ConvInv, RefuseRoute \/ Fail
    PROVE  ConvInv'
<1>1. phase # "client" /\ UNCHANGED <<script, now, opts, sent>>
  BY DEF RefuseRoute, Fail, client
<1>2. \E code : Reply(code, <<>>)
  BY DEF RefuseRoute, Fail, Refuse
<1> QED
  BY <1>1, <1>2, ReplyKeeps

\* The actions that send the request as it is, or let it wait.
LEMMA RoutingKeeps ==
    ASSUME ConvInv,
           PassThrough \/ ClassifyAlone \/ HitPin \/ RaceWon \/ PinForced \/ LookUp
    PROVE  ConvInv'
<1>1. phase = "routing" /\ Under(request) /\ AllScreened(request)
  BY DEF ConvInv, PassThrough, ClassifyAlone, HitPin, RaceWon, PinForced, LookUp, Unpinned
<1>2. /\ phase' \in {"sending", "classifying"} /\ request' = request
      /\ UNCHANGED <<script, now, opts, history>>
      /\ sent'.messages = sent.messages \/ sent'.messages = request'
  BY DEF PassThrough, ClassifyAlone, HitPin, RaceWon, PinForced, LookUp, Pin, Send, client
<1> QED
  BY <1>1, <1>2, MoveKeeps

LEMMA ClassifiedKeeps == ASSUME ConvInv, ClassifierAnswers PROVE ConvInv'
<1>1. phase = "classifying" /\ Under(request) /\ AllScreened(request)
      /\ UNCHANGED <<script, now, opts>>
  BY DEF ConvInv, ClassifierAnswers, client
<1>2. CASE Refuse(200) /\ UNCHANGED sent
  BY <1>1, <1>2, ReplyKeeps DEF Refuse
<1>3. CASE phase' = "sending" /\ request' = request /\ UNCHANGED history
           /\ sent'.messages = request'
  BY <1>1, <1>3, MoveKeeps
<1> QED
  BY <1>2, <1>3 DEF ClassifierAnswers, Pin, Send

LEMMA ConvNext == ASSUME ScriptsTyped, ConvInv, [Next]_vars PROVE ConvInv'
<1>1. CASE Expire \/ OtherConversation \/ UNCHANGED vars
  <2>1. UNCHANGED <<script, now, opts, history, request, phase, sent>>
    BY <1>1 DEF Expire, OtherConversation, vars, client
  <2>2. AllScreened(sent.messages)' /\ (AllScreened(request) => AllScreened(request)')
    BY <2>1 DEF ConvInv, AllScreened, Screened
  <2> QED
    BY <2>1, <2>2 DEF ConvInv
<1> QED
  BY <1>1, AskKeeps, ScreenKeeps, JudgeKeeps, PrepareKeeps, RefusalKeeps, RoutingKeeps,
     PrefixKeeps, ClassifiedKeeps, AnswerKeeps DEF Next

LEMMA ConvInit == ASSUME ScriptsTyped, Init PROVE ConvInv
<1>1. script \in Scripts /\ now = script.start /\ opts \in script.options
      /\ phase = "client" /\ history = <<>> /\ sent = NotSent
  BY DEF Init
<1>2. now \in [day : Int, minute : Int]
  BY <1>1 DEF ScriptsTyped
<1>3. Conversation(history) /\ AllScreened(sent.messages)
  BY <1>1 DEF Conversation, AllScreened, NotSent
<1> QED
  BY <1>1, <1>2, <1>3 DEF ConvInv

\* SentIsScreened (_guardrail_scan_input_impl): whatever is said in however many
\* turns, no message the provider is sent shows what the masking covers, or
\* what the guardrail blocks.
THEOREM MessagesAreScreened == ASSUME ScriptsTyped PROVE Spec => []SentIsScreened
<1>1. ConvInv => SentIsScreened
  BY DEF ConvInv, AllScreened, Screened, SentIsScreened
<1> QED
  BY <1>1, ConvInit, ConvNext, PTL DEF Spec

-----------------------------------------------------------------------------
(* The levels                                                              *)

\* Options the router goes on with, and the bounds of a configuration.
Allows(o, routing) == ~BadOptions(o) /\ Policy(o, routing).status = 200
Asks(o) == {o.headerLevel, o.level, o.max, o.min} \subseteq Asked
Routing(routing) ==
    /\ {routing.globalMax, routing.globalMin, routing.default} \subseteq Level
    /\ routing.globalMin <= routing.globalMax

Capped(o, routing) == o.min = NoLevel \/ o.min <= routing.globalMax

LEMMA AskedLevels ==
    ASSUME NEW o, NEW routing, Asks(o), Allows(o, routing)
    PROVE  /\ {o.max, o.min, ForcedLevel(o)} \subseteq Level \cup {NoLevel}
           /\ o.max # NoLevel /\ o.min # NoLevel => o.min <= o.max
<1>1. {o.max, o.min, ForcedLevel(o)} \subseteq Level \cup {NoLevel}
  BY DEF Asks, Asked, Allows, BadOptions, ForcedLevel
<1>2. o.max # NoLevel /\ o.min # NoLevel /\ o.min > o.max => Policy(o, routing).status = 422
  BY DEF Policy
<1>3. ~(o.max # NoLevel /\ o.min # NoLevel /\ o.min > o.max)
  BY <1>2 DEF Allows
<1> QED
  BY <1>1, <1>3 DEF Level, NoLevel

LEMMA ClampWithin ==
    ASSUME NEW l \in Level, NEW max \in Level \cup {NoLevel}, NEW min \in Level \cup {NoLevel},
           max # NoLevel /\ min # NoLevel => min <= max
    PROVE  /\ Clamp(l, max, min) \in Level
           /\ max # NoLevel => Clamp(l, max, min) <= max
           /\ min # NoLevel => Clamp(l, max, min) >= min
           /\ \A top \in Level : l <= top /\ (min = NoLevel \/ min <= top)
                                   => Clamp(l, max, min) <= top
BY DEF Clamp, Level, NoLevel

LEMMA GlobalWithin ==
    ASSUME NEW l \in Level, NEW routing, Routing(routing)
    PROVE  GlobalClamp(l, routing) \in Level /\ GlobalClamp(l, routing) <= routing.globalMax
BY DEF GlobalClamp, Level, Routing

\* What the policy forces is a level; a level the client forces stays under the
\* ceiling once it is clamped, whether or not the policy had to change it.
LEMMA PolicyLevel ==
    ASSUME NEW o, NEW routing, Asks(o), Allows(o, routing), Routing(routing)
    PROVE  /\ ForcedByPolicy(o, routing) \in Level \cup {NoLevel}
           /\ ForcedLevel(o) # NoLevel =>
                /\ ForcedByPolicy(o, routing) # NoLevel
                /\ Capped(o, routing) =>
                     Clamp(ForcedByPolicy(o, routing), o.max, o.min) <= routing.globalMax
<1> DEFINE fl == ForcedLevel(o)
           wanted == IF fl # NoLevel THEN fl ELSE routing.default
           asked == Clamp(wanted, o.max, o.min)
           level == GlobalClamp(asked, routing)
           policy == Policy(o, routing)
<1>1. o.max \in Level \cup {NoLevel} /\ o.min \in Level \cup {NoLevel}
      /\ fl \in Level \cup {NoLevel} /\ (o.max # NoLevel /\ o.min # NoLevel => o.min <= o.max)
  BY AskedLevels
<1>2. wanted \in Level /\ routing.globalMax \in Level
  BY <1>1 DEF Routing
<1>3. asked \in Level
  BY <1>1, <1>2, ClampWithin
<1>4. level \in Level /\ level <= routing.globalMax
  BY <1>3, GlobalWithin
<1>5. policy.level = level /\ (asked > routing.globalMax => policy.clamped)
  BY DEF Policy
<1>6. ForcedByPolicy(o, routing) = IF policy.clamped \/ policy.overridden THEN level ELSE fl
  BY <1>5 DEF ForcedByPolicy
<1>7. fl # NoLevel => wanted = fl
  OBVIOUS
<1>8. level # NoLevel
  BY <1>4 DEF Level, NoLevel
<1>9. ASSUME Capped(o, routing)
      PROVE  Clamp(level, o.max, o.min) <= routing.globalMax
  BY <1>1, <1>2, <1>4, <1>9, ClampWithin DEF Capped
<1>10. ~policy.clamped => asked <= routing.globalMax
  BY <1>2, <1>3, <1>5 DEF Level
<1> HIDE DEF fl, wanted, asked, level, policy
<1>11. CASE policy.clamped \/ policy.overridden
  BY <1>4, <1>6, <1>8, <1>9, <1>11
<1>12. CASE ~(policy.clamped \/ policy.overridden)
  <2>1. fl # NoLevel => Clamp(fl, o.max, o.min) <= routing.globalMax
    BY <1>7, <1>10, <1>12 DEF asked
  <2> QED
    BY <1>1, <1>6, <1>12, <2>1 DEF fl
<1> QED
  BY <1>11, <1>12

LEMMA ResolvedWithin ==
    ASSUME NEW l \in Level, NEW max \in Level \cup {NoLevel}, NEW min \in Level \cup {NoLevel},
           NEW routing, Routing(routing)
    PROVE  /\ EngineResolve(l, max, min, routing) \in Level
           /\ min = NoLevel \/ min <= routing.globalMax
                => EngineResolve(l, max, min, routing) <= routing.globalMax
BY DEF EngineResolve, Smaller, Larger, Routing, Level, NoLevel

\* Every classification ends with a level.
LEMMA ClassifiedLevel ==
    ASSUME NEW digest, NEW json, NEW answer, NEW cfg,
           cfg.default \in Level, cfg.unknown \in Level
    PROVE  Classify(digest, json, answer, cfg).level \in Level
BY DEF Classify, Stops, Evaluate, Handle, Parse, WithConfidence, FromNumeric, Outcome, Level,
       NoLevel

\* What a level may be on the path that sends it.
LevelFits(path, level, o, routing) ==
    /\ path \in {"hit", "pinned"} =>
         /\ o.max # NoLevel => level <= o.max
         /\ o.min # NoLevel => level >= o.min
    /\ path = "escalated" => level <= routing.globalMax
    /\ path = "stateless" /\ Capped(o, routing) => level <= routing.globalMax
    /\ path \in {"hit", "pinned"} /\ ForcedLevel(o) # NoLevel /\ ModeOf(o.model) # "level"
         /\ Capped(o, routing) => level <= routing.globalMax

LeveledPin(pin) == "level" \in DOMAIN pin /\ pin.level \in Level

\* A classification is under way only for a request that forces no level.
LevelInv ==
    /\ \A pin \in pins : LeveledPin(pin)
    /\ \A entry \in cache : entry.level \in Level
    /\ phase = "classifying" => Allowed /\ (Pinned => Forced = NoLevel)
    /\ LevelFits(sent.path, sent.level, opts, script.routing)

LEMMA ConfigurationTyped ==
    ASSUME ScriptsTyped, ConvInv
    PROVE  /\ Asks(opts) /\ Routing(script.routing)
           /\ script.classify.default \in Level /\ script.classify.unknown \in Level
BY DEF ScriptsTyped, ConvInv, Asks, Routing

LEMMA ForcedIsLevel ==
    ASSUME ScriptsTyped, ConvInv, Allowed
    PROVE  /\ Forced \in Level \cup {NoLevel}
           /\ ForcedLevel(opts) # NoLevel /\ Mode # "level" =>
                /\ Forced # NoLevel
                /\ Capped(opts, script.routing) =>
                     Clamp(Forced, opts.max, opts.min) <= script.routing.globalMax
<1>1. Asks(opts) /\ Routing(script.routing) /\ Allows(opts, script.routing)
  BY ConfigurationTyped DEF Allowed, Allows
<1>2. Mode = "level" => Forced \in Level
  <2>1. ASSUME Mode = "level" PROVE opts.model \in DOMAIN DirectiveLevel
    BY <2>1 DEF Mode, ModeOf
  <2>2. \A x \in DOMAIN DirectiveLevel : DirectiveLevel[x] \in Level
    BY DEF DirectiveLevel, Level
  <2> QED
    BY <2>1, <2>2 DEF Forced
<1>3. Mode # "level" => Forced = ForcedByPolicy(opts, script.routing)
  BY DEF Forced
<1> QED
  BY <1>1, <1>2, <1>3, PolicyLevel

\* A level that was clamped to the request fits, and so does a forced one.
LEMMA ClampedFits ==
    ASSUME ScriptsTyped, ConvInv, Allowed, NEW path \in {"hit", "pinned"}, NEW l \in Level,
           Forced = NoLevel \/ l = Forced
    PROVE  /\ Clamp(l, opts.max, opts.min) \in Level
           /\ LevelFits(path, Clamp(l, opts.max, opts.min), opts, script.routing)
<1>1. Asks(opts) /\ Allows(opts, script.routing)
  BY ConfigurationTyped DEF Allowed, Allows
<1>2. /\ opts.max \in Level \cup {NoLevel} /\ opts.min \in Level \cup {NoLevel}
      /\ opts.max # NoLevel /\ opts.min # NoLevel => opts.min <= opts.max
  BY <1>1, AskedLevels
<1>3. /\ Clamp(l, opts.max, opts.min) \in Level
      /\ opts.max # NoLevel => Clamp(l, opts.max, opts.min) <= opts.max
      /\ opts.min # NoLevel => Clamp(l, opts.max, opts.min) >= opts.min
  BY <1>2, ClampWithin
<1>4. ForcedLevel(opts) # NoLevel /\ ModeOf(opts.model) # "level" /\ Capped(opts, script.routing)
        => Clamp(l, opts.max, opts.min) <= script.routing.globalMax
  BY ForcedIsLevel DEF Mode
<1> QED
  BY <1>3, <1>4 DEF LevelFits

\* Pinning a level that fits keeps the invariant.
LEMMA PinningKeeps ==
    ASSUME ScriptsTyped, ConvInv, LevelInv, Allowed, NEW l \in Level, NEW reason, NEW messages,
           Forced = NoLevel \/ l = Forced, Pin(l, reason, messages),
           \A entry \in cache' : entry.level \in Level, UNCHANGED <<script, opts>>
    PROVE  LevelInv'
<1> DEFINE effective == Clamp(l, opts.max, opts.min)
           new == [id |-> SessionId, level |-> effective, provisional |-> reason = "UNKNOWN"]
<1>1. effective \in Level /\ LevelFits("pinned", effective, opts, script.routing)
  BY ClampedFits
<1>2. pins' = {pin \in pins : pin.id # SessionId} \cup {new}
  BY DEF Pin
<1>3. LeveledPin(new)
  BY <1>1 DEF LeveledPin
<1>4. \A pin \in pins' : LeveledPin(pin)
  BY <1>2, <1>3 DEF LevelInv
<1>5. phase' = "sending" /\ sent'.path = "pinned" /\ sent'.level = effective
  BY DEF Pin, Send
<1> HIDE DEF effective, new
<1> QED
  BY <1>1, <1>4, <1>5 DEF LevelInv

\* Steps that send nothing new.
LEMMA WaitingKeeps ==
    ASSUME LevelInv, pins' = {} \/ pins' = pins, UNCHANGED <<script, opts, cache>>,
           sent' = sent, phase' # "classifying"
    PROVE  LevelInv'
BY DEF LevelInv

\* A hit sends one level that fits the way it is reached, and stores another; the
\* two need not be the same.
LEMMA HitLevels ==
    ASSUME ScriptsTyped, ConvInv, LevelInv, HitPin
    PROVE  /\ phase' = "sending" /\ sent'.path \in {"hit", "escalated"}
           /\ sent'.level \in Level
           /\ LevelFits(sent'.path, sent'.level, opts, script.routing)
           /\ \E pin \in PinsHere, stored \in Level : pins' = Relevel(pin, stored)
<1>1. Allowed
  BY DEF HitPin, Pinned
<1> DEFINE wanted(pin) == IF Forced # NoLevel THEN Forced ELSE pin.level
           kept(pin) == IF Forced # NoLevel /\ opts.repin THEN Forced ELSE pin.level
           above(pin) == FromNumeric(kept(pin) + 1)
<1>2. PICK pin \in PinsHere :
        \/ /\ pins' = Relevel(pin, kept(pin))
           /\ Send("hit", Clamp(wanted(pin), opts.max, opts.min), request)
        \/ /\ script.escalation /\ above(pin) <= script.routing.globalMax
           /\ pins' = Relevel(pin, above(pin))
           /\ Send("escalated", above(pin), request)
  BY DEF HitPin
<1>3. Forced \in Level \cup {NoLevel} /\ pin.level \in Level
  BY <1>1, ForcedIsLevel DEF PinsHere, LevelInv, LeveledPin
<1>4. wanted(pin) \in Level /\ kept(pin) \in Level /\ (Forced = NoLevel \/ wanted(pin) = Forced)
  BY <1>3
<1>5. above(pin) \in Level
  <2> HIDE DEF kept
  <2> QED
    BY <1>4 DEF FromNumeric, Level
<1> HIDE DEF wanted, kept, above
<1>6. CASE /\ pins' = Relevel(pin, kept(pin))
           /\ Send("hit", Clamp(wanted(pin), opts.max, opts.min), request)
  <2>1. /\ Clamp(wanted(pin), opts.max, opts.min) \in Level
        /\ LevelFits("hit", Clamp(wanted(pin), opts.max, opts.min), opts, script.routing)
    BY <1>1, <1>4, ClampedFits
  <2>2. /\ phase' = "sending" /\ sent'.path = "hit"
        /\ sent'.level = Clamp(wanted(pin), opts.max, opts.min)
    BY <1>6 DEF Send
  <2> QED
    BY <1>4, <1>6, <2>1, <2>2
<1>7. CASE /\ above(pin) <= script.routing.globalMax
           /\ pins' = Relevel(pin, above(pin))
           /\ Send("escalated", above(pin), request)
  <2>1. phase' = "sending" /\ sent'.path = "escalated" /\ sent'.level = above(pin)
    BY <1>7 DEF Send
  <2>2. LevelFits("escalated", above(pin), opts, script.routing)
    BY <1>7 DEF LevelFits
  <2> QED
    BY <1>5, <1>7, <2>1, <2>2
<1> QED
  BY <1>2, <1>6, <1>7

LEMMA HitKeeps == ASSUME ScriptsTyped, ConvInv, LevelInv, HitPin PROVE LevelInv'
<1>1. UNCHANGED <<script, opts, cache>>
  BY DEF HitPin, client
<1>2. PICK pin \in PinsHere, stored \in Level : pins' = Relevel(pin, stored)
  BY HitLevels
<1>3. pin \in pins /\ LeveledPin([pin EXCEPT !.level = stored])
  BY DEF PinsHere, LevelInv, LeveledPin
<1>4. \A p \in pins' : LeveledPin(p)
  BY <1>2, <1>3 DEF LevelInv, Relevel
<1>5. LevelFits(sent.path, sent.level, opts, script.routing)'
  BY <1>1, HitLevels
<1> QED
  BY <1>1, <1>4, <1>5, HitLevels DEF LevelInv

LEMMA RaceKeeps == ASSUME LevelInv, RaceWon \/ PassThrough PROVE LevelInv'
<1>1. UNCHANGED <<script, opts, cache, pins>> /\ phase' = "sending"
      /\ sent'.path \in {"race", "passthrough"}
  BY DEF RaceWon, PassThrough, Send, client, stores
<1>2. LevelFits(sent.path, sent.level, opts, script.routing)'
  BY <1>1 DEF LevelFits
<1> QED
  BY <1>1, <1>2 DEF LevelInv

LEMMA AloneKeeps == ASSUME LevelInv, ClassifyAlone PROVE LevelInv'
<1>1. Allowed /\ ~Pinned
  BY DEF ClassifyAlone, Pinned, Mode
<1>2. UNCHANGED <<script, opts, request, pins, cache, sent>>
  BY DEF ClassifyAlone, client, stores
<1>3. Allowed' /\ ~Pinned'
  BY <1>1, <1>2 DEF Allowed, Pinned, Mode, Stateless, SessionId
<1> QED
  BY <1>2, <1>3 DEF LevelInv

LEMMA UnpinnedKeeps ==
    ASSUME ScriptsTyped, ConvInv, LevelInv, PinForced \/ PinPrefix \/ LookUp
    PROVE  LevelInv'
<1>1. phase = "routing" /\ Pinned /\ Allowed /\ UNCHANGED <<script, opts, cache>>
  BY DEF PinForced, PinPrefix, LookUp, Unpinned, Pinned, client, stores
<1>2. \A entry \in cache' : entry.level \in Level
  BY <1>1 DEF LevelInv
<1>3. CASE PinForced
  <2>1. Forced \in Level
    BY <1>1, <1>3, ForcedIsLevel DEF PinForced
  <2>2. Pin(Forced, "forced", request)
    BY <1>3 DEF PinForced
  <2> QED
    BY <1>1, <1>2, <2>1, <2>2, PinningKeeps
<1>4. CASE PinPrefix
  <2>1. Under(request)
    BY <1>1 DEF ConvInv
  <2>2. PrefixLevel \in Level /\ Forced = NoLevel
    BY <1>4, <2>1, FirstUserIs DEF PinPrefix
  <2>3. \E messages : Pin(PrefixLevel, "prefix", messages)
    BY <1>4 DEF PinPrefix
  <2> QED
    BY <1>1, <1>2, <2>2, <2>3, PinningKeeps
<1>5. CASE LookUp
  <2>1. Forced = NoLevel
    BY <1>5 DEF LookUp
  <2>2. CASE phase' = "classifying" /\ UNCHANGED <<request, pins, sent>>
    <3>1. Forced' = NoLevel /\ Allowed'
      BY <1>1, <2>1 DEF Forced, Allowed, Mode
    <3> QED
      BY <1>1, <2>2, <3>1 DEF LevelInv
  <2>3. CASE \E entry \in cache : Pin(entry.level, entry.reason, request)
    <3>1. PICK entry \in cache : Pin(entry.level, entry.reason, request)
      BY <2>3
    <3>2. entry.level \in Level
      BY DEF LevelInv
    <3> QED
      BY <1>1, <1>2, <2>1, <3>1, <3>2, PinningKeeps
  <2> QED
    BY <1>5, <2>2, <2>3 DEF LookUp, stores
<1> QED
  BY <1>3, <1>4, <1>5

LEMMA AnsweredKeeps ==
    ASSUME ScriptsTyped, ConvInv, LevelInv, ClassifierAnswers
    PROVE  LevelInv'
<1> DEFINE outcome(answer) == Classify(Digest(request, samples', opts.task), script.jsonMode,
                                       answer, script.classify)
<1>1. phase = "classifying" /\ Allowed /\ (Pinned => Forced = NoLevel)
      /\ UNCHANGED <<script, opts>>
  BY DEF ClassifierAnswers, LevelInv, client
<1>2. PICK answer \in script.outcomes :
        \/ /\ Mode = "classify_only"
           /\ Refuse(200)
           /\ UNCHANGED <<pins, cache, sent>>
        \/ /\ Stateless
           /\ Send("stateless",
                   EngineResolve(outcome(answer).level, opts.max, opts.min, script.routing),
                   request)
           /\ UNCHANGED <<bucket, cacheKey, pins, cache>>
        \/ /\ Pinned
           /\ Pin(outcome(answer).level, outcome(answer).reason, request)
           /\ cache' = cache \cup {[digest |-> cacheKey[k], level |-> outcome(answer).level,
                                    reason |-> outcome(answer).reason] : k \in DOMAIN cacheKey}
           /\ UNCHANGED <<bucket, cacheKey>>
  BY DEF ClassifierAnswers
<1> DEFINE level == outcome(answer).level
<1>3. level \in Level
  BY ConfigurationTyped, ClassifiedLevel
<1> HIDE DEF outcome, level
<1>4. CASE Refuse(200) /\ UNCHANGED <<pins, cache, sent>>
  BY <1>1, <1>4, WaitingKeeps DEF Refuse, Reply
<1> DEFINE resolved == EngineResolve(level, opts.max, opts.min, script.routing)
<1>5. CASE Send("stateless", resolved, request) /\ UNCHANGED <<pins, cache>>
  <2>1. Asks(opts) /\ Routing(script.routing) /\ Allows(opts, script.routing)
    BY <1>1, ConfigurationTyped DEF Allowed, Allows
  <2>2. opts.max \in Level \cup {NoLevel} /\ opts.min \in Level \cup {NoLevel}
    BY <2>1, AskedLevels
  <2>3. Capped(opts, script.routing) => resolved <= script.routing.globalMax
    BY <1>3, <2>1, <2>2, ResolvedWithin DEF Capped
  <2> HIDE DEF resolved
  <2>4. LevelFits("stateless", resolved, opts, script.routing)
    BY <2>3 DEF LevelFits
  <2>5. phase' = "sending" /\ sent'.path = "stateless" /\ sent'.level = resolved
    BY <1>5 DEF Send
  <2> QED
    BY <1>1, <1>5, <2>4, <2>5 DEF LevelInv
<1>6. CASE /\ Pinned
           /\ Pin(level, outcome(answer).reason, request)
           /\ cache' = cache \cup {[digest |-> cacheKey[k], level |-> level,
                                    reason |-> outcome(answer).reason] : k \in DOMAIN cacheKey}
  <2>1. \A entry \in cache' : entry.level \in Level
    BY <1>3, <1>6 DEF LevelInv
  <2> QED
    BY <1>1, <1>3, <1>6, <2>1, PinningKeeps
<1> QED
  BY <1>2, <1>4, <1>5, <1>6 DEF level

LEMMA AskLeveled == ASSUME LevelInv, Ask PROVE LevelInv'
<1>1. UNCHANGED <<script, pins, cache>> /\ sent' = NotSent /\ phase' = "arrived"
  BY DEF Ask, stores
<1>2. LevelFits(sent.path, sent.level, opts, script.routing)'
  BY <1>1 DEF LevelFits, NotSent
<1> QED
  BY <1>1, <1>2 DEF LevelInv

LEMMA OthersKeep == ASSUME LevelInv, OtherConversation \/ UNCHANGED vars PROVE LevelInv'
<1>1. UNCHANGED <<script, opts, request, phase, pins, cache, sent>>
  BY DEF OtherConversation, vars, client, stores
<1>2. Allowed' = Allowed /\ Pinned' = Pinned /\ Forced' = Forced
  BY <1>1 DEF Allowed, Pinned, Forced, Mode, Stateless, SessionId
<1> QED
  BY <1>1, <1>2 DEF LevelInv

LEMMA LevelNext == ASSUME ScriptsTyped, ConvInv, LevelInv, [Next]_vars PROVE LevelInv'
<1>1. CASE Screen \/ Judge \/ Prepare \/ RefuseRoute \/ Answer \/ Fail \/ Expire
  <2>1. UNCHANGED <<script, opts, cache, sent>> /\ (pins' = {} \/ pins' = pins)
    BY <1>1 DEF Screen, Judge, Prepare, RefuseRoute, Answer, Fail, Expire, client, stores
  <2>2. phase' # "classifying"
    BY <1>1 DEF Screen, Judge, Rejection, Prepare, RefuseRoute, Answer, Fail, Expire, Refuse, Reply
  <2> QED
    BY <2>1, <2>2, WaitingKeeps
<1> QED
  BY <1>1, AskLeveled, HitKeeps, RaceKeeps, AloneKeeps, UnpinnedKeeps, AnsweredKeeps,
     OthersKeep DEF Next

LEMMA LevelInit == ASSUME Init PROVE LevelInv
BY DEF Init, LevelInv, LevelFits, NotSent

\* LevelAllowed (enforce_route_policy, RoutingEngine.resolve and the clamps of the
\* pinned path): in every conversation a request on a new pin or on a hit that
\* no signal moved is routed within its bounds, and the global ceiling holds for
\* moved, stateless and forced levels.
THEOREM LevelsAreAllowed == ASSUME ScriptsTyped PROVE Spec => []LevelAllowed
<1>1. LevelInv => LevelAllowed
  BY DEF LevelInv, LevelFits, Capped, LevelAllowed, Mode
<1> QED
  BY <1>1, ConvInit, ConvNext, LevelInit, LevelNext, PTL DEF Spec

-----------------------------------------------------------------------------
(* The conversation                                                        *)

\* What the user may have said.
UserTexts == {script.opening} \cup script.followups

\* The sides take turns, and it is the router's while a request is under way.
Dialog ==
    /\ \A i \in DOMAIN history :
          /\ history[i].role = IF i % 2 = 1 THEN "user" ELSE "assistant"
          /\ history[i].role = "user" => history[i].text \in UserTexts
    /\ history # <<>> => history[1].text = script.opening
    /\ (Len(history) % 2 = 1) = (phase # "client")
    /\ phase = "client" => request = <<>>

LEMMA ReplyTurns ==
    ASSUME ConvInv, Dialog, phase # "client", NEW code, NEW answer, Reply(code, answer),
           answer = <<>> \/ \E t \in ClientText : answer = <<Assistant(t)>>,
           UNCHANGED script
    PROVE  Dialog'
<1>1. /\ history \in Seq(Message) /\ Len(history) \in Nat /\ Len(history) % 2 = 1
      /\ Len(history) >= 1
  BY DEF ConvInv, Conversation, Dialog
<1>2. phase' = "client" /\ request' = <<>> /\ UserTexts' = UserTexts
  BY DEF Reply, UserTexts
<1>3. CASE answer = <<>>
  <2>1. history' = SubSeq(history, 1, Len(history) - 1)
    BY <1>3 DEF Reply
  <2>2. /\ Len(history') = Len(history) - 1
        /\ \A i \in DOMAIN history' : i \in DOMAIN history /\ history'[i] = history[i]
    <3> DEFINE n == Len(history) - 1
    <3>1. n \in Nat /\ n <= Len(history) /\ DOMAIN history = 1..Len(history)
      BY <1>1
    <3>2. \A i \in 1..n : i \in DOMAIN history
      BY <1>1, <3>1
    <3> HIDE DEF n
    <3>3. Len(SubSeq(history, 1, n)) = n /\ DOMAIN SubSeq(history, 1, n) = 1..n
          /\ \A i \in 1..n : SubSeq(history, 1, n)[i] = history[i]
      BY <1>1, <3>1, SubSeqProperties
    <3> QED
      BY <2>1, <3>2, <3>3 DEF n
  <2>3. Len(history') % 2 = 0
    BY <1>1, <2>2
  <2>4. history' # <<>> => history'[1].text = script.opening
    <3>1. history' # <<>> => 1 \in DOMAIN history'
      BY <1>1, <2>1
    <3> QED
      BY <1>1, <2>2, <3>1 DEF Dialog
  <2> QED
    BY <1>2, <2>2, <2>3, <2>4 DEF Dialog
<1>4. ASSUME NEW t \in ClientText, answer = <<Assistant(t)>> PROVE Dialog'
  <2>1. history' = history \o <<Assistant(t)>>
    BY <1>4 DEF Reply, Assistant
  <2>2. /\ Len(history') = Len(history) + 1 /\ DOMAIN history' = 1..Len(history')
        /\ \A i \in DOMAIN history : history'[i] = history[i]
        /\ history'[Len(history) + 1] = Assistant(t)
    BY <1>1, <2>1
  <2>3. Len(history') % 2 = 0
    BY <1>1, <2>2
  <2>4. ASSUME NEW i \in DOMAIN history'
        PROVE  /\ history'[i].role = IF i % 2 = 1 THEN "user" ELSE "assistant"
               /\ history'[i].role = "user" => history'[i].text \in UserTexts
    <3>1. CASE i \in DOMAIN history
      BY <2>2, <3>1 DEF Dialog
    <3>2. CASE i = Len(history')
      BY <2>2, <2>3, <3>2 DEF Assistant
    <3> QED
      BY <1>1, <2>2, <3>1, <3>2
  <2>5. history'[1].text = script.opening
    BY <1>1, <2>2 DEF Dialog
  <2> QED
    BY <1>2, <2>3, <2>4, <2>5 DEF Dialog
<1> QED
  BY <1>3, <1>4

LEMMA AskTurns == ASSUME ScriptsTyped, ConvInv, Dialog, Ask PROVE Dialog'
<1>1. history \in Seq(Message) /\ Len(history) \in Nat /\ Len(history) % 2 = 0
  BY DEF ConvInv, Conversation, Dialog, Ask
<1>2. PICK text \in (IF history = <<>> THEN {script.opening} ELSE script.followups) :
        history' = Append(history, User(text))
  BY DEF Ask
<1>3. phase' = "arrived" /\ script' = script /\ UserTexts' = UserTexts
  BY DEF Ask, UserTexts
<1>4. text \in ClientText /\ text \in UserTexts
  <2>1. script \in Scripts
    BY DEF ConvInv
  <2> QED
    BY <1>2, <2>1 DEF ScriptsTyped, TextsOf, UserTexts
<1>5. User(text) \in Message /\ User(text).role = "user" /\ User(text).text = text
  BY <1>4 DEF User, Message
<1>6. /\ Len(history') = Len(history) + 1 /\ DOMAIN history' = 1..Len(history')
      /\ \A i \in DOMAIN history : history'[i] = history[i]
      /\ history'[Len(history) + 1] = User(text)
  BY <1>1, <1>2, <1>5
<1>7. Len(history') % 2 = 1
  BY <1>1, <1>6
<1>8. ASSUME NEW i \in DOMAIN history'
      PROVE  /\ history'[i].role = IF i % 2 = 1 THEN "user" ELSE "assistant"
             /\ history'[i].role = "user" => history'[i].text \in UserTexts
  <2>1. CASE i \in DOMAIN history
    BY <1>6, <2>1 DEF Dialog
  <2>2. CASE i = Len(history')
    BY <1>4, <1>5, <1>6, <1>7, <2>2
  <2> QED
    BY <1>1, <1>6, <2>1, <2>2
<1>9. history'[1].text = script.opening
  <2>1. CASE history = <<>>
    BY <1>2, <1>5, <1>6, <2>1
  <2>2. CASE history # <<>>
    BY <1>1, <1>6, <2>2 DEF Dialog
  <2> QED
    BY <2>1, <2>2
<1> QED
  BY <1>3, <1>7, <1>8, <1>9 DEF Dialog

\* A request ends with a status and, if it was answered, a message.
Ends ==
    \E code \in Statuses : \E answer :
        /\ Reply(code, answer)
        /\ answer = <<>> \/ \E t \in ClientText : answer = <<Assistant(t)>>

\* Or it goes on, and nobody has said anything.
GoesOn ==
    /\ UNCHANGED <<history, status>>
    /\ phase # "sending" /\ phase' \in Phases \ {"client"}
    /\ \/ cacheKey' = cacheKey /\ (phase = "classifying" => phase' = "sending")
       \/ phase' = "classifying"

LEMMA Refusing ==
    ASSUME NEW code \in Statuses, Refuse(code)
    PROVE  Ends
BY DEF Refuse, Ends

LEMMA RouterActs ==
    ASSUME ScriptsTyped, ConvInv,
           \/ Screen \/ Judge \/ Prepare \/ RefuseRoute \/ PassThrough \/ ClassifyAlone
           \/ HitPin \/ RaceWon \/ PinForced \/ PinPrefix \/ LookUp \/ ClassifierAnswers
           \/ Answer \/ Fail
    PROVE  phase # "client" /\ UNCHANGED <<script, turn, opts>> /\ (Ends \/ GoesOn)
<1>1. phase # "client" /\ UNCHANGED <<script, turn, opts>>
  BY DEF Screen, Judge, Prepare, RefuseRoute, PassThrough, ClassifyAlone, HitPin, RaceWon,
         PinForced, PinPrefix, LookUp, ClassifierAnswers, Answer, Fail, Unpinned, client
<1> SUFFICES Ends \/ GoesOn
  BY <1>1
<1>2. script \in Scripts /\ script.opening \in ClientText
  BY DEF ConvInv, ScriptsTyped, TextsOf
<1>3. CASE Screen
  <2> DEFINE code == Admission(Cleaned(request))
  <2>1. code \in {401, 422, 400, 500, Undecided, Passed}
    BY DEF Admission
  <2>2. CASE code \notin {Undecided, Passed} /\ Refuse(code)
    <3>1. code \in Statuses
      BY <2>1, <2>2 DEF Statuses
    <3> HIDE DEF code
    <3> QED
      BY <2>2, <3>1, Refusing
  <2>3. CASE /\ phase' \in {"judging", "admitted"} /\ phase = "arrived"
             /\ UNCHANGED <<status, history, bucket, cacheKey>>
    BY <2>3 DEF GoesOn, Phases
  <2> QED
    BY <1>3, <2>2, <2>3 DEF Screen
<1>4. CASE Judge
  <2>1. {"refusal"} \in SUBSET Marks /\ Sound({"refusal"})
    BY DEF Marks, Sound
  <2>2. Said({"refusal"}) \in ClientText
    BY <1>2, <2>1, SaidText
  <2>3. CASE Reply(200, <<Assistant(Said({"refusal"}))>>)
    <3>1. 200 \in Statuses
      BY DEF Statuses
    <3> QED
      BY <2>2, <2>3, <3>1 DEF Ends
  <2>4. CASE Refuse(400)
    <3>1. 400 \in Statuses
      BY DEF Statuses
    <3> QED
      BY <2>4, <3>1, Refusing
  <2>5. CASE phase' = "admitted" /\ UNCHANGED <<status, history, request, bucket, cacheKey>>
    BY <1>4, <2>5 DEF GoesOn, Phases, Judge
  <2> QED
    BY <1>4, <2>3, <2>4, <2>5 DEF Judge, Rejection
<1>5. CASE Prepare
  <2>1. 500 \in Statuses
    BY DEF Statuses
  <2>2. CASE Refuse(500)
    BY <2>1, <2>2, Refusing
  <2>3. CASE phase' = "routing" /\ UNCHANGED <<status, history, cacheKey>>
    BY <1>5, <2>3 DEF GoesOn, Phases, Prepare
  <2> QED
    BY <1>5, <2>2, <2>3 DEF Prepare
<1>6. CASE RefuseRoute
  <2>1. Policy(opts, script.routing).status \in {200, 400, 422}
    BY DEF Policy
  <2>2. PICK code \in {400, 422} : Refuse(code)
    BY <1>6, <2>1 DEF RefuseRoute
  <2>3. code \in Statuses
    BY DEF Statuses
  <2> QED
    BY <2>2, <2>3, Refusing
<1>7. CASE PassThrough \/ ClassifyAlone \/ HitPin \/ RaceWon \/ PinForced \/ PinPrefix
  BY <1>7 DEF PassThrough, ClassifyAlone, HitPin, RaceWon, PinForced, PinPrefix, Pin, Send,
              Unpinned, GoesOn, Phases, stores
<1>8. CASE LookUp
  BY <1>8 DEF LookUp, Pin, Send, Unpinned, GoesOn, Phases
<1>9. CASE ClassifierAnswers
  <2>1. 200 \in Statuses
    BY DEF Statuses
  <2>2. CASE Refuse(200)
    BY <2>1, <2>2, Refusing
  <2>3. CASE phase' = "sending" /\ UNCHANGED <<status, history, cacheKey>>
    BY <1>9, <2>3 DEF GoesOn, Phases, ClassifierAnswers
  <2> QED
    BY <1>9, <2>2, <2>3 DEF ClassifierAnswers, Pin, Send
<1>10. CASE Answer
  <2>1. PICK marks \in script.answers :
          Reply(200, <<Assistant(Said(CleanOutput(marks, script.guard)))>>)
    BY <1>10 DEF Answer
  <2>2. marks \subseteq Marks /\ Sound(marks)
    BY <1>2 DEF ScriptsTyped
  <2> DEFINE left == CleanOutput(marks, script.guard)
  <2>3. left \subseteq Marks /\ Sound(left)
    BY <2>2 DEF CleanOutput, MaskedOnOutput, Marks, Sensitive, Sound
  <2> HIDE DEF left
  <2>4. Said(left) \in ClientText
    BY <1>2, <2>3, SaidText
  <2>5. 200 \in Statuses
    BY DEF Statuses
  <2> QED
    BY <2>1, <2>4, <2>5 DEF Ends, left
<1>11. CASE Fail
  <2>1. 502 \in Statuses
    BY DEF Statuses
  <2> QED
    BY <1>11, <2>1, Refusing DEF Fail
<1> QED
  BY <1>1, <1>3, <1>4, <1>5, <1>6, <1>7, <1>8, <1>9, <1>10, <1>11

\* Neither the pins that go nor another conversation are part of this one.
LEMMA WorldActs ==
    ASSUME Expire \/ OtherConversation \/ UNCHANGED vars
    PROVE  UNCHANGED <<script, opts, turn, phase, status, history, request, cacheKey, sent,
                       ids>>
BY DEF Expire, OtherConversation, vars, client

LEMMA DialogNext ==
    ASSUME ScriptsTyped, ConvInv, Dialog, [Next]_vars
    PROVE  Dialog'
<1>1. CASE Ask
  BY <1>1, AskTurns
<1>2. CASE Expire \/ OtherConversation \/ UNCHANGED vars
  BY <1>2, WorldActs DEF Dialog, UserTexts
<1>3. CASE phase # "client" /\ UNCHANGED <<script, turn, opts>> /\ (Ends \/ GoesOn)
  <2>1. CASE Ends
    BY <1>3, <2>1, ReplyTurns DEF Ends
  <2>2. CASE GoesOn
    BY <1>3, <2>2 DEF GoesOn, Dialog, UserTexts
  <2> QED
    BY <1>3, <2>1, <2>2
<1> QED
  BY <1>1, <1>2, <1>3, RouterActs DEF Next

-----------------------------------------------------------------------------
(* The stores and the types                                                *)

\* How many system messages the prefix learner keeps.
SamplesTyped == \A s \in Scripts : s.classify.samples \in Nat

SomeSeq(s) == \E S : s \in Seq(S)

\* No session has two pins.
OnePinEach ==
    /\ \A pin \in pins : "id" \in DOMAIN pin
    /\ \A p, q \in pins : p.id = q.id => p = q

SamplesBound == SomeSeq(samples) /\ Len(samples) <= script.classify.samples

SentTyped ==
    /\ sent.path \in Paths /\ sent.level \in Level \cup {NoLevel}
    /\ phase = "sending" => sent.path # "none"

Control ==
    /\ turn \in 0..MaxTurns /\ phase \in Phases /\ status \in Statuses
    /\ cacheKey # <<>> => phase \in {"classifying", "sending"}

TypeInv == OnePinEach /\ SamplesBound /\ SentTyped /\ Control

LEMMA LearnBound ==
    ASSUME NEW messages, NEW seen, NEW task, NEW max \in Nat, SomeSeq(seen), Len(seen) <= max
    PROVE  LET learnt == Learn(messages, seen, task, max)
           IN  SomeSeq(learnt) /\ Len(learnt) <= max
<1> DEFINE system == SystemTexts(messages)
           longer == Append(seen, system)
<1>1. PICK S : seen \in Seq(S)
  BY DEF SomeSeq
<1> DEFINE T == S \cup {system}
<1> HIDE DEF system
<1>2. seen \in Seq(T) /\ Len(seen) \in Nat
  BY <1>1
<1>3. longer \in Seq(T) /\ Len(longer) = Len(seen) + 1
  BY <1>2
<1>4. Tail(longer) \in Seq(T) /\ Len(Tail(longer)) = Len(seen)
  BY <1>3, <1>2
<1> HIDE DEF longer, T
<1>5. Learn(messages, seen, task, max) \in
        {seen} \cup (IF Len(longer) > max THEN {Tail(longer)} ELSE {longer})
  BY DEF Learn, longer, system
<1>6. Len(longer) > max \/ Len(longer) <= max
  BY <1>2, <1>3
<1> QED
  BY <1>2, <1>3, <1>4, <1>5, <1>6 DEF SomeSeq

LEMMA SamplesNext ==
    ASSUME ScriptsTyped, SamplesTyped, ConvInv, SamplesBound, [Next]_vars
    PROVE  SamplesBound'
<1>1. script.classify.samples \in Nat /\ script' = script
  BY RouterActs, WorldActs DEF SamplesTyped, ConvInv, Next, Ask
<1>2. samples' = samples
        \/ \E messages, task : samples' = Learn(messages, samples, task, script.classify.samples)
  BY DEF Next, Ask, Screen, Judge, Prepare, RefuseRoute, PassThrough, ClassifyAlone, HitPin,
         RaceWon, PinForced, PinPrefix, LookUp, ClassifierAnswers, Answer, Fail, Expire,
         OtherConversation, stores, vars
<1> QED
  BY <1>1, <1>2, LearnBound DEF SamplesBound

\* Storing a pin replaces what the session had.
LEMMA PinsNext ==
    ASSUME ScriptsTyped, ConvInv, LevelInv, OnePinEach, [Next]_vars
    PROVE  OnePinEach'
<1>1. CASE HitPin
  <2>2. PICK pin \in PinsHere, kept \in Level :
          pins' = (pins \ {pin}) \cup {[pin EXCEPT !.level = kept]}
    BY <1>1, HitLevels DEF Relevel
  <2> DEFINE new == [pin EXCEPT !.level = kept]
  <2>3. pin \in pins /\ "id" \in DOMAIN pin
    BY DEF PinsHere, OnePinEach
  <2>4. "id" \in DOMAIN new /\ new.id = pin.id
    BY <2>3
  <2> HIDE DEF new
  <2> QED
    BY <2>2, <2>3, <2>4 DEF OnePinEach, new
<1>2. ASSUME NEW l, NEW reason, NEW messages, Pin(l, reason, messages) PROVE OnePinEach'
  <2> DEFINE new == [id |-> SessionId, level |-> Clamp(l, opts.max, opts.min),
                     provisional |-> reason = "UNKNOWN"]
  <2>1. pins' = {pin \in pins : pin.id # SessionId} \cup {new}
    BY <1>2 DEF Pin
  <2>2. "id" \in DOMAIN new /\ new.id = SessionId
    OBVIOUS
  <2> HIDE DEF new
  <2> QED
    BY <2>1, <2>2 DEF OnePinEach
<1>3. CASE pins' = pins \/ pins' = {}
  BY <1>3 DEF OnePinEach
<1>4. \/ HitPin \/ pins' = pins \/ pins' = {}
      \/ \E l, reason, messages : Pin(l, reason, messages)
  BY DEF Next, Ask, Screen, Judge, Prepare, RefuseRoute, PassThrough, ClassifyAlone,
         RaceWon, PinForced, PinPrefix, LookUp, ClassifierAnswers, Answer, Fail, Expire,
         OtherConversation, stores, vars
<1> QED
  BY <1>1, <1>2, <1>3, <1>4

LEMMA PinSends ==
    ASSUME ScriptsTyped, ConvInv, Allowed, NEW l \in Level, NEW reason, NEW messages,
           Forced = NoLevel \/ l = Forced, Pin(l, reason, messages)
    PROVE  SentTyped'
<1>1. Clamp(l, opts.max, opts.min) \in Level
  BY ClampedFits
<1>2. sent'.path = "pinned" /\ sent'.level = Clamp(l, opts.max, opts.min)
  BY DEF Pin, Send
<1> QED
  BY <1>1, <1>2 DEF SentTyped, Paths

LEMMA SentNext ==
    ASSUME ScriptsTyped, ConvInv, LevelInv, SentTyped, [Next]_vars
    PROVE  SentTyped'
<1>1. CASE Ask
  BY <1>1 DEF Ask, NotSent, SentTyped, Paths
<1>2. CASE sent' = sent /\ phase' \notin {"sending"}
  BY <1>2 DEF SentTyped
<1>3. CASE sent' = sent /\ phase' = phase
  BY <1>3 DEF SentTyped
<1>4. CASE Screen \/ Judge \/ Prepare \/ RefuseRoute \/ ClassifyAlone \/ Answer \/ Fail
  <2>1. sent' = sent /\ phase' # "sending"
    BY <1>4 DEF Screen, Judge, Rejection, Prepare, RefuseRoute, ClassifyAlone, Answer, Fail,
                Refuse, Reply
  <2> QED
    BY <1>2, <2>1
<1>5. CASE PassThrough
  BY <1>5 DEF PassThrough, Send, SentTyped, Paths
<1>6. CASE HitPin
  BY <1>6, HitLevels DEF SentTyped, Paths
<1>7. CASE RaceWon
  <2>1. PICK pin \in pins : Send("race", pin.level, request)
    BY <1>7 DEF RaceWon, PinsHere
  <2>2. pin.level \in Level
    BY DEF LevelInv, LeveledPin
  <2> QED
    BY <2>1, <2>2 DEF Send, SentTyped, Paths
<1>8. CASE PinForced
  <2>1. Allowed
    BY <1>8 DEF PinForced, Unpinned, Pinned
  <2>2. Forced \in Level
    BY <1>8, <2>1, ForcedIsLevel DEF PinForced
  <2> QED
    BY <1>8, <2>1, <2>2, PinSends DEF PinForced
<1>9. CASE PinPrefix
  <2>1. Allowed /\ Forced = NoLevel /\ Under(request)
    BY <1>9 DEF PinPrefix, Unpinned, Pinned, ConvInv
  <2>2. PrefixLevel \in Level
    BY <1>9, <2>1, FirstUserIs DEF PinPrefix
  <2>3. \E messages : Pin(PrefixLevel, "prefix", messages)
    BY <1>9 DEF PinPrefix
  <2> QED
    BY <2>1, <2>2, <2>3, PinSends
<1>10. CASE LookUp
  <2>1. Allowed /\ Forced = NoLevel
    BY <1>10 DEF LookUp, Unpinned, Pinned
  <2>2. CASE sent' = sent /\ phase' = "classifying"
    BY <1>2, <2>2
  <2>3. ASSUME NEW entry \in cache, Pin(entry.level, entry.reason, request) PROVE SentTyped'
    <3>1. entry.level \in Level
      BY DEF LevelInv
    <3> QED
      BY <2>1, <2>3, <3>1, PinSends
  <2> QED
    BY <1>10, <2>2, <2>3 DEF LookUp, stores
<1>11. CASE ClassifierAnswers
  <2> DEFINE outcome(answer) == Classify(Digest(request, samples', opts.task), script.jsonMode,
                                         answer, script.classify)
             resolved(answer) == EngineResolve(outcome(answer).level, opts.max, opts.min,
                                               script.routing)
  <2>1. Allowed /\ (Pinned => Forced = NoLevel)
    BY <1>11 DEF ClassifierAnswers, LevelInv
  <2>2. PICK answer \in script.outcomes :
          \/ Refuse(200) /\ UNCHANGED sent
          \/ Send("stateless", resolved(answer), request)
          \/ Pinned /\ Pin(outcome(answer).level, outcome(answer).reason, request)
    BY <1>11 DEF ClassifierAnswers
  <2>3. outcome(answer).level \in Level
    BY ConfigurationTyped, ClassifiedLevel
  <2>4. resolved(answer) \in Level
    <3>1. Asks(opts) /\ Routing(script.routing) /\ Allows(opts, script.routing)
      BY <2>1, ConfigurationTyped DEF Allowed, Allows
    <3> HIDE DEF outcome
    <3> QED
      BY <2>3, <3>1, AskedLevels, ResolvedWithin
  <2> HIDE DEF outcome, resolved
  <2>5. CASE Refuse(200) /\ UNCHANGED sent
    BY <1>2, <2>5 DEF Refuse, Reply
  <2>6. CASE Send("stateless", resolved(answer), request)
    BY <2>4, <2>6 DEF Send, SentTyped, Paths
  <2>7. CASE Pinned /\ Pin(outcome(answer).level, outcome(answer).reason, request)
    BY <2>1, <2>3, <2>7, PinSends
  <2> QED
    BY <2>2, <2>5, <2>6, <2>7
<1>12. CASE Expire \/ OtherConversation \/ UNCHANGED vars
  BY <1>3, <1>12, WorldActs
<1> QED
  BY <1>1, <1>4, <1>5, <1>6, <1>7, <1>8, <1>9, <1>10, <1>11, <1>12 DEF Next

LEMMA ControlNext ==
    ASSUME ScriptsTyped, ConvInv, Control, [Next]_vars
    PROVE  Control'
<1>1. MaxTurns \in Nat
  BY BoundsAssumption
<1>2. CASE Ask
  <2>1. turn' \in 0..MaxTurns
    BY <1>1, <1>2 DEF Ask, Control
  <2>2. cacheKey' = <<>>
    BY <1>2 DEF Ask, Control
  <2> QED
    BY <1>2, <2>1, <2>2 DEF Ask, Control, Phases, Statuses
<1>3. CASE Expire \/ OtherConversation \/ UNCHANGED vars
  BY <1>3, WorldActs DEF Control
<1>4. CASE phase # "client" /\ UNCHANGED <<script, turn, opts>> /\ (Ends \/ GoesOn)
  <2>1. CASE Ends
    BY <1>4, <2>1 DEF Ends, Reply, Control, Phases
  <2>2. CASE GoesOn
    BY <1>4, <2>2 DEF GoesOn, Control
  <2> QED
    BY <1>4, <2>1, <2>2
<1> QED
  BY <1>2, <1>3, <1>4, RouterActs DEF Next

LEMMA TypeInit == ASSUME ScriptsTyped, SamplesTyped, Init PROVE Dialog /\ TypeInv
<1>1. script.classify.samples \in Nat
  BY DEF Init, SamplesTyped
<1>2. SamplesBound
  <2>1. <<>> \in Seq({}) /\ Len(<<>>) = 0
    OBVIOUS
  <2> QED
    BY <1>1, <2>1 DEF Init, SamplesBound, SomeSeq
<1>3. Dialog /\ OnePinEach
  BY DEF Init, Dialog, OnePinEach
<1>4. SentTyped /\ Control
  BY BoundsAssumption DEF Init, SentTyped, Control, NotSent, Paths, Phases, Statuses
<1> QED
  BY <1>2, <1>3, <1>4 DEF TypeInv

\* TypeOK: the sides of a conversation take turns, a request has its messages with
\* the router just while it is there, no session has two pins, the learner keeps
\* to its bound, and what is sent has a level; in conversations of any length.
THEOREM TypesHold == ASSUME ScriptsTyped, SamplesTyped PROVE Spec => []TypeOK
<1>1. ASSUME ConvInv, LevelInv, Dialog, TypeInv PROVE TypeOK
  <2>1. phase # "client" => request # <<>>
    BY <1>1 DEF ConvInv, Under
  <2>2. \A pin \in pins : pin.level \in Level
    BY <1>1 DEF LevelInv, LeveledPin
  <2>3. \A i \in DOMAIN history : history[i].role = IF i % 2 = 1 THEN "user" ELSE "assistant"
    BY <1>1 DEF Dialog
  <2> QED
    BY <1>1, <2>1, <2>2, <2>3 DEF ConvInv, LevelInv, Dialog, TypeInv, OnePinEach, SamplesBound,
       SentTyped, Control, TypeOK
<1>2. ASSUME TypeInv, ConvInv, LevelInv, Dialog, [Next]_vars PROVE TypeInv'
  BY <1>2, PinsNext, SamplesNext, SentNext, ControlNext DEF TypeInv
<1>3. Init => ConvInv /\ LevelInv /\ Dialog /\ TypeInv
  BY ConvInit, LevelInit, TypeInit
<1>4. ConvInv /\ LevelInv /\ Dialog /\ TypeInv /\ [Next]_vars
        => (ConvInv /\ LevelInv /\ Dialog /\ TypeInv)'
  BY <1>2, ConvNext, LevelNext, DialogNext
<1>5. ConvInv /\ LevelInv /\ Dialog /\ TypeInv => TypeOK
  BY <1>1
<1> QED
  BY <1>3, <1>4, <1>5, PTL DEF Spec

-----------------------------------------------------------------------------
(* The head of a conversation and its session                              *)

\* Some set of a family of parts of a finite one is smallest,
LEMMA SmallestSet ==
    ASSUME NEW S, IsFiniteSet(S), NEW Family \in SUBSET SUBSET S, Family # {}
    PROVE  \E u \in Family : \A v \in Family : v \subseteq u => v = u
<1>1. IsWellFoundedOn(StrictSubsetOrdering(S), SUBSET S)
  BY FS_StrictSubsetOrderingWellFounded, FS_FiniteSubsetsOfFinite
<1>2. PICK u \in Family : \A v \in Family : ~ (<<v, u>> \in StrictSubsetOrdering(S))
  <2> HIDE DEF StrictSubsetOrdering
  <2> QED
    BY <1>1, WFMin
<1>3. ASSUME NEW v \in Family, v \subseteq u PROVE v = u
  BY <1>2, <1>3 DEF StrictSubsetOrdering
<1> QED
  BY <1>3

\* and so a set of natural numbers has a least one: the sets of those below them.
LEMMA LeastNumber ==
    ASSUME NEW T \in SUBSET Nat, T # {}
    PROVE  \E i \in T : \A j \in T : i <= j
<1>1. PICK n \in Nat : n \in T
  OBVIOUS
<1>2. PICK S : S = 0..n
  OBVIOUS
<1>3. IsFiniteSet(S)
  BY <1>2, FS_Interval
<1>4. PICK F : F = {0..i : i \in {k \in T : k <= n}}
  OBVIOUS
<1>5. F \in SUBSET SUBSET S /\ F # {}
  <2>1. 0..n \in F
    BY <1>1, <1>4
  <2> QED
    BY <1>2, <1>4, <2>1
<1>6. PICK u \in F : \A v \in F : v \subseteq u => v = u
  BY <1>3, <1>5, SmallestSet
<1>7. PICK i \in T : i <= n /\ u = 0..i
  BY <1>4
<1>8. ASSUME NEW j \in T, j < i PROVE FALSE
  <2>1. 0..j \in F
    BY <1>4, <1>7, <1>8
  <2>2. 0..j \subseteq u
    BY <1>7, <1>8
  <2>3. 0..j = u
    BY <1>6, <2>1, <2>2
  <2>4. i \in 0..i /\ i \notin 0..j
    BY <1>8
  <2> QED
    BY <1>7, <2>3, <2>4
<1> QED
  BY <1>8

\* Where a role speaks first.
First(messages, role) ==
    CHOOSE i \in Spoken(messages, role) : \A j \in Spoken(messages, role) : i <= j

LEMMA FirstSpeaks ==
    ASSUME NEW messages, NEW role, DOMAIN messages \subseteq Nat, Spoken(messages, role) # {}
    PROVE  /\ First(messages, role) \in Spoken(messages, role)
           /\ \A j \in Spoken(messages, role) : First(messages, role) <= j
           /\ FirstText(messages, role) = messages[First(messages, role)].text
<1>1. Spoken(messages, role) \in SUBSET Nat
  BY DEF Spoken
<1> QED
  BY <1>1, LeastNumber DEF First, FirstText

\* Where a role speaks first in messages that were only changed otherwise.
LEMMA AlikeSpeaks ==
    ASSUME NEW r, NEW s, NEW role, DOMAIN r = DOMAIN s,
           \A i \in DOMAIN r : r[i].role = s[i].role /\ r[i].text.size = s[i].text.size
    PROVE  Spoken(r, role) = Spoken(s, role) /\ First(r, role) = First(s, role)
<1>1. Spoken(r, role) = Spoken(s, role)
  BY DEF Spoken
<1> QED
  BY <1>1 DEF First

Clean(text) == [text EXCEPT !.marks = CleanInput(@, script.guard)]
Stamp(d) == [script.system EXCEPT !.stamp = d]

\* The days a system message is stamped with.
StampOf(d) == d \in Int /\ (~script.stamped => d = 0)

SizedText(m) == IsMessage(m) /\ "size" \in DOMAIN m.text

\* A request as the client wrote it.
RawHead(r) ==
    /\ \A i \in DOMAIN r : SizedText(r[i]) /\ (i # 1 => r[i].role # "system")
    /\ \A i \in DOMAIN r : r[i].role = "user" => r[i].text \in UserTexts
    /\ r[2].text = script.opening
    /\ \E d : StampOf(d) /\ r[1].text = Stamp(d)

\* A request once it was cleaned: what its fingerprint is made of.
HeadIs(r) ==
    /\ \A i \in DOMAIN r : SizedText(r[i])
    /\ Spoken(r, "system") = IF script.system.size > 0 THEN {1} ELSE {}
    /\ \E d : StampOf(d) /\ r[1].text = Clean(Stamp(d))
    /\ Spoken(r, "user") # {} => \E t \in FirstSaid : FirstText(r, "user") = Clean(t)

HeadInv ==
    /\ phase = "arrived" => RawHead(request)
    /\ phase \in {"judging", "admitted"} => HeadIs(request)
    /\ phase = "routing" => (Undated => HeadIs(request))

LEMMA MarksKeepSize ==
    ASSUME NEW m, NEW cfg, SizedText(m)
    PROVE  LET n == [m EXCEPT !.text.marks = CleanInput(@, cfg)]
           IN  /\ SizedText(n) /\ n.role = m.role /\ n.text.size = m.text.size
               /\ n.text = [m.text EXCEPT !.marks = CleanInput(@, cfg)]
BY DEF SizedText, IsMessage

LEMMA ValuesKeepSize ==
    ASSUME NEW m, NEW v, SizedText(m)
    PROVE  LET n == [m EXCEPT !.text.values = v]
           IN  SizedText(n) /\ n.role = m.role /\ n.text.size = m.text.size
BY DEF SizedText, IsMessage

LEMMA HeadTexts ==
    ASSUME ScriptsTyped, ConvInv
    PROVE  /\ script.opening \in ClientText /\ script.system \in ClientText
           /\ UserTexts \subseteq ClientText /\ FirstSaid \subseteq ClientText
<1>1. TextsOf(script) \subseteq ClientText
  BY DEF ScriptsTyped, ConvInv
<1> QED
  BY <1>1 DEF TextsOf, UserTexts, FirstSaid

\* The first that the user says is the opening, or the first follow-up with a text.
LEMMA RawFirst ==
    ASSUME ScriptsTyped, ConvInv, NEW r, Under(r), RawHead(r), Spoken(r, "user") # {}
    PROVE  r[First(r, "user")].text \in FirstSaid
<1> DEFINE k == First(r, "user")
<1>1. k \in Spoken(r, "user") /\ \A j \in Spoken(r, "user") : k <= j
  <2>1. DOMAIN r \subseteq Nat
    BY DEF Under
  <2> QED
    BY <2>1, FirstSpeaks
<1> HIDE DEF k
<1>2. k \in DOMAIN r /\ r[k].role = "user" /\ r[k].text.size > 0 /\ r[k].text \in UserTexts
  BY <1>1 DEF Spoken, RawHead
<1>3. k \in Nat \ {0} /\ k # 1
  BY <1>2 DEF Under
<1>4. CASE script.opening.size > 0
  <2>1. 2 \in Spoken(r, "user")
    BY <1>4 DEF Spoken, Under, RawHead
  <2>2. k = 2
    BY <1>1, <1>3, <2>1
  <2> QED
    BY <1>4, <2>2 DEF RawHead, FirstSaid, k
<1>5. CASE ~(script.opening.size > 0)
  BY <1>2, <1>5 DEF UserTexts, FirstSaid, k
<1> QED
  BY <1>4, <1>5

LEMMA CleanedHead ==
    ASSUME ScriptsTyped, ConvInv, Under(request), RawHead(request)
    PROVE  HeadIs(Cleaned(request))
<1> DEFINE r == Cleaned(request)
<1>1. DOMAIN r = DOMAIN request
  BY DEF Cleaned
<1>2. ASSUME NEW i \in DOMAIN request
      PROVE  /\ SizedText(r[i]) /\ r[i].role = request[i].role
             /\ r[i].text.size = request[i].text.size /\ r[i].text = Clean(request[i].text)
  <2>1. r[i] = [request[i] EXCEPT !.text.marks = CleanInput(@, script.guard)]
    BY DEF Cleaned
  <2>2. SizedText(request[i])
    BY DEF RawHead
  <2> QED
    BY <2>1, <2>2, MarksKeepSize DEF Clean
<1> HIDE DEF r
<1>3. \A role : Spoken(r, role) = Spoken(request, role) /\ First(r, role) = First(request, role)
  BY <1>1, <1>2, AlikeSpeaks
<1>4. 1 \in DOMAIN request /\ request[1].role = "system"
  BY DEF Under
<1>5. PICK d : StampOf(d) /\ request[1].text = Stamp(d)
  BY DEF RawHead
<1>6. request[1].text.size = script.system.size
  BY <1>5, HeadTexts DEF Stamp, ClientText
<1>7. Spoken(request, "system") = IF script.system.size > 0 THEN {1} ELSE {}
  BY <1>4, <1>6 DEF Spoken, RawHead
<1>8. r[1].text = Clean(Stamp(d))
  BY <1>2, <1>4, <1>5
<1>9. ASSUME Spoken(r, "user") # {}
      PROVE  \E t \in FirstSaid : FirstText(r, "user") = Clean(t)
  <2>1. Spoken(request, "user") # {}
    BY <1>3, <1>9
  <2>2. request[First(request, "user")].text \in FirstSaid
    BY <2>1, RawFirst
  <2>3. DOMAIN r \subseteq Nat
    BY <1>1 DEF Under
  <2>4. First(r, "user") \in Spoken(r, "user")
        /\ FirstText(r, "user") = r[First(r, "user")].text
    BY <1>9, <2>3, FirstSpeaks
  <2>5. First(r, "user") \in DOMAIN request
    BY <1>1, <2>4 DEF Spoken
  <2> QED
    BY <1>2, <1>3, <2>2, <2>4, <2>5
<1>10. \A i \in DOMAIN r : SizedText(r[i])
  BY <1>1, <1>2
<1> QED
  BY <1>3, <1>5, <1>7, <1>8, <1>9, <1>10 DEF HeadIs, r

LEMMA CleanText ==
    ASSUME NEW t \in ClientText
    PROVE  /\ Clean(t).words = t.words /\ Clean(t).blocks = t.blocks
           /\ Clean(t).size = t.size
BY DEF Clean, ClientText

LEMMA StampText ==
    ASSUME ScriptsTyped, ConvInv, NEW d, StampOf(d)
    PROVE  /\ Stamp(d) \in ClientText /\ Stamp(d).words = script.system.words
           /\ Stamp(d).blocks = script.system.blocks
           /\ [Clean(Stamp(d)) EXCEPT !.stamp = 0] = Clean(Stamp(0))
<1>1. script.system \in ClientText /\ d \in Int
  BY HeadTexts DEF StampOf
<1>2. Stamp(d) \in ClientText
  BY <1>1, StampedText DEF Stamp
<1>3. Stamp(d).words = script.system.words /\ Stamp(d).blocks = script.system.blocks
  BY <1>1 DEF Stamp, ClientText
<1>4. [Clean(Stamp(d)) EXCEPT !.stamp = 0] = Clean(Stamp(0))
  BY <1>1 DEF Clean, Stamp, ClientText
<1> QED
  BY <1>2, <1>3, <1>4

\* Dates are put in place of words, and the head has none.
LEMMA DatedHead ==
    ASSUME ScriptsTyped, ConvInv, Under(request), HeadIs(request), Undated
    PROVE  HeadIs([i \in DOMAIN request |-> Dated(request[i])])
<1> DEFINE r == [i \in DOMAIN request |-> Dated(request[i])]
<1>1. DOMAIN r = DOMAIN request /\ DOMAIN r \subseteq Nat
  BY DEF Under
<1>2. ASSUME NEW i \in DOMAIN request
      PROVE  /\ SizedText(r[i]) /\ r[i].role = request[i].role
             /\ r[i].text.size = request[i].text.size
             /\ ~script.temporal \/ request[i].text.words = <<>> \/ request[i].text.blocks
                  => r[i] = request[i]
  <2>1. SizedText(request[i])
    BY DEF HeadIs
  <2> QED
    BY <2>1, ValuesKeepSize DEF Dated
<1> HIDE DEF r
<1>3. \A role : Spoken(r, role) = Spoken(request, role) /\ First(r, role) = First(request, role)
  BY <1>1, <1>2, AlikeSpeaks
<1>4. PICK d : StampOf(d) /\ request[1].text = Clean(Stamp(d))
  BY DEF HeadIs
<1>5. r[1].text = Clean(Stamp(d))
  <2>1. request[1].text.words = script.system.words
        /\ request[1].text.blocks = script.system.blocks
    BY <1>4, StampText, CleanText
  <2>2. 1 \in DOMAIN request
    BY DEF Under
  <2> QED
    BY <1>2, <1>4, <2>1, <2>2 DEF Undated
<1>6. ASSUME Spoken(r, "user") # {}
      PROVE  \E t \in FirstSaid : FirstText(r, "user") = Clean(t)
  <2> DEFINE k == First(request, "user")
  <2>1. /\ k \in Spoken(request, "user") /\ FirstText(request, "user") = request[k].text
        /\ FirstText(r, "user") = r[k].text
    BY <1>1, <1>3, <1>6, FirstSpeaks
  <2> HIDE DEF k
  <2>2. PICK t \in FirstSaid : request[k].text = Clean(t)
    BY <1>3, <1>6, <2>1 DEF HeadIs
  <2>3. request[k].text.words = t.words /\ request[k].text.blocks = t.blocks
    BY <2>2, HeadTexts, CleanText
  <2>4. k \in DOMAIN request
    BY <2>1 DEF Spoken
  <2>5. r[k] = request[k]
    BY <1>2, <2>3, <2>4 DEF Undated
  <2> QED
    BY <2>1, <2>2, <2>5
<1>7. \A i \in DOMAIN r : SizedText(r[i])
  BY <1>1, <1>2
<1> QED
  BY <1>3, <1>4, <1>5, <1>6, <1>7 DEF HeadIs, r

\* The one session a conversation can be: what the client named, or its head.
TheSession ==
    IF Named THEN ResolveSession(<<>>, script, script.session)
    ELSE [system |-> IF script.system.size > 0 THEN <<Clean(Stamp(0))>> ELSE <<>>,
          user |-> Clean(CHOOSE t \in FirstSaid : TRUE),
          tools |-> script.tools, key |-> KeyIdentity(script.key)]

LEMMA NamedSession ==
    ASSUME NEW r, Named
    PROVE  ResolveSession(r, script, script.session) = TheSession
BY DEF Named, TheSession, ResolveSession

LEMMA HeadSession ==
    ASSUME ScriptsTyped, ConvInv, NEW r, DOMAIN r \subseteq Nat, HeadIs(r), ~Named, SameHead
    PROVE  ResolveSession(r, script, script.session) \in {TheSession, NoSession}
<1>1. CASE ~(script.session.fingerprint /\ Spoken(r, "user") # {})
  BY <1>1 DEF ResolveSession, Named
<1>2. CASE script.session.fingerprint /\ Spoken(r, "user") # {}
  <2>1. ResolveSession(r, script, script.session) = Fingerprint(r, script, script.session)
    BY <1>2 DEF ResolveSession, Named, NoId, InvalidId
  <2>2. FirstText(r, "user") = Clean(CHOOSE t \in FirstSaid : TRUE)
    <3>1. PICK t \in FirstSaid : FirstText(r, "user") = Clean(t)
      BY <1>2 DEF HeadIs
    <3>2. (CHOOSE u \in FirstSaid : TRUE) \in FirstSaid
      BY <3>1
    <3>3. (CHOOSE u \in FirstSaid : TRUE) = t
      BY <3>2 DEF SameHead
    <3> QED
      BY <3>1, <3>3
  <2>3. SystemPart(r, script.session)
          = IF script.system.size > 0 THEN <<Clean(Stamp(0))>> ELSE <<>>
    <3>1. CASE script.system.size > 0
      <4>1. Spoken(r, "system") = {1}
        BY <3>1 DEF HeadIs
      <4>2. FirstText(r, "system") = r[1].text
        BY <4>1, FirstSpeaks
      <4>3. PICK d : StampOf(d) /\ r[1].text = Clean(Stamp(d))
        BY DEF HeadIs
      <4>4. CASE script.session.stripPatterns
        BY <3>1, <4>1, <4>2, <4>3, <4>4, StampText DEF SystemPart
      <4>5. CASE ~script.session.stripPatterns
        <5>1. d = 0
          BY <4>3, <4>5 DEF SameHead, StampOf
        <5> QED
          BY <3>1, <4>1, <4>2, <4>3, <4>5, <5>1 DEF SystemPart
      <4> QED
        BY <4>4, <4>5
    <3>2. CASE ~(script.system.size > 0)
      BY <3>2 DEF HeadIs, SystemPart
    <3> QED
      BY <3>1, <3>2
  <2> QED
    BY <2>1, <2>2, <2>3 DEF Fingerprint, TheSession
<1> QED
  BY <1>1, <1>2

IdsInv ==
    /\ Named \/ (SameHead /\ Undated) => sessions \subseteq {TheSession}
    /\ Named \/ SameHead => buckets \subseteq {TheSession}

LEMMA AskHead ==
    ASSUME ScriptsTyped, ConvInv, Dialog, Ask
    PROVE  RawHead(request)'
<1>1. /\ history \in Seq(Message) /\ Conversation(history) /\ script \in Scripts
      /\ now \in [day : Int, minute : Int] /\ script' = script
  BY DEF ConvInv, Conversation, Ask
<1>2. PICK days \in script.days, o \in script.options,
            text \in (IF history = <<>> THEN {script.opening} ELSE script.followups) :
        /\ now' = [now EXCEPT !.day = @ + days]
        /\ history' = Append(history, User(text))
  BY DEF Ask
<1>3. text \in ClientText /\ now'.day \in Int
  BY <1>1, <1>2 DEF ScriptsTyped, TextsOf
<1>0. PICK d : d = IF script.stamped THEN now'.day ELSE 0
  OBVIOUS
<1>4. StampOf(d) /\ script.system \in ClientText
  BY <1>0, <1>3, HeadTexts DEF StampOf
<1>5. Stamp(d) \in ClientText /\ request' = <<System(Stamp(d))>> \o history'
  BY <1>0, <1>4, StampedText DEF Stamp, Ask, StampOf
<1>6. request' \in Seq(Message) /\ history' \in Seq(Message) /\ history' # <<>>
  BY <1>1, <1>2, <1>3, <1>5, Asking DEF Conversation
<1>7. Dialog'
  BY AskTurns
<1>8. System(Stamp(d)) \in Message /\ System(Stamp(d)).role = "system"
      /\ System(Stamp(d)).text = Stamp(d)
  BY <1>5 DEF System, Message
<1>9. /\ request'[1] = System(Stamp(d)) /\ request'[2] = history'[1]
      /\ \A i \in DOMAIN request' :
            i # 1 => (i - 1) \in DOMAIN history' /\ request'[i] = history'[i - 1]
  BY <1>5, <1>6, <1>8
<1>10. ASSUME NEW i \in DOMAIN request'
       PROVE  /\ SizedText(request'[i]) /\ (i # 1 => request'[i].role # "system")
              /\ request'[i].role = "user" => request'[i].text \in UserTexts'
  <2>1. request'[i] \in Message
    BY <1>6, <1>10
  <2>2. SizedText(request'[i])
    BY <2>1, WrittenMessage DEF SizedText, Message, ClientText
  <2>3. CASE i = 1
    BY <1>8, <1>9, <2>2, <2>3
  <2>4. CASE i # 1
    BY <1>7, <1>9, <1>10, <2>2, <2>4 DEF Dialog
  <2> QED
    BY <2>3, <2>4
<1>11. request'[2].text = script'.opening
  BY <1>1, <1>6, <1>7, <1>9 DEF Dialog
<1>12. StampOf(d)' /\ request'[1].text = Stamp(d)'
  BY <1>1, <1>4, <1>8, <1>9 DEF StampOf, Stamp
<1> QED
  BY <1>10, <1>11, <1>12 DEF RawHead

\* The definitions of the head are about the script and the request only.
LEMMA SameScript ==
    ASSUME script' = script, request' = request
    PROVE  /\ HeadIs(request)' = HeadIs(request) /\ RawHead(request)' = RawHead(request)
           /\ Undated' = Undated
BY DEF HeadIs, RawHead, Undated, FirstSaid, UserTexts, Clean, Stamp, StampOf

LEMMA HeadNext ==
    ASSUME ScriptsTyped, ConvInv, Dialog, HeadInv, [Next]_vars
    PROVE  HeadInv'
<1>1. CASE Ask
  BY <1>1, AskHead DEF HeadInv, Ask
<1>2. CASE Screen
  <2>1. phase = "arrived" /\ Under(request) /\ RawHead(request) /\ script' = script
    BY <1>2 DEF Screen, HeadInv, ConvInv, client
  <2>2. HeadIs(Cleaned(request))
    BY <2>1, CleanedHead
  <2>3. CASE phase' \in {"judging", "admitted"} /\ request' = Cleaned(request)
    <3>1. HeadIs(request)'
      BY <2>1, <2>2, <2>3 DEF HeadIs, FirstSaid, Clean, Stamp, StampOf
    <3> QED
      BY <2>3, <3>1 DEF HeadInv
  <2>4. CASE phase' = "client"
    BY <2>4 DEF HeadInv
  <2> QED
    BY <1>2, <2>3, <2>4 DEF Screen, Refuse, Reply
<1>3. CASE Prepare
  <2> DEFINE r == [i \in DOMAIN request |-> Dated(request[i])]
  <2>1. phase = "admitted" /\ Under(request) /\ HeadIs(request) /\ script' = script
    BY <1>3 DEF Prepare, HeadInv, ConvInv, client
  <2>2. Undated => HeadIs(r)
    BY <2>1, DatedHead
  <2> HIDE DEF r
  <2>3. CASE phase' = "routing" /\ request' = r
    <3>1. (Undated => HeadIs(request))'
      BY <2>1, <2>2, <2>3 DEF HeadIs, Undated, FirstSaid, Clean, Stamp, StampOf
    <3> QED
      BY <2>3, <3>1 DEF HeadInv
  <2>4. CASE phase' = "client"
    BY <2>4 DEF HeadInv
  <2> QED
    BY <1>3, <2>3, <2>4 DEF Prepare, Refuse, Reply, r
<1>4. CASE Judge
  <2>1. CASE phase' = "admitted" /\ UNCHANGED <<script, request>>
    BY <1>4, <2>1, SameScript DEF HeadInv, Judge
  <2>2. CASE phase' = "client"
    BY <2>2 DEF HeadInv
  <2> QED
    BY <1>4, <2>1, <2>2 DEF Judge, Rejection, Refuse, Reply, client
<1>5. CASE \/ RefuseRoute \/ PassThrough \/ ClassifyAlone \/ HitPin \/ RaceWon \/ PinForced
           \/ PinPrefix \/ LookUp \/ ClassifierAnswers \/ Answer \/ Fail
  <2>1. phase' \in {"client", "sending", "classifying"}
    BY <1>5 DEF RefuseRoute, PassThrough, ClassifyAlone, HitPin, RaceWon, PinForced, PinPrefix,
       LookUp, ClassifierAnswers, Answer, Fail, Refuse, Reply, Pin, Send
  <2> QED
    BY <2>1 DEF HeadInv
<1>6. CASE Expire \/ OtherConversation \/ UNCHANGED vars
  BY <1>6, WorldActs, SameScript DEF HeadInv
<1> QED
  BY <1>1, <1>2, <1>3, <1>4, <1>5, <1>6 DEF Next

LEMMA IdsNext ==
    ASSUME ScriptsTyped, ConvInv, HeadInv, IdsInv, [Next]_vars
    PROVE  IdsInv'
<1>1. script' = script
  BY RouterActs, WorldActs DEF Next, Ask
<1>2. TheSession' = TheSession /\ Named' = Named /\ SameHead' = SameHead /\ Undated' = Undated
  BY <1>1 DEF TheSession, Named, SameHead, Undated, FirstSaid, Clean, Stamp
<1>3. CASE UNCHANGED <<sessions, buckets>>
  BY <1>2, <1>3 DEF IdsInv
<1>4. CASE HitPin \/ RaceWon \/ PinForced \/ PinPrefix \/ LookUp
  <2>1. phase = "routing" /\ Pinned /\ sessions' = sessions \cup {SessionId}
        /\ buckets' = buckets /\ DOMAIN request \subseteq Nat
    BY <1>4 DEF HitPin, RaceWon, PinForced, PinPrefix, LookUp, Unpinned, WithId, ConvInv, Under
  <2>2. SessionId # NoSession
    BY <2>1 DEF Pinned, Stateless
  <2>3. Named => SessionId = TheSession
    BY NamedSession DEF SessionId
  <2>4. ~Named /\ SameHead /\ Undated => SessionId = TheSession
    BY <2>1, <2>2, HeadSession DEF HeadInv, SessionId
  <2> QED
    BY <1>2, <2>1, <2>3, <2>4 DEF IdsInv
<1>5. CASE Prepare
  <2> DEFINE key == IF script.privacy THEN ResolveSession(request, script, script.session)
                    ELSE NoSession
  <2>1. phase = "admitted" /\ sessions' = sessions /\ Redact(key)
        /\ DOMAIN request \subseteq Nat /\ HeadIs(request)
    BY <1>5 DEF Prepare, ConvInv, Under, HeadInv
  <2>2. Named \/ SameHead => key \in {TheSession, NoSession}
    BY <2>1, NamedSession, HeadSession
  <2> HIDE DEF key
  <2> QED
    BY <1>2, <2>1, <2>2 DEF IdsInv, Redact
<1>6. CASE \/ Ask \/ Screen \/ Judge \/ RefuseRoute \/ PassThrough \/ ClassifyAlone
           \/ ClassifierAnswers \/ Answer \/ Fail \/ Expire \/ OtherConversation
           \/ UNCHANGED vars
  BY <1>3, <1>6 DEF Ask, Screen, Judge, RefuseRoute, PassThrough, ClassifyAlone,
     ClassifierAnswers, Answer, Fail, Expire, OtherConversation, vars, ids
<1> QED
  BY <1>4, <1>5, <1>6 DEF Next

LEMMA IdsInit == ASSUME Init PROVE HeadInv /\ IdsInv
BY DEF Init, HeadInv, IdsInv

\* SessionStable (_resolve_session, derive_fingerprint): however many turns there
\* are, whatever fails in between and whatever the tools and the answers add, a
\* conversation that is named or keeps its head is one session and one bucket.
THEOREM SessionsAreStable == ASSUME ScriptsTyped PROVE Spec => []SessionStable
<1>1. IdsInv => SessionStable
  BY DEF IdsInv, SessionStable
<1>2. Init => ConvInv /\ Dialog /\ HeadInv /\ IdsInv
  <2>1. Init => Dialog
    BY DEF Init, Dialog
  <2> QED
    BY <2>1, ConvInit, IdsInit
<1>3. ConvInv /\ Dialog /\ HeadInv /\ IdsInv /\ [Next]_vars
        => (ConvInv /\ Dialog /\ HeadInv /\ IdsInv)'
  BY ConvNext, DialogNext, HeadNext, IdsNext
<1> QED
  BY <1>1, <1>2, <1>3, PTL DEF Spec
=============================================================================
