------------------------ MODULE GeminiToClaudeProofs ------------------------
(***************************************************************************)
(* The answers of Gemini's translators are well formed, whatever the number   *)
(* of their blocks.                                                          *)
(***************************************************************************)
EXTENDS GeminiToClaude, TLAPS

-----------------------------------------------------------------------------
\* Before the first chunk the client knows nothing.
Unopened ==
  ~first => client = NewClient /\ type = "none" /\ index = 0 /\ ~content /\ ~sent

\* While the message is under way the block at hand is the only open one, and the
\* index that comes next is fresh.
BlockAtHand ==
  client.stage = "begun"
     => /\ first
        /\ client.open = IF type = "none" THEN {} ELSE {<<index, type>>}
        /\ \A i \in client.used : i < Free

\* Content without an open block is content of a message that has got its final events.
ContentOpen ==
  /\ content /\ client.stage = "begun" => type # "none"
  /\ type # "none" => content

\* Antigravity remembers whether it has sent the final events.
FinalOnce ==
  dialect = "antigravity" /\ ~done => (sent <=> client.stage = "closing")

\* The message is over only after "[DONE]", and then if there was content.
OverWhenDone ==
  /\ client.stage = "over" => done
  /\ done /\ content => client.stage = "over"
  /\ client.stage = "none" => ~first

\* What holds of answers that need no excuse.
Good ==
  /\ ~client.broken
  /\ Unopened /\ BlockAtHand /\ ContentOpen /\ FinalOnce /\ OverWhenDone

IInv == TypeOK /\ (excuses = {} => Good)

-----------------------------------------------------------------------------
(* Types. *)

\* Every event leaves a client a client.
LEMMA EventsType ==
  ASSUME NEW c \in Client, NEW i \in Nat, NEW k \in Kind
  PROVE  /\ MessageStart(c) \in Client /\ BlockStart(c, i, k) \in Client
         /\ BlockDelta(c, i, k) \in Client /\ BlockStop(c, i) \in Client
         /\ MessageDelta(c) \in Client /\ MessageStop(c) \in Client
<1>1. /\ c.stage \in Stage /\ c.open \subseteq Nat \X Kind /\ c.used \subseteq Nat
      /\ c.broken \in BOOLEAN
  BY DEF Client
<1>2. ASSUME NEW s \in Stage, NEW o \in SUBSET (Nat \X Kind), NEW u \in SUBSET Nat,
             NEW b \in BOOLEAN
      PROVE  [stage |-> s, open |-> o, used |-> u, broken |-> b] \in Client
  BY DEF Client
<1> DEFINE rest == {d \in c.open : d[1] # i}
<1>3. /\ {"begun", "closing", "over"} \subseteq Stage /\ rest \in SUBSET (Nat \X Kind)
      /\ c.open \cup {<<i, k>>} \in SUBSET (Nat \X Kind) /\ c.used \cup {i} \in SUBSET Nat
  BY <1>1 DEF Stage
<1>4. MessageStart(c) \in Client
  BY <1>1, <1>3, Zenon DEF MessageStart, Client
<1>5. BlockStart(c, i, k) \in Client
  BY <1>1, <1>3, Zenon DEF BlockStart, Client
<1>6. BlockDelta(c, i, k) \in Client
  BY <1>1, <1>3, Zenon DEF BlockDelta, Client
<1>7. BlockStop(c, i) \in Client
  BY <1>1, <1>3, Zenon DEF BlockStop, Client
<1>8. MessageDelta(c) \in Client
  BY <1>1, <1>3, Zenon DEF MessageDelta, Client
<1>9. MessageStop(c) \in Client
  BY <1>1, <1>3, Zenon DEF MessageStop, Client
<1> QED BY <1>4, <1>5, <1>6, <1>7, <1>8, <1>9

\* The helpers of the translator as well.
LEMMA HelpersType ==
  ASSUME TypeOK
  PROVE  /\ Opened \in Client /\ Free \in Nat
         /\ Closed(Opened) \in Client /\ FinalEvents(Opened) \in Client
         /\ FinalEvents(client) \in Client
<1>1. client \in Client /\ type \in Kind \cup {"none"} /\ index \in Nat
  BY DEF TypeOK
<1>2. Opened \in Client /\ Free \in Nat
  BY <1>1, EventsType DEF Opened, Free, Kind
<1>3. \A c \in Client : Closed(c) \in Client
  BY <1>1, EventsType DEF Closed, Kind
<1>4. \A c \in Client : FinalEvents(c) \in Client
  BY <1>3, EventsType DEF FinalEvents, Kind
<1> QED BY <1>1, <1>2, <1>3, <1>4

\* A block that is started keeps the types.
LEMMA SwitchType ==
  ASSUME TypeOK, NEW k \in Kind, Switch(k)
  PROVE  client' \in Client /\ type' \in Kind /\ index' \in Nat /\ content' \in BOOLEAN
<1>1. Closed(Opened) \in Client /\ Free \in Nat
  BY HelpersType
<1>2. BlockStart(Closed(Opened), Free, k) \in Client
  BY <1>1, EventsType
<1> QED BY <1>1, <1>2, EventsType DEF Switch

\* So does a delta of the block at hand.
LEMMA ContinueType ==
  ASSUME TypeOK, Continue, type \in Kind
  PROVE  client' \in Client /\ content' \in BOOLEAN /\ UNCHANGED <<type, index>>
<1>1. Opened \in Client /\ index \in Nat
  BY HelpersType DEF TypeOK
<1> QED BY <1>1, EventsType DEF Continue

LEMMA TypeStep ==
  ASSUME TypeOK, Next
  PROVE  TypeOK'
<1>1. ASSUME NEW r, r \subseteq {"late", "blank", "unsigned", "cut"}, Excused(r)
      PROVE  excuses' \subseteq {"late", "blank", "unsigned", "cut"}
  BY <1>1 DEF Excused, TypeOK
<1>2. ASSUME Translated, client' \in Client, type' \in Kind \cup {"none"}, index' \in Nat,
             content' \in BOOLEAN, excuses' \subseteq {"late", "blank", "unsigned", "cut"}
      PROVE  TypeOK'
  BY <1>2 DEF Translated, TypeOK
<1>3. /\ Opened \in Client /\ Free \in Nat /\ Closed(Opened) \in Client
      /\ type \in Kind \cup {"none"} /\ index \in Nat /\ content \in BOOLEAN /\ client \in Client
  BY HelpersType DEF TypeOK
<1>4. CASE Thought
  BY <1>1, <1>2, <1>3, <1>4, SwitchType, ContinueType DEF Thought, Kind
<1>5. CASE Signature
  <2>1. client' \in Client
    BY <1>3, <1>5, EventsType DEF Signature, Kind
  <2> QED BY <2>1, <1>1, <1>2, <1>3, <1>5 DEF Signature
<1>6. ASSUME Text
      PROVE  TypeOK'
  BY <1>1, <1>2, <1>3, <1>6, SwitchType, ContinueType DEF Text, Kind
<1>7. CASE BlankText
  <2>1. CASE dialect # "antigravity"
    BY <2>1, <1>6, <1>7 DEF BlankText
  <2>2. CASE dialect = "antigravity" /\ type = "text" /\ ~last
    BY <2>2, <1>1, <1>2, <1>3, <1>7, ContinueType DEF BlankText, Kind
  <2>3. CASE dialect = "antigravity" /\ (last \/ type # "text")
    BY <2>3, <1>1, <1>2, <1>3, <1>7 DEF BlankText
  <2> QED BY <2>1, <2>2, <2>3
<1>8. CASE FunctionCall
  BY <1>1, <1>2, <1>3, <1>8, SwitchType DEF FunctionCall, Kind
<1>9. CASE CallGoesOn
  <2>1. CASE dialect = "gemini" /\ type = "tool"
    <3>1. client' \in Client
      BY <2>1, <1>3, <1>9, EventsType DEF CallGoesOn, Kind
    <3> QED BY <3>1, <2>1, <1>1, <1>2, <1>3, <1>9 DEF CallGoesOn
  <2>2. CASE ~(dialect = "gemini" /\ type = "tool")
    BY <2>2, <1>1, <1>2, <1>3, <1>9, SwitchType DEF CallGoesOn, Kind
  <2> QED BY <2>1, <2>2
<1>10. CASE LastChunk
  BY <1>3, <1>10 DEF LastChunk, TypeOK
<1>11. ASSUME NEW u \in Usage, EndOfChunk(u)
       PROVE  TypeOK'
  <2>1. /\ BlockStop(Opened, index) \in Client
        /\ MessageDelta(BlockStop(Opened, index)) \in Client /\ FinalEvents(Opened) \in Client
    BY <1>3, EventsType, HelpersType DEF Kind
  <2>2. CASE dialect = "antigravity"
    BY <2>1, <2>2, <1>3, <1>11 DEF EndOfChunk, TypeOK
  <2>3. CASE dialect # "antigravity"
    <3>1. CASE last /\ u = "counted" /\ content
      <4>1. excuses' \subseteq {"late", "blank", "unsigned", "cut"}
        BY <3>1, <2>3, <1>1, <1>11 DEF EndOfChunk
      <4> QED BY <4>1, <3>1, <2>1, <2>3, <1>3, <1>11 DEF EndOfChunk, TypeOK
    <3>2. CASE ~(last /\ u = "counted" /\ content)
      BY <3>2, <2>1, <2>3, <1>3, <1>11 DEF EndOfChunk, TypeOK
    <3> QED BY <3>1, <3>2
  <2> QED BY <2>2, <2>3
<1>12. CASE Done
  <2>1. MessageStop(client) \in Client /\ MessageStop(FinalEvents(client)) \in Client
    BY <1>3, EventsType, HelpersType DEF Kind
  <2> QED BY <2>1, <1>3, <1>12 DEF Done, TypeOK
<1> QED BY <1>4, <1>5, <1>6, <1>7, <1>8, <1>9, <1>10, <1>11, <1>12 DEF Next

-----------------------------------------------------------------------------
(* What an event does to the fields. *)

LEMMA EventsEffect ==
  ASSUME NEW c \in Client, NEW i, NEW k
  PROVE  /\ MessageStart(c).stage = "begun" /\ MessageStart(c).open = c.open
         /\ MessageStart(c).used = c.used
         /\ MessageStart(c).broken <=> c.broken \/ c.stage # "none"
         /\ BlockStart(c, i, k).stage = c.stage
         /\ BlockStart(c, i, k).open = c.open \cup {<<i, k>>}
         /\ BlockStart(c, i, k).used = c.used \cup {i}
         /\ BlockStart(c, i, k).broken <=> c.broken \/ c.stage # "begun" \/ i \in c.used
         /\ BlockDelta(c, i, k).stage = c.stage /\ BlockDelta(c, i, k).open = c.open
         /\ BlockDelta(c, i, k).used = c.used
         /\ BlockDelta(c, i, k).broken <=> c.broken \/ c.stage # "begun" \/ <<i, k>> \notin c.open
         /\ BlockStop(c, i).stage = c.stage /\ BlockStop(c, i).open = {b \in c.open : b[1] # i}
         /\ BlockStop(c, i).used = c.used
         /\ BlockStop(c, i).broken
               <=> c.broken \/ c.stage # "begun" \/ \A b \in c.open : b[1] # i
         /\ MessageDelta(c).stage = "closing" /\ MessageDelta(c).open = c.open
         /\ MessageDelta(c).used = c.used
         /\ MessageDelta(c).broken <=> c.broken \/ c.stage # "begun" \/ c.open # {}
         /\ MessageStop(c).stage = "over"
         /\ MessageStop(c).broken <=> c.broken \/ c.stage # "closing"
<1>1. /\ MessageStart(c).stage = "begun" /\ MessageStart(c).open = c.open
      /\ MessageStart(c).used = c.used
      /\ MessageStart(c).broken <=> c.broken \/ c.stage # "none"
  BY Zenon DEF MessageStart, Client
<1>2. /\ BlockStart(c, i, k).stage = c.stage
      /\ BlockStart(c, i, k).open = c.open \cup {<<i, k>>}
      /\ BlockStart(c, i, k).used = c.used \cup {i}
      /\ BlockStart(c, i, k).broken <=> c.broken \/ c.stage # "begun" \/ i \in c.used
  BY Zenon DEF BlockStart, Client
<1>3. /\ BlockDelta(c, i, k).stage = c.stage /\ BlockDelta(c, i, k).open = c.open
      /\ BlockDelta(c, i, k).used = c.used
      /\ BlockDelta(c, i, k).broken <=> c.broken \/ c.stage # "begun" \/ <<i, k>> \notin c.open
  BY Zenon DEF BlockDelta, Client
<1>4. /\ BlockStop(c, i).stage = c.stage /\ BlockStop(c, i).open = {b \in c.open : b[1] # i}
      /\ BlockStop(c, i).used = c.used
      /\ BlockStop(c, i).broken
            <=> c.broken \/ c.stage # "begun" \/ \A b \in c.open : b[1] # i
  BY Zenon DEF BlockStop, Client
<1>5. /\ MessageDelta(c).stage = "closing" /\ MessageDelta(c).open = c.open
      /\ MessageDelta(c).used = c.used
      /\ MessageDelta(c).broken <=> c.broken \/ c.stage # "begun" \/ c.open # {}
  BY Zenon DEF MessageDelta, Client
<1>6. /\ MessageStop(c).stage = "over"
      /\ MessageStop(c).broken <=> c.broken \/ c.stage # "closing"
  BY Zenon DEF MessageStop, Client
<1> QED BY <1>1, <1>2, <1>3, <1>4, <1>5, <1>6, Zenon

-----------------------------------------------------------------------------
(* Answers that need no excuse. *)

\* A chunk that comes before the end finds the message under way.
LEMMA OpenedGood ==
  ASSUME TypeOK, Good, ~Late
  PROVE  /\ Opened.stage = "begun" /\ ~Opened.broken
         /\ Opened.open = IF type = "none" THEN {} ELSE {<<index, type>>}
         /\ \A i \in Opened.used : i < Free
<1>1. client \in Client /\ client.stage \in {"none", "begun"}
  BY DEF TypeOK, Client, Stage, Late
<1>2. CASE first
  BY <1>1, <1>2 DEF Good, BlockAtHand, OverWhenDone, Opened
<1>3. CASE ~first
  <2>1. client.stage = "none" /\ client.open = {} /\ client.used = {} /\ type = "none"
    BY <1>3 DEF Good, Unopened, NewClient
  <2> QED BY <2>1, <1>1, <1>3, EventsEffect DEF Good, Opened
<1> QED BY <1>2, <1>3

\* The block at hand is stopped.
LEMMA ClosedGood ==
  ASSUME TypeOK, Good, ~Late
  PROVE  /\ Closed(Opened).stage = "begun" /\ ~Closed(Opened).broken
         /\ Closed(Opened).open = {} /\ \A i \in Closed(Opened).used : i < Free
<1>1. Opened \in Client
  BY HelpersType
<1>2. CASE type = "none"
  BY <1>2, OpenedGood DEF Closed
<1>3. CASE type # "none"
  <2>1. Opened.open = {<<index, type>>}
    BY <1>3, OpenedGood
  <2>2. {b \in Opened.open : b[1] # index} = {} /\ ~(\A b \in Opened.open : b[1] # index)
    BY <2>1
  <2> QED BY <2>2, <1>1, <1>3, OpenedGood, EventsEffect DEF Closed
<1> QED BY <1>2, <1>3

\* A part that leaves the block at hand open, and no other, keeps the answer good.
LEMMA PartGood ==
  ASSUME TypeOK, Good, ~Late, Translated,
         client'.stage = "begun", ~client'.broken,
         client'.open = IF type' = "none" THEN {} ELSE {<<index', type'>>},
         \A i \in client'.used : i < Free',
         content' <=> type' # "none"
  PROVE  Good'
<1>1. first' /\ ~done /\ ~done' /\ sent' = sent /\ dialect' = dialect
  BY DEF Translated
<1>2. Unopened' /\ BlockAtHand' /\ ContentOpen' /\ OverWhenDone'
  BY <1>1 DEF Unopened, BlockAtHand, ContentOpen, OverWhenDone
<1>3. FinalOnce'
  BY <1>1 DEF Good, FinalOnce, Late
<1> QED BY <1>2, <1>3 DEF Good

LEMMA SwitchGood ==
  ASSUME TypeOK, Good, ~Late, Translated, NEW k \in Kind, Switch(k)
  PROVE  Good'
<1> DEFINE c == Closed(Opened)
           d == BlockStart(c, Free, k)
<1>1. c \in Client /\ Free \in Nat
  BY HelpersType
<1>2. c.stage = "begun" /\ ~c.broken /\ c.open = {} /\ \A i \in c.used : i < Free
  BY ClosedGood
<1>3. Free \notin c.used
  BY <1>1, <1>2
<1>4. d \in Client
  BY <1>1, EventsType
<1>5. d.stage = "begun" /\ ~d.broken /\ d.open = {<<Free, k>>} /\ d.used = c.used \cup {Free}
  <2> HIDE DEF c
  <2>1. /\ d.stage = c.stage /\ d.open = c.open \cup {<<Free, k>>} /\ d.used = c.used \cup {Free}
        /\ d.broken <=> c.broken \/ c.stage # "begun" \/ Free \in c.used
    BY <1>1, Zenon DEF BlockStart, Client
  <2> QED BY <2>1, <1>2, <1>3
<1>6. client' = BlockDelta(d, Free, k) /\ type' = k /\ index' = Free /\ content'
  BY DEF Switch
<1>7. /\ client'.stage = "begun" /\ ~client'.broken /\ client'.open = {<<Free, k>>}
      /\ client'.used = c.used \cup {Free}
  <2> HIDE DEF c, d
  <2>1. /\ client'.stage = d.stage /\ client'.open = d.open /\ client'.used = d.used
        /\ client'.broken <=> d.broken \/ d.stage # "begun" \/ <<Free, k>> \notin d.open
    BY <1>4, <1>6, Zenon DEF BlockDelta, Client
  <2> QED BY <2>1, <1>5
<1>8. Free' = Free + 1 /\ type' # "none"
  BY <1>6 DEF Free, Kind
<1>9. \A i \in client'.used : i < Free'
  <2> SUFFICES ASSUME NEW i \in client'.used
               PROVE  i < Free'
    OBVIOUS
  <2>1. c.used \subseteq Nat
    BY <1>1 DEF Client
  <2> QED BY <2>1, <1>1, <1>2, <1>7, <1>8
<1> QED BY <1>6, <1>7, <1>8, <1>9, PartGood

LEMMA ContinueGood ==
  ASSUME TypeOK, Good, ~Late, Translated, Continue, type \in Kind
  PROVE  Good'
<1>1. Opened \in Client /\ type # "none" /\ Free' = Free
  BY HelpersType DEF Continue, Free, Kind
<1>2. Opened.open = {<<index, type>>}
  BY <1>1, OpenedGood
<1>3. /\ client'.stage = "begun" /\ ~client'.broken /\ client'.open = {<<index, type>>}
      /\ client'.used = Opened.used
  BY <1>1, <1>2, OpenedGood, EventsEffect DEF Continue
<1> QED BY <1>1, <1>3, OpenedGood, PartGood DEF Continue

LEMMA GoodStep ==
  ASSUME TypeOK, excuses = {} => Good, Next, excuses' = {}
  PROVE  Good'
<1>1. excuses = {} /\ Good
  BY DEF Next, Thought, Signature, Text, BlankText, FunctionCall, CallGoesOn, LastChunk,
         EndOfChunk, Done, Excused
<1>2. ASSUME NEW r, Excused(r)
      PROVE  ~Late /\ r = {}
  BY <1>2 DEF Excused
<1>3. CASE Thought
  BY <1>1, <1>2, <1>3, SwitchGood, ContinueGood DEF Thought, Kind
<1>4. CASE Signature
  <2>1. type = "thinking" /\ ~Late
    BY <1>2, <1>4 DEF Signature
  <2>2. Continue
    BY <2>1, <1>4 DEF Signature, Continue
  <2> QED BY <2>1, <2>2, <1>1, <1>4, ContinueGood DEF Signature, Kind
<1>5. ASSUME Text
      PROVE  Good'
  BY <1>1, <1>2, <1>5, SwitchGood, ContinueGood DEF Text, Kind
<1>6. CASE BlankText
  <2>1. CASE dialect # "antigravity"
    BY <2>1, <1>5, <1>6 DEF BlankText
  <2>2. CASE dialect = "antigravity" /\ type = "text" /\ ~last
    BY <2>2, <1>1, <1>2, <1>6, ContinueGood DEF BlankText, Kind
  <2>3. CASE dialect = "antigravity" /\ (last \/ type = "none")
    <3>1. Translated /\ ~Late /\ client' = Opened /\ UNCHANGED <<type, index, content>>
      BY <2>3, <1>2, <1>6 DEF BlankText, Closed, Free
    <3>2. Free' = Free
      BY <3>1 DEF Free
    <3>3. content <=> type # "none"
      <4>1. client.stage \in {"none", "begun"}
        BY <3>1 DEF Late, TypeOK, Client, Stage
      <4> QED BY <4>1, <1>1 DEF Good, ContentOpen, OverWhenDone, Unopened
    <3> QED BY <3>1, <3>2, <3>3, <1>1, OpenedGood, PartGood
  <2>4. CASE dialect = "antigravity" /\ ~last /\ type \notin {"none", "text"}
    BY <2>4, <1>2, <1>6 DEF BlankText
  <2> QED BY <2>1, <2>2, <2>3, <2>4
<1>7. CASE FunctionCall
  BY <1>1, <1>2, <1>7, SwitchGood DEF FunctionCall, Kind
<1>8. CASE CallGoesOn
  <2>1. CASE dialect = "gemini" /\ type = "tool"
    <3>1. ~Late /\ Translated /\ content
      BY <2>1, <1>1, <1>2, <1>8 DEF CallGoesOn, Good, ContentOpen
    <3>2. Continue
      BY <3>1, <2>1, <1>8 DEF CallGoesOn, Continue
    <3> QED BY <3>1, <3>2, <2>1, <1>1, ContinueGood DEF Kind
  <2>2. CASE ~(dialect = "gemini" /\ type = "tool")
    BY <2>2, <1>1, <1>2, <1>8, SwitchGood DEF CallGoesOn, Kind
  <2> QED BY <2>1, <2>2
<1>9. CASE LastChunk
  <2>1. /\ ~done /\ ~done' /\ first' /\ client' = Opened
        /\ UNCHANGED <<dialect, type, index, content, sent>>
    BY <1>9 DEF LastChunk
  <2>2. CASE Late
    <3>1. Opened = client
      BY <2>2, <1>1 DEF Late, Opened, Good, Unopened, NewClient
    <3> QED BY <3>1, <2>1, <2>2, <1>1
            DEF Good, Unopened, BlockAtHand, ContentOpen, FinalOnce, OverWhenDone, Late, Free
  <2>3. CASE ~Late
    <3>1. client'.stage = "begun" /\ ~client'.broken
          /\ client'.open = (IF type = "none" THEN {} ELSE {<<index, type>>})
          /\ \A i \in client'.used : i < Free
      BY <2>1, <2>3, <1>1, OpenedGood
    <3>2. content <=> type # "none"
      BY <2>3, <1>1 DEF Late, TypeOK, Client, Stage, Good, ContentOpen, OverWhenDone, Unopened
    <3>3. ~(dialect = "antigravity" /\ sent)
      BY <2>1, <2>3, <1>1 DEF Late, Good, FinalOnce
    <3> QED BY <3>1, <3>2, <3>3, <2>1
            DEF Good, Unopened, BlockAtHand, ContentOpen, FinalOnce, OverWhenDone, Free
  <2> QED BY <2>2, <2>3
<1>10. ASSUME NEW u \in Usage, EndOfChunk(u)
       PROVE  Good'
  <2>1. ~done /\ ~done' /\ first' /\ UNCHANGED <<dialect, index, content>>
    BY <1>10 DEF EndOfChunk
  <2>2. ASSUME client' = Opened, sent' = sent, type' = type
        PROVE  Good'
    <3>1. CASE Late
      <4>1. Opened = client
        BY <3>1, <1>1 DEF Late, Opened, Good, Unopened, NewClient
      <4> QED BY <4>1, <2>1, <2>2, <3>1, <1>1
              DEF Good, Unopened, BlockAtHand, ContentOpen, FinalOnce, OverWhenDone, Late, Free
    <3>2. CASE ~Late
      <4>1. client'.stage = "begun" /\ ~client'.broken
            /\ client'.open = (IF type = "none" THEN {} ELSE {<<index, type>>})
            /\ \A i \in client'.used : i < Free
        BY <2>1, <2>2, <3>2, <1>1, OpenedGood
      <4>2. content <=> type # "none"
        BY <3>2, <1>1 DEF Late, TypeOK, Client, Stage, Good, ContentOpen, OverWhenDone, Unopened
      <4>3. ~(dialect = "antigravity" /\ sent)
        BY <2>1, <3>2, <1>1 DEF Late, Good, FinalOnce
      <4> QED BY <4>1, <4>2, <4>3, <2>1, <2>2
              DEF Good, Unopened, BlockAtHand, ContentOpen, FinalOnce, OverWhenDone, Free
    <3> QED BY <3>1, <3>2
  <2>3. CASE dialect = "antigravity" /\ client' = FinalEvents(Opened) /\ sent' /\ type' = "none"
             /\ ~sent /\ content
    <3>1. ~Late
      BY <2>1, <2>3, <1>1 DEF Good, FinalOnce, OverWhenDone, Late
    <3>2. Closed(Opened) \in Client
      BY HelpersType
    <3>3. client'.stage = "closing" /\ ~client'.broken
      BY <2>3, <3>1, <3>2, <1>1, ClosedGood, EventsEffect DEF FinalEvents
    <3> QED BY <2>1, <2>3, <3>3
            DEF Good, Unopened, BlockAtHand, ContentOpen, FinalOnce, OverWhenDone
  <2>4. CASE dialect # "antigravity" /\ content /\ Excused({}) /\ UNCHANGED <<sent, type>>
             /\ client' = MessageDelta(BlockStop(Opened, index))
    <3>1. ~Late
      BY <2>4, <1>2
    <3>2. type # "none" /\ BlockStop(Opened, index) = Closed(Opened)
      <4>1. client.stage \in {"none", "begun"}
        BY <3>1 DEF Late, TypeOK, Client, Stage
      <4>2. type # "none"
        BY <4>1, <2>4, <1>1 DEF Good, ContentOpen, OverWhenDone, Unopened
      <4> QED BY <4>2 DEF Closed
    <3>3. Closed(Opened) \in Client
      BY HelpersType
    <3>4. client'.stage = "closing" /\ ~client'.broken
      BY <2>4, <3>1, <3>2, <3>3, <1>1, ClosedGood, EventsEffect
    <3> QED BY <2>1, <2>4, <3>2, <3>4
            DEF Good, Unopened, BlockAtHand, ContentOpen, FinalOnce, OverWhenDone
  <2> QED BY <2>2, <2>3, <2>4, <1>10 DEF EndOfChunk
<1>11. CASE Done
  <2>1. done' /\ UNCHANGED <<dialect, first, index, content>>
    BY <1>11 DEF Done
  <2>2. CASE ~content
    <3>1. UNCHANGED <<client, sent, type>>
      BY <2>2, <1>11 DEF Done
    <3> QED BY <2>1, <2>2, <3>1, <1>1
            DEF Good, Unopened, BlockAtHand, ContentOpen, FinalOnce, OverWhenDone, Free
  <2>3. CASE content
    <3>1. first /\ client.stage \in {"begun", "closing"}
      BY <2>3, <1>1, <1>11 DEF Done, Good, Unopened, OverWhenDone, TypeOK, Client, Stage
    <3>2. Opened = client
      BY <3>1 DEF Opened
    <3>3. client'.stage = "over" /\ ~client'.broken
      <4>1. CASE dialect = "antigravity" /\ ~sent
        <5>1. ~Late
          BY <3>1, <4>1, <1>1, <1>11 DEF Done, Good, FinalOnce, Late
        <5>2. Closed(client) \in Client /\ FinalEvents(client) \in Client
          BY <3>2, HelpersType
        <5>3. FinalEvents(client).stage = "closing" /\ ~FinalEvents(client).broken
          BY <3>2, <5>1, <5>2, <1>1, ClosedGood, EventsEffect DEF FinalEvents
        <5>4. client' = MessageStop(FinalEvents(client))
          BY <4>1, <2>3, <1>11 DEF Done
        <5> QED BY <5>2, <5>3, <5>4, Zenon DEF MessageStop, Client
      <4>2. CASE ~(dialect = "antigravity" /\ ~sent)
        <5>1. client.stage = "closing" /\ client \in Client /\ client' = MessageStop(client)
          BY <3>1, <4>2, <2>3, <1>11 DEF Done, TypeOK
        <5> QED BY <5>1, <1>1, EventsEffect DEF Good
      <4> QED BY <4>1, <4>2
    <3>4. type' # "none" => content'
      BY <2>1, <2>3
    <3> QED BY <2>1, <3>1, <3>3, <3>4
            DEF Good, Unopened, BlockAtHand, ContentOpen, FinalOnce, OverWhenDone
  <2> QED BY <2>2, <2>3
<1> QED BY <1>3, <1>4, <1>5, <1>6, <1>7, <1>8, <1>9, <1>10, <1>11 DEF Next

-----------------------------------------------------------------------------
(* Theorems. *)

LEMMA Inductive ==
  Spec => []IInv
<1>1. Init => IInv
  <2> SUFFICES ASSUME Init
               PROVE  IInv
    OBVIOUS
  <2>1. NewClient \in Client
    BY DEF NewClient, Client, Stage
  <2>2. TypeOK
    BY <2>1 DEF Init, TypeOK
  <2>3. client.stage = "none" /\ ~client.broken
    BY DEF Init, NewClient
  <2>4. Good
    BY <2>3 DEF Init, Good, Unopened, BlockAtHand, ContentOpen, FinalOnce, OverWhenDone
  <2> QED BY <2>2, <2>4 DEF IInv
<1>2. IInv /\ [Next]_vars => IInv'
  <2> SUFFICES ASSUME IInv, [Next]_vars
               PROVE  IInv'
    OBVIOUS
  <2>1. CASE Next
    <3>1. TypeOK'
      BY <2>1, TypeStep DEF IInv
    <3>2. excuses' = {} => Good'
      BY <2>1, GoodStep DEF IInv
    <3> QED BY <3>1, <3>2 DEF IInv
  <2>2. CASE UNCHANGED vars
    BY <2>2 DEF vars, IInv, TypeOK, Good, Unopened, BlockAtHand, ContentOpen, FinalOnce,
                OverWhenDone, Free
  <2> QED BY <2>1, <2>2
<1> QED BY <1>1, <1>2, PTL DEF Spec

\* The state of the translator and of its client has its type.
THEOREM GeminiTypeCorrect ==
  Spec => []TypeOK
<1>1. IInv => TypeOK
  BY DEF IInv
<1> QED BY <1>1, Inductive, PTL

\* Whatever an answer of Gemini, Gemini CLI or Antigravity consists of, and however many
\* blocks it takes, the client can place every event of it, and an answer with content is
\* ended; but for the four things that AnswerWellFormed excepts
\* (ConvertGeminiResponseToClaude, ConvertGeminiCLIResponseToClaude,
\* ConvertAntigravityResponseToClaude, appendFinalEvents).
THEOREM GeminiAnswersAreWellFormed ==
  Spec => []AnswerWellFormed
<1>1. IInv => AnswerWellFormed
  BY DEF IInv, Good, OverWhenDone, AnswerWellFormed
<1> QED BY <1>1, Inductive, PTL

=============================================================================
