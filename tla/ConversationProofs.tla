------------------------- MODULE ConversationProofs -------------------------
(***************************************************************************)
(* Of conversations: that what a client was told is done is only lost to a *)
(* request that was under way, and that conversations stay whole, for any  *)
(* number of requests, messages and failures.  Of the answers in them:     *)
(* what the model may be given, how often it is asked, and that what is    *)
(* replied has been evaluated.  Of the controls a question gets: that they *)
(* fit it, span the frameworks compared and heed the preferred one.        *)
(***************************************************************************)
EXTENDS Conversations, AnswerPipeline, ControlsSearch, SequenceTheorems, FiniteSetTheorems,
        WellFoundedInduction, TLAPS

TypeOK ==
    /\ persistent \in BOOLEAN
    /\ stored \in Sessions \cup {NoSession}
    /\ activity \in [Clients -> {"ask", "message", "rate", "none"}]
    /\ phase \in [Clients -> {"idle", "loaded", "changed"}]
    /\ session \in [Clients -> Sessions]
    /\ added \in [Clients -> SUBSET Nat]
    /\ told \subseteq Nat /\ exposed \subseteq Nat
    /\ stamps \in Nat

\* Time stamps are new when they are made.
Earlier(s) == \A n \in Stamps(s) : n < stamps
StampsAreNew == (stored # NoSession => Earlier(stored)) /\ \A c \in Clients : Earlier(session[c])

\* Who has a copy of the conversation does something with it, and what it adds is in the copy.
CopiesAreHeld ==
    \A c \in Clients : /\ phase[c] = "idle" <=> activity[c] = "none"
                       /\ added[c] \subseteq Stamps(session[c])

\* A copy has all that is told and was not exposed.
CopiesKeepUp ==
    persistent => \A c \in Clients : phase[c] # "idle" => told \ exposed \subseteq Stamps(session[c])

Inv == TypeOK /\ StampsAreNew /\ CopiesAreHeld /\ CopiesKeepUp /\ LostOnlyByOverlap /\ ConversationsAreWhole

(***************************************************************************)
(* What a change does to a session.                                        *)
(***************************************************************************)
\* t is s with a new message, answer or rating numbered n.
Grown(s, t, n) ==
    /\ t \in Sessions
    /\ Stamps(t) = Stamps(s) \cup {n}
    /\ Whole(t)

LEMMA FreshIsWhole == Fresh \in Sessions /\ Stamps(Fresh) = {} /\ Whole(Fresh)
  BY DEF Fresh, Sessions, Stamps, Whole, AnswerStamps, Answers

LEMMA StampsAreNumbers == \A s \in Sessions : Stamps(s) \subseteq Nat
  <1>1. ASSUME NEW s \in Sessions PROVE Stamps(s) \subseteq Nat
    <2>1. ASSUME NEW i \in DOMAIN s.messages PROVE s.messages[i].stamp \in Nat
      <3>1. s.messages \in Seq([role : {"user", "assistant"}, stamp : Nat])
        BY DEF Sessions
      <3>2. i \in 1..Len(s.messages)
        BY <3>1
      <3>3. s.messages[i] \in [role : {"user", "assistant"}, stamp : Nat]
        BY <3>1, <3>2, ElementOfSeq, Zenon
      <3> QED BY <3>3
    <2>2. ASSUME NEW i \in DOMAIN s.ratings PROVE s.ratings[i].stamp \in Nat
      <3>1. s.ratings \in Seq([target : Nat \cup {NoSession}, stamp : Nat])
        BY DEF Sessions
      <3>2. i \in 1..Len(s.ratings)
        BY <3>1
      <3>3. s.ratings[i] \in [target : Nat \cup {NoSession}, stamp : Nat]
        BY <3>1, <3>2, ElementOfSeq, Zenon
      <3> QED BY <3>3
    <2> QED BY <2>1, <2>2 DEF Stamps
  <1> QED BY <1>1

LEMMA RecordIsItsFields ==
    \A s \in Sessions : /\ s = [messages |-> s.messages, ratings |-> s.ratings]
                         /\ \A x : [s EXCEPT !.messages = x] = [messages |-> x, ratings |-> s.ratings]
                         /\ \A y : [s EXCEPT !.ratings = y] = [messages |-> s.messages, ratings |-> y]
  BY DEF Sessions

LEMMA AnswerGrows ==
    ASSUME NEW s \in Sessions, NEW n \in Nat, Whole(s), \A k \in Stamps(s) : k < n
    PROVE  Grown(s, [s EXCEPT !.messages = @ \o <<Message("user", n), Message("assistant", n)>>], n)
  <1> DEFINE pair == <<Message("user", n), Message("assistant", n)>>
             t == [s EXCEPT !.messages = @ \o pair]
  <1>1. pair \in Seq([role : {"user", "assistant"}, stamp : Nat])
    BY DEF Message
  <1>2. t \in Sessions /\ t.messages = s.messages \o pair /\ t.ratings = s.ratings
    <2>1. s.messages \in Seq([role : {"user", "assistant"}, stamp : Nat])
      BY DEF Sessions
    <2>2. s.messages \o pair \in Seq([role : {"user", "assistant"}, stamp : Nat])
      BY <1>1, <2>1
    <2>3. t = [messages |-> s.messages \o pair, ratings |-> s.ratings]
      BY RecordIsItsFields
    <2> QED BY <2>2, <2>3 DEF Sessions
  <1>3. Len(t.messages) = Len(s.messages) + 2 /\ Len(s.messages) \in Nat
    BY <1>2 DEF Sessions
  <1>9. DOMAIN t.messages = 1..(Len(s.messages) + 2) /\ DOMAIN s.messages = 1..Len(s.messages)
    BY <1>2, <1>3 DEF Sessions
  <1>4. \A i \in 1..Len(s.messages) : t.messages[i] = s.messages[i]
    BY <1>2 DEF Sessions
  <1>5. /\ t.messages[Len(s.messages) + 1] = Message("user", n)
        /\ t.messages[Len(s.messages) + 2] = Message("assistant", n)
    BY <1>2 DEF Sessions
  <1>6. Stamps(t) = Stamps(s) \cup {n}
    <2>1. 1..(Len(s.messages) + 2) = 1..Len(s.messages) \cup {Len(s.messages) + 1, Len(s.messages) + 2}
      BY <1>3
    <2>2. t.messages[Len(s.messages) + 1].stamp = n /\ t.messages[Len(s.messages) + 2].stamp = n
      BY <1>5 DEF Message
    <2>3. {t.messages[i].stamp : i \in DOMAIN t.messages} = {s.messages[i].stamp : i \in DOMAIN s.messages} \cup {n}
      <3>1. ASSUME NEW i \in DOMAIN t.messages
            PROVE  t.messages[i].stamp \in {s.messages[j].stamp : j \in DOMAIN s.messages} \cup {n}
        BY <2>1, <2>2, <1>9, <1>4
      <3>2. ASSUME NEW i \in DOMAIN s.messages
            PROVE  s.messages[i].stamp \in {t.messages[j].stamp : j \in DOMAIN t.messages}
        BY <2>1, <1>9, <1>4
      <3>3. n \in {t.messages[j].stamp : j \in DOMAIN t.messages}
        BY <2>1, <2>2, <1>9
      <3> QED BY <3>1, <3>2, <3>3
    <2> QED BY <2>3, <1>2 DEF Stamps
  <1>7. AnswerStamps(s) \subseteq AnswerStamps(t)
    BY <1>3, <1>4, <1>9 DEF AnswerStamps, Answers
  <1>8. Whole(t)
    <2>1. \A i \in DOMAIN t.ratings : t.ratings[i].target # NoSession => t.ratings[i].target \in AnswerStamps(t)
      BY <1>2, <1>7 DEF Whole
    <2>2. ASSUME NEW i \in DOMAIN t.messages, NEW j \in DOMAIN t.messages,
                 t.messages[i].stamp = t.messages[j].stamp, i < j
          PROVE  j = i + 1
      <3>1. i \in 1..(Len(s.messages) + 2) /\ j \in 1..(Len(s.messages) + 2)
        BY <1>2, <1>3 DEF Sessions
      <3>2. CASE j \in 1..Len(s.messages)
        BY <3>1, <3>2, <2>2, <1>4, <1>3 DEF Whole, Sessions
      <3>3. CASE j \notin 1..Len(s.messages) /\ i \in 1..Len(s.messages)
        <4>1. t.messages[j].stamp = n
          BY <3>1, <3>3, <1>3, <1>5 DEF Message
        <4>2. t.messages[i].stamp \in Stamps(s)
          BY <3>3, <1>4, <1>3 DEF Stamps, Sessions
        <4> QED BY <4>1, <4>2, <2>2
      <3>4. CASE i \notin 1..Len(s.messages)
        BY <3>1, <3>4, <2>2, <1>3
      <3> QED BY <3>2, <3>3, <3>4
    <2> QED BY <2>1, <2>2 DEF Whole
  <1> QED BY <1>2, <1>6, <1>8 DEF Grown

LEMMA MessageGrows ==
    ASSUME NEW s \in Sessions, NEW n \in Nat, NEW role \in {"user", "assistant"}, Whole(s), \A k \in Stamps(s) : k < n
    PROVE  Grown(s, [s EXCEPT !.messages = Append(@, Message(role, n))], n)
  <1> DEFINE t == [s EXCEPT !.messages = Append(@, Message(role, n))]
  <1>1. t \in Sessions /\ t.messages = Append(s.messages, Message(role, n)) /\ t.ratings = s.ratings
    <2>1. t = [messages |-> Append(s.messages, Message(role, n)), ratings |-> s.ratings]
      BY RecordIsItsFields
    <2>2. Append(s.messages, Message(role, n)) \in Seq([role : {"user", "assistant"}, stamp : Nat])
      BY DEF Sessions, Message
    <2> QED BY <2>1, <2>2 DEF Sessions
  <1>2. Len(t.messages) = Len(s.messages) + 1 /\ Len(s.messages) \in Nat
    BY <1>1 DEF Sessions
  <1>3. /\ \A i \in 1..Len(s.messages) : t.messages[i] = s.messages[i]
        /\ t.messages[Len(s.messages) + 1] = Message(role, n)
    BY <1>1 DEF Sessions
  <1>4. DOMAIN t.messages = 1..(Len(s.messages) + 1) /\ DOMAIN s.messages = 1..Len(s.messages)
    BY <1>1, <1>2 DEF Sessions
  <1>5. Stamps(t) = Stamps(s) \cup {n}
    <2>1. {t.messages[i].stamp : i \in DOMAIN t.messages} = {s.messages[i].stamp : i \in DOMAIN s.messages} \cup {n}
      BY <1>2, <1>3, <1>4 DEF Message
    <2> QED BY <2>1, <1>1 DEF Stamps
  <1>6. AnswerStamps(s) \subseteq AnswerStamps(t)
    BY <1>2, <1>3, <1>4 DEF AnswerStamps, Answers
  <1>7. Whole(t)
    <2>1. \A i \in DOMAIN t.ratings : t.ratings[i].target # NoSession => t.ratings[i].target \in AnswerStamps(t)
      BY <1>1, <1>6 DEF Whole
    <2>2. ASSUME NEW i \in DOMAIN t.messages, NEW j \in DOMAIN t.messages,
                 t.messages[i].stamp = t.messages[j].stamp, i < j
          PROVE  j = i + 1
      <3>1. i \in 1..Len(s.messages)
        BY <1>2, <1>4, <2>2
      <3>2. CASE j \in 1..Len(s.messages)
        BY <3>1, <3>2, <2>2, <1>3, <1>4 DEF Whole
      <3>3. CASE j \notin 1..Len(s.messages)
        <4>1. t.messages[j].stamp = n
          BY <3>3, <1>2, <1>3, <1>4 DEF Message
        <4>2. t.messages[i].stamp \in Stamps(s)
          BY <3>1, <1>3, <1>4 DEF Stamps
        <4> QED BY <4>1, <4>2, <2>2
      <3> QED BY <3>2, <3>3
    <2> QED BY <2>1, <2>2 DEF Whole
  <1> QED BY <1>1, <1>5, <1>7 DEF Grown

LEMMA RatingGrows ==
    ASSUME NEW s \in Sessions, NEW n \in Nat, NEW target \in Nat \cup {NoSession}, Whole(s),
           target # NoSession => target \in AnswerStamps(s)
    PROVE  Grown(s, [s EXCEPT !.ratings = Append(@, [target |-> target, stamp |-> n])], n)
  <1> DEFINE r == [target |-> target, stamp |-> n]
             t == [s EXCEPT !.ratings = Append(@, r)]
  <1>1. t \in Sessions /\ t.messages = s.messages /\ t.ratings = Append(s.ratings, r)
    <2>1. t = [messages |-> s.messages, ratings |-> Append(s.ratings, r)]
      BY RecordIsItsFields
    <2>2. Append(s.ratings, r) \in Seq([target : Nat \cup {NoSession}, stamp : Nat])
      BY DEF Sessions
    <2> QED BY <2>1, <2>2 DEF Sessions
  <1>2. Len(t.ratings) = Len(s.ratings) + 1 /\ Len(s.ratings) \in Nat
    BY <1>1 DEF Sessions
  <1>3. (\A i \in 1..Len(s.ratings) : t.ratings[i] = s.ratings[i]) /\ t.ratings[Len(s.ratings) + 1] = r
    BY <1>1 DEF Sessions
  <1>4. DOMAIN t.ratings = 1..(Len(s.ratings) + 1) /\ DOMAIN s.ratings = 1..Len(s.ratings)
    BY <1>1, <1>2 DEF Sessions
  <1>5. {t.ratings[i].stamp : i \in DOMAIN t.ratings} = {s.ratings[i].stamp : i \in DOMAIN s.ratings} \cup {n}
    BY <1>2, <1>3, <1>4
  <1>6. Stamps(t) = Stamps(s) \cup {n}
    BY <1>1, <1>5 DEF Stamps
  <1>7. AnswerStamps(t) = AnswerStamps(s)
    BY <1>1 DEF AnswerStamps, Answers
  <1>8. \A i \in DOMAIN t.ratings : t.ratings[i].target # NoSession => t.ratings[i].target \in AnswerStamps(t)
    BY <1>2, <1>3, <1>4, <1>7 DEF Whole
  <1>9. Whole(t)
    BY <1>1, <1>8 DEF Whole
  <1> QED BY <1>1, <1>6, <1>9 DEF Grown

(***************************************************************************)
(* The steps of a request.                                                 *)
(***************************************************************************)
\* What a change of the copy needs and gives, whatever is added.
LEMMA ChangeKeepsInv ==
    ASSUME Inv, NEW c \in Clients, NEW t, phase[c] = "loaded", Grown(session[c], t, stamps), Change(c, t, {stamps})
    PROVE  Inv'
  <1>1. TypeOK'
    BY DEF Inv, TypeOK, Grown, Change
  <1>2. /\ session[c] \in Sessions /\ stamps \in Nat /\ stamps' = stamps + 1
        /\ session'[c] = t /\ \A d \in Clients \ {c} : session'[d] = session[d]
        /\ added'[c] = {stamps} /\ \A d \in Clients \ {c} : added'[d] = added[d]
        /\ phase'[c] = "changed" /\ \A d \in Clients \ {c} : phase'[d] = phase[d]
        /\ Stamps(t) = Stamps(session[c]) \cup {stamps} /\ Whole(t)
    BY DEF Inv, TypeOK, Grown, Change
  <1>3. \A n \in Nat : n < stamps => n < stamps'
    BY <1>2
  <1>4. StampsAreNew'
    <2>1. ASSUME NEW s \in Sessions, Earlier(s) PROVE Earlier(s)'
      BY <1>2, <2>1, StampsAreNumbers DEF Earlier
    <2>2. Earlier(t)'
      BY <1>2, StampsAreNumbers DEF Inv, StampsAreNew, Earlier
    <2>3. stored' = stored /\ (stored # NoSession => stored \in Sessions) /\ \A d \in Clients : session[d] \in Sessions
      BY DEF Change, Inv, TypeOK
    <2> QED BY <2>1, <2>2, <2>3, <1>2 DEF Inv, StampsAreNew, Earlier
  <1>5. CopiesAreHeld'
    BY <1>2 DEF Inv, CopiesAreHeld, Change
  <1>6. CopiesKeepUp'
    BY <1>2 DEF Inv, CopiesKeepUp, Change
  <1>7. LostOnlyByOverlap'
    BY DEF Inv, LostOnlyByOverlap, Change
  <1>8. ConversationsAreWhole'
    BY <1>2 DEF Inv, ConversationsAreWhole, Change
  <1> QED BY <1>1, <1>4, <1>5, <1>6, <1>7, <1>8 DEF Inv

\* A request that replies lets go of its copy and leaves the others alone.
LEMMA FinishKeepsCopies ==
    ASSUME Inv, NEW c \in Clients, Finish(c), exposed \subseteq exposed',
           stored' \in {stored, session[c]},
           persistent => \A d \in Clients \ {c} : phase[d] # "idle" => told' \ exposed' \subseteq told \ exposed,
           told' \subseteq told \cup added[c], exposed' \subseteq exposed \cup added[c]
    PROVE  TypeOK' /\ StampsAreNew' /\ CopiesAreHeld' /\ CopiesKeepUp' /\ ConversationsAreWhole'
  <1>1. /\ session'[c] = Fresh /\ \A d \in Clients \ {c} : session'[d] = session[d]
        /\ added'[c] = {} /\ \A d \in Clients \ {c} : added'[d] = added[d]
        /\ phase'[c] = "idle" /\ \A d \in Clients \ {c} : phase'[d] = phase[d]
        /\ activity'[c] = "none" /\ \A d \in Clients \ {c} : activity'[d] = activity[d]
        /\ persistent' = persistent /\ stamps' = stamps /\ session[c] \in Sessions
    BY DEF Inv, TypeOK, Finish
  <1>2. TypeOK'
    BY <1>1, FreshIsWhole DEF Inv, TypeOK, Finish
  <1>3. StampsAreNew'
    BY <1>1, FreshIsWhole DEF Inv, StampsAreNew, Earlier
  <1>4. CopiesAreHeld'
    BY <1>1 DEF Inv, CopiesAreHeld
  <1>5. CopiesKeepUp'
    BY <1>1 DEF Inv, CopiesKeepUp
  <1>6. ConversationsAreWhole'
    BY <1>1, FreshIsWhole DEF Inv, ConversationsAreWhole
  <1> QED BY <1>2, <1>3, <1>4, <1>5, <1>6

LEMMA LoadKeepsInv ==
    ASSUME Inv, NEW c \in Clients, NEW what \in {"ask", "message", "rate"}, LoadConversation(c, what)
    PROVE  Inv'
  <1> DEFINE s == IF persistent /\ stored # NoSession THEN stored ELSE Fresh
  <1>1. /\ session'[c] = s /\ \A d \in Clients \ {c} : session'[d] = session[d]
        /\ added'[c] = {} /\ \A d \in Clients \ {c} : added'[d] = added[d]
        /\ phase'[c] = "loaded" /\ \A d \in Clients \ {c} : phase'[d] = phase[d]
        /\ activity'[c] = what /\ \A d \in Clients \ {c} : activity'[d] = activity[d]
        /\ s \in Sessions /\ Whole(s)
    BY FreshIsWhole DEF Inv, TypeOK, LoadConversation, ConversationsAreWhole
  <1>2. TypeOK'
    BY <1>1 DEF Inv, TypeOK, LoadConversation
  <1>3. Earlier(s)
    BY FreshIsWhole DEF Inv, StampsAreNew, Earlier
  <1>4. StampsAreNew'
    BY <1>1, <1>3 DEF Inv, StampsAreNew, Earlier, LoadConversation
  <1>5. CopiesAreHeld'
    BY <1>1 DEF Inv, CopiesAreHeld
  <1>6. persistent => told \ exposed \subseteq Stamps(s)
    BY DEF Inv, LostOnlyByOverlap
  <1>7. CopiesKeepUp'
    BY <1>1, <1>6 DEF Inv, CopiesKeepUp, LoadConversation
  <1>8. LostOnlyByOverlap' /\ ConversationsAreWhole'
    BY <1>1 DEF Inv, LostOnlyByOverlap, ConversationsAreWhole, LoadConversation
  <1> QED BY <1>2, <1>4, <1>5, <1>7, <1>8 DEF Inv

LEMMA SaveKeepsInv ==
    ASSUME Inv, NEW c \in Clients, SaveConversation(c)
    PROVE  Inv'
  <1>1. /\ stored' = (IF persistent THEN session[c] ELSE stored) /\ session[c] \in Sessions
        /\ told' = told \cup added[c] /\ added[c] \subseteq Stamps(session[c])
        /\ exposed' = (IF \E d \in Clients \ {c} : phase[d] # "idle" THEN exposed \cup added[c] ELSE exposed)
        /\ phase[c] = "changed" /\ Finish(c)
    BY DEF SaveConversation, Put, Inv, TypeOK, CopiesAreHeld
  <1>2. persistent => \A d \in Clients \ {c} : phase[d] # "idle" => told' \ exposed' \subseteq told \ exposed
    BY <1>1
  <1>3. TypeOK' /\ StampsAreNew' /\ CopiesAreHeld' /\ CopiesKeepUp' /\ ConversationsAreWhole'
    BY <1>1, <1>2, FinishKeepsCopies
  <1>4. LostOnlyByOverlap'
    <2>1. persistent => told \ exposed \subseteq Stamps(session[c])
      BY <1>1 DEF Inv, CopiesKeepUp
    <2>2. session[c] # NoSession
      BY <1>1, ConversationAssumption
    <2> QED BY <1>1, <2>1, <2>2 DEF LostOnlyByOverlap, Finish
  <1> QED BY <1>3, <1>4 DEF Inv

LEMMA FailureKeepsInv ==
    ASSUME Inv, NEW c \in Clients, RequestFails(c)
    PROVE  Inv'
  <1>1. /\ stored' \in {stored, session[c]} /\ session[c] \in Sessions
        /\ (stored' # stored => persistent)
        /\ told' = told /\ exposed \subseteq exposed' /\ exposed' \subseteq exposed \cup added[c]
        /\ phase[c] # "idle" /\ Finish(c)
    BY DEF RequestFails, Put, Inv, TypeOK
  <1>2. TypeOK' /\ StampsAreNew' /\ CopiesAreHeld' /\ CopiesKeepUp' /\ ConversationsAreWhole'
    BY <1>1, FinishKeepsCopies
  <1>3. LostOnlyByOverlap'
    <2>1. persistent => told \ exposed \subseteq Stamps(session[c])
      BY <1>1 DEF Inv, CopiesKeepUp
    <2>2. session[c] # NoSession
      BY <1>1, ConversationAssumption
    <2> QED BY <1>1, <2>1, <2>2 DEF LostOnlyByOverlap, Finish, Inv
  <1> QED BY <1>2, <1>3 DEF Inv

LEMMA RejectKeepsInv ==
    ASSUME Inv, NEW c \in Clients, RejectRating(c)
    PROVE  Inv'
  <1>1. TypeOK' /\ StampsAreNew' /\ CopiesAreHeld' /\ CopiesKeepUp' /\ ConversationsAreWhole'
    BY FinishKeepsCopies DEF RejectRating
  <1>2. LostOnlyByOverlap'
    BY DEF RejectRating, Finish, Inv, LostOnlyByOverlap
  <1> QED BY <1>1, <1>2 DEF Inv

LEMMA NewKeepsInv ==
    ASSUME Inv, NEW c \in Clients, NewConversation(c)
    PROVE  Inv'
  <1>1. stored' = Fresh /\ stored = NoSession /\ persistent
    BY DEF NewConversation
  <1>2. told \ exposed = {}
    BY <1>1 DEF Inv, LostOnlyByOverlap
  <1> QED
    BY <1>1, <1>2, FreshIsWhole
    DEF NewConversation, requestVars, Inv, TypeOK, StampsAreNew, Earlier, CopiesAreHeld, CopiesKeepUp,
        LostOnlyByOverlap, ConversationsAreWhole

LEMMA StutterKeepsInv == Inv /\ UNCHANGED conversationVars => Inv'
  BY DEF conversationVars, requestVars, Inv, TypeOK, StampsAreNew, Earlier, CopiesAreHeld, CopiesKeepUp,
         LostOnlyByOverlap, ConversationsAreWhole

LEMMA StepKeepsInv == Inv /\ [ConversationsNext]_conversationVars => Inv'
  <1> SUFFICES ASSUME Inv, [ConversationsNext]_conversationVars PROVE Inv'
    OBVIOUS
  <1>1. ASSUME NEW c \in Clients, Serve(c) PROVE Inv'
    <2>1. session[c] \in Sessions /\ stamps \in Nat /\ Whole(session[c]) /\ \A k \in Stamps(session[c]) : k < stamps
      BY DEF Inv, TypeOK, ConversationsAreWhole, StampsAreNew, Earlier
    <2>2. CASE NewConversation(c)
      BY <2>2, NewKeepsInv
    <2>3. ASSUME NEW what \in {"ask", "message", "rate"}, LoadConversation(c, what) PROVE Inv'
      BY <2>3, LoadKeepsInv
    <2>4. CASE AddAnswer(c)
      BY <2>1, <2>4, AnswerGrows, ChangeKeepsInv DEF AddAnswer
    <2>5. ASSUME NEW role \in {"user", "assistant"}, AddMessage(c, role) PROVE Inv'
      BY <2>1, <2>5, MessageGrows, ChangeKeepsInv DEF AddMessage
    <2>6. ASSUME NEW target \in 0..MaxMessages \cup {NoSession}, AddRating(c, target) PROVE Inv'
      <3>1. target \in Nat \cup {NoSession}
        BY ConversationAssumption
      <3> QED BY <2>1, <2>6, <3>1, RatingGrows, ChangeKeepsInv DEF AddRating
    <2>7. CASE RejectRating(c)
      BY <2>7, RejectKeepsInv
    <2>8. CASE SaveConversation(c)
      BY <2>8, SaveKeepsInv
    <2>9. CASE RequestFails(c)
      BY <2>9, FailureKeepsInv
    <2> QED BY <1>1, <2>2, <2>3, <2>4, <2>5, <2>6, <2>7, <2>8, <2>9 DEF Serve
  <1> QED BY <1>1, StutterKeepsInv DEF ConversationsNext

LEMMA InitIsInv == ConversationsInit => Inv
  BY FreshIsWhole DEF ConversationsInit, Inv, TypeOK, StampsAreNew, Earlier, CopiesAreHeld, CopiesKeepUp,
                      LostOnlyByOverlap, ConversationsAreWhole

\* What a client was told is done is in the stored conversation, unless it was
\* saved while another request held a copy: for any number of clients, messages
\* and failures (ask.py 497-580, conversations.py).
THEOREM LossNeedsOverlap == ConversationsSpec => []LostOnlyByOverlap
  <1>1. Inv => LostOnlyByOverlap
    BY DEF Inv
  <1> QED BY <1>1, InitIsInv, StepKeepsInv, PTL DEF ConversationsSpec

\* However saves overlap or fail, ratings name answers of their own conversation
\* and answers stand behind their questions, in the store and in every copy.
THEOREM ConversationsStayWhole == ConversationsSpec => []ConversationsAreWhole
  <1>1. Inv => ConversationsAreWhole
    BY DEF Inv
  <1> QED BY <1>1, InitIsInv, StepKeepsInv, PTL DEF ConversationsSpec

(***************************************************************************)
(* AnswerPipeline: what one question may use, cost and return.             *)
(***************************************************************************)

\* Before the context is made up.
Ungrounded == {"asked", "refused", "guard", "retrieve", "rebalance", "controls", "expand", "communities", "scope"}

\* What the context is made of is selected, and nothing else is given but what
\* the conversation and a summary tell of.
SelectionInv ==
    /\ progress \notin {"asked", "refused"} => \A c \in Selected : MayUse(c)
    /\ \A d \in context : MayUse(d.corpus)
    /\ progress \in Ungrounded => context = {} /\ given = {}
    /\ ContextWithinSelection

\* Requests to the validator and for an answer, at the most, when a question is
\* here.
Spent ==
    CASE progress \in {"asked", "guard", "refused"} -> 0
      [] progress = "answer" -> IF repeated THEN 10 ELSE 2
      [] progress = "answerAgain" -> IF repeated THEN 14 ELSE 6
      [] progress = "evaluate" -> 18
      [] progress = "amend" -> IF repeated THEN 28 ELSE 20
      [] progress = "amendAgain" -> IF repeated THEN 32 ELSE 24
      [] progress = "evaluateAgain" -> 36
      [] progress \in {"done", "raised", "replied"} -> 38
      [] OTHER -> 2

\* Before the graph has told of communities.
Early == {"asked", "guard", "retrieve", "rebalance", "controls", "expand"}

\* A community is named before any is told of, and each once.
CallsInv ==
    /\ communities \in [found : Nat, named : Nat, told : Nat] /\ calls \in Nat
    /\ communities.named <= communities.found /\ communities.told <= communities.found
    /\ repeated => progress \in Drafting \cup {"raised", "replied"}
    /\ progress \in Early => communities.named = 0 /\ communities.told = 0
    /\ progress = "communities" => /\ communities.told < communities.found
                                   /\ communities.named < communities.found => communities.told = 0
    /\ calls <= 8 * communities.named + 8 * communities.told + Spent

Evaluated == /\ evaluation.of = answer.draft
             /\ answer.draft = 2 \/ (evaluation.acceptable /\ evaluation.score >= Threshold)

EvaluationInv ==
    /\ progress \notin {"refused", "replied"} => response = NoText
    /\ progress = "refused" => response.text = "refused"
    /\ progress = "blocked" => answer.text = "refusal"
    /\ progress = "outOfScope" => answer.text = "nothingInScope"
    /\ progress = "evaluateAgain" => answer.draft = 2
    /\ progress = "done" => Evaluated
    /\ progress = "replied" /\ response.text \in {"text", "summary"} => response.text = answer.text /\ Evaluated

\* The steps of a question, whatever numbers of requests are looked at.
LEMMA AnswerSteps ==
  ASSUME AnswerNext
  PROVE  \/ RefusePage \/ RefuseInvalid \/ RefuseApi \/ AskPage \/ AskApi \/ AnswerPage \/ AnswerApi
         \/ \E n \in 0..2 : BlockQuestion(n)
         \/ \E n \in 0..2 : AllowQuestion(n)
         \/ \E f \in Finds : Retrieve(f)
         \/ Rebalance
         \/ \E f \in SUBSET Of({"a"}) : SearchControls(f)
         \/ \E f \in SUBSET Of({"a", "b"}), n \in 0..MaxCommunities : ExpandByGraph(f, n)
         \/ \E n \in 0..8 : NameCommunity(n)
         \/ \E n \in 0..8 : TellOfCommunity(n)
         \/ \E known \in SUBSET Corpora : SetScope(known)
         \/ \E n \in 1..4 : ModelAnswers(n)
         \/ \E n \in 1..4, text \in {"text", "summary"} : RetryAnswers(n, text)
         \/ \E n \in 1..4 : ModelIsBlank(n)
         \/ \E n \in 0..4 : BeginAnew(n)
         \/ \E n \in 0..4 : RunRaises(n)
         \/ \E n \in 1..2, ok \in BOOLEAN, score \in {Threshold - 1, Threshold} : Evaluate(n, ok, score)
         \/ \E n \in 1..2, ok \in BOOLEAN, score \in {Threshold - 1, Threshold} : EvaluateAgain(n, ok, score)
<1>1. CASE \E n \in Costs \cap (0..2) : BlockQuestion(n) \/ AllowQuestion(n)
  <2>1. (\E n \in 0..2 : BlockQuestion(n)) \/ (\E n \in 0..2 : AllowQuestion(n))
    BY <1>1
  <2> QED BY <2>1
<1>2. CASE \E n \in Costs \cap (0..8) : NameCommunity(n) \/ TellOfCommunity(n)
  <2>1. (\E n \in 0..8 : NameCommunity(n)) \/ (\E n \in 0..8 : TellOfCommunity(n))
    BY <1>2
  <2> QED BY <2>1
<1>3. CASE \E n \in Costs \cap (1..4) :
             ModelAnswers(n) \/ ModelIsBlank(n) \/ \E text \in {"text", "summary"} : RetryAnswers(n, text)
  <2>1. \/ \E n \in 1..4 : ModelAnswers(n)
        \/ \E n \in 1..4, text \in {"text", "summary"} : RetryAnswers(n, text)
        \/ \E n \in 1..4 : ModelIsBlank(n)
    BY <1>3
  <2> QED BY <2>1
<1>4. CASE \E n \in Costs \cap (0..4) : BeginAnew(n) \/ RunRaises(n)
  <2>1. (\E n \in 0..4 : BeginAnew(n)) \/ (\E n \in 0..4 : RunRaises(n))
    BY <1>4
  <2> QED BY <2>1
<1>5. CASE \E n \in Costs \cap (1..2), ok \in BOOLEAN, score \in {Threshold - 1, Threshold} :
             Evaluate(n, ok, score) \/ EvaluateAgain(n, ok, score)
  <2>1. \/ \E n \in 1..2, ok \in BOOLEAN, score \in {Threshold - 1, Threshold} : Evaluate(n, ok, score)
        \/ \E n \in 1..2, ok \in BOOLEAN, score \in {Threshold - 1, Threshold} : EvaluateAgain(n, ok, score)
    BY <1>5
  <2> QED BY <2>1
<1> QED
  BY <1>1, <1>2, <1>3, <1>4, <1>5 DEF AnswerNext

LEMMA AnswerInitHolds == AnswerInit => SelectionInv /\ CallsInv /\ EvaluationInv
<1> SUFFICES ASSUME AnswerInit PROVE SelectionInv /\ CallsInv /\ EvaluationInv
  OBVIOUS
<1>1. SelectionInv
  BY DEF AnswerInit, AnswerInitWith, SelectionInv, ContextWithinSelection
<1>2. CallsInv
  <2>1. progress = "asked" /\ calls = 0 /\ repeated = FALSE /\ communities = [found |-> 0, named |-> 0, told |-> 0]
    BY DEF AnswerInit, AnswerInitWith, NoCommunities
  <2>2. Spent = 0 /\ communities.found = 0 /\ communities.named = 0 /\ communities.told = 0
    BY <2>1 DEF Spent
  <2>3. communities \in [found : Nat, named : Nat, told : Nat]
    BY <2>1
  <2> QED BY <2>1, <2>2, <2>3 DEF CallsInv
<1>3. EvaluationInv
  BY DEF AnswerInit, AnswerInitWith, EvaluationInv
<1> QED
  BY <1>1, <1>2, <1>3

(***************************************************************************)
(* The selection.                                                          *)
(***************************************************************************)
LEMMA EndpointsSelect ==
  ASSUME SelectionInv, AskPage \/ AskApi
  PROVE  SelectionInv'
<1>1. PICK include, k, earlier : /\ Run(include, k, earlier)
                       /\ \/ include = NamedOrAll /\ asked.route = "page"
                          \/ include = ApiInclude
  BY DEF AskPage, AskApi
<1>2. /\ question'.include = include /\ question'.exclude = Supported(asked.exclude)
      /\ UNCHANGED <<asked, context, given, summary>>
  BY <1>1 DEF Run, modelState
<1>3. NoFilter \notin SUBSET Corpora
  BY AnswerAssumption DEF Corpora
<1>4. ASSUME NEW c \in Selected' PROVE MayUse(c)
  <2>1. /\ c \notin Supported(asked.exclude)
        /\ c \in IF include = NoFilter THEN Corpora ELSE include
    BY <1>2 DEF Selected
  <2>2. include = NoFilter \/ include \subseteq Corpora
    BY <1>1 DEF NamedOrAll, ApiInclude, Supported
  <2>3. c \in Corpora /\ c \notin asked.exclude
    BY <2>1, <2>2 DEF Supported
  <2>4. ASSUME asked.include # NoFilter, Supported(asked.include) # {} PROVE c \in asked.include
    <3>1. asked.include # {} /\ include = Supported(asked.include)
      BY <1>1, <2>4 DEF NamedOrAll, ApiInclude, Supported
    <3> QED
      BY <1>3, <2>1, <3>1 DEF Supported
  <2>5. ASSUME asked.route = "api", asked.include = {} PROVE FALSE
    <3>1. include = {}
      BY <1>1, <1>3, <2>5 DEF ApiInclude
    <3> QED
      BY <1>3, <2>1, <3>1
  <2> QED
    BY <2>3, <2>4, <2>5 DEF MayUse
<1>5. \A c : MayUse(c)' = MayUse(c)
  BY <1>2 DEF MayUse, Supported
<1>6. context' = {} /\ given' = {}
  BY <1>1, <1>2 DEF Run, SelectionInv, Ungrounded
<1> QED
  BY <1>2, <1>4, <1>5, <1>6 DEF SelectionInv, ContextWithinSelection

LEMMA SelectionKept == SelectionInv /\ [AnswerNext]_answerVars => SelectionInv'
<1> SUFFICES ASSUME SelectionInv, [AnswerNext]_answerVars PROVE SelectionInv'
  OBVIOUS
<1>1. CASE AskPage \/ AskApi
  BY <1>1, EndpointsSelect
<1>2. ASSUME UNCHANGED <<asked, question>>, progress = "asked" => progress' \in {"asked", "refused"}, progress = "refused" => progress' = "refused",
             \/ context' = context
             \/ /\ progress = "scope" /\ given' = given
                /\ \A d \in context' : d.corpus \in Selected,
             progress' \in Ungrounded => progress \in Ungrounded /\ context' = context /\ given' = given,
             given' \subseteq given \cup Messages, summary \subseteq summary'
      PROVE SelectionInv'
  <2>1. \A c : MayUse(c)' = MayUse(c)
    BY <1>2 DEF MayUse, Supported
  <2>2. Selected' = Selected
    BY <1>2 DEF Selected
  <2>3. ASSUME NEW d \in context' PROVE MayUse(d.corpus)
    <3>1. CASE context' = context
      BY <2>3, <3>1 DEF SelectionInv
    <3>2. CASE progress = "scope" /\ \A e \in context' : e.corpus \in Selected
      BY <2>3, <3>2 DEF SelectionInv
    <3> QED
      BY <1>2, <3>1, <3>2
  <2>4. ASSUME NEW d \in given'
        PROVE  d \in context' \/ d \in summary' \/ d \in question.earlier
    <3>1. CASE context' = context
      BY <1>2, <2>4, <3>1 DEF Messages, Judged, SelectionInv, ContextWithinSelection
    <3>2. CASE progress = "scope" /\ given' = given
      BY <2>4, <3>2 DEF SelectionInv, Ungrounded
    <3> QED
      BY <1>2, <3>1, <3>2
  <2>5. ContextWithinSelection'
    BY <1>2, <2>1, <2>3, <2>4 DEF ContextWithinSelection
  <2> QED
    BY <1>2, <2>1, <2>2, <2>3, <2>5 DEF SelectionInv
<1>3. CASE UNCHANGED answerVars
  BY <1>2, <1>3 DEF answerVars, requestState, modelState
<1>4. CASE RefusePage \/ RefuseInvalid \/ RefuseApi
  BY <1>2, <1>4 DEF RefusePage, RefuseInvalid, RefuseApi, Refuse, modelState, Ungrounded
<1>5. CASE AnswerPage \/ AnswerApi
  BY <1>2, <1>5 DEF AnswerPage, AnswerApi, Respond, modelState, Finished, Ungrounded
<1>6. CASE \E n : BlockQuestion(n) \/ AllowQuestion(n)
  BY <1>2, <1>6 DEF BlockQuestion, AllowQuestion, Validate, requestState, Ungrounded
<1>7. CASE Rebalance \/ \E f : Retrieve(f) \/ SearchControls(f)
  BY <1>2, <1>7 DEF Rebalance, Retrieve, SearchControls, requestState, modelState, Ungrounded
<1>8. CASE \E f, n : ExpandByGraph(f, n)
  BY <1>2, <1>8 DEF ExpandByGraph, requestState, modelState, Ungrounded
<1>9. CASE \E n : NameCommunity(n) \/ TellOfCommunity(n)
  BY <1>2, <1>9 DEF NameCommunity, TellOfCommunity, AskOfCommunity, requestState, Ungrounded
<1>10. CASE \E known : SetScope(known)
  BY <1>2, <1>10 DEF SetScope, InScope, ContextOf, requestState, modelState, Ungrounded
<1>11. CASE \E n : ModelAnswers(n) \/ \E text : RetryAnswers(n, text)
  BY <1>2, <1>11 DEF ModelAnswers, RetryAnswers, Drafted, Completion, requestState, Ungrounded
<1>12. CASE \E n : ModelIsBlank(n) \/ BeginAnew(n)
  BY <1>2, <1>12 DEF ModelIsBlank, BeginAnew, NoDraftYet, Completion, requestState, Ungrounded, Drafting
<1>13. CASE \E n, ok, score : Evaluate(n, ok, score) \/ EvaluateAgain(n, ok, score)
  BY <1>2, <1>13 DEF Evaluate, EvaluateAgain, Verdict, Completion, Messages, requestState, Ungrounded
<1>14. CASE \E n : RunRaises(n)
  BY <1>2, <1>14 DEF RunRaises, Completion, Messages, Drafting, requestState, Ungrounded
<1> QED
  BY <1>1, <1>3, <1>4, <1>5, <1>6, <1>7, <1>8, <1>9, <1>10, <1>11, <1>12, <1>13, <1>14, AnswerSteps

(***************************************************************************)
(* The requests to the model.                                              *)
(***************************************************************************)

\* A step that asks nothing of the model for a community and n of it for an answer.
LEMMA AnswerCalls ==
  ASSUME CallsInv, NEW n \in 0..4, calls' = calls + n, UNCHANGED communities,
         Spent + n <= Spent', progress' # "communities",
         progress' \in Early => progress \in Early,
         repeated' => progress' \in Drafting \cup {"raised", "replied"}
  PROVE  CallsInv'
<1>1. Spent \in Nat /\ Spent' \in Nat
  BY DEF Spent
<1>2. calls' \in Nat /\ calls' <= 8 * communities.named + 8 * communities.told + Spent'
  BY <1>1 DEF CallsInv
<1> QED
  BY <1>1, <1>2 DEF CallsInv, Spent

\* A step that asks nothing of it.
LEMMA QuietCalls ==
  ASSUME CallsInv, UNCHANGED <<calls, communities, repeated>>,
         Spent <= Spent', progress' = "communities" => progress = "communities",
         progress' \in Early => progress \in Early,
         repeated => progress' \in Drafting \cup {"raised", "replied"}
  PROVE  CallsInv'
<1>1. Spent \in Nat /\ Spent' \in Nat
  BY DEF Spent
<1>2. calls' <= 8 * communities.named + 8 * communities.told + Spent'
  BY <1>1 DEF CallsInv
<1> QED
  BY <1>1, <1>2 DEF CallsInv, Spent

LEMMA CommunityCalls ==
  ASSUME CallsInv, NEW n \in 0..8, NameCommunity(n) \/ TellOfCommunity(n)
  PROVE  CallsInv'
<1>1. /\ progress = "communities" /\ calls' = calls + n /\ Spent = 2
      /\ progress' \in {"communities", "scope"} /\ Spent' = 2
      /\ ~repeated /\ ~repeated' /\ progress' \notin Early
      /\ communities'.told = communities.found <=> progress' = "scope"
  <2>1. /\ progress = "communities" /\ calls' = calls + n /\ UNCHANGED repeated
        /\ progress' = IF communities'.told = communities.found THEN "scope" ELSE progress
    BY DEF NameCommunity, TellOfCommunity, AskOfCommunity
  <2>2. ~repeated
    BY <2>1 DEF CallsInv, Drafting
  <2> QED BY <2>1, <2>2 DEF Spent, Early
<1>2. CASE NameCommunity(n)
  <2>1. communities' = [communities EXCEPT !.named = @ + 1] /\ communities.named < communities.found
    BY <1>2 DEF NameCommunity, AskOfCommunity
  <2>2. /\ communities' \in [found : Nat, named : Nat, told : Nat] /\ communities'.named = communities.named + 1
        /\ communities'.told = communities.told /\ communities'.found = communities.found
    BY <2>1 DEF CallsInv
  <2>3. communities.told = 0 /\ communities.named \in Nat /\ communities.told \in Nat /\ communities.found \in Nat
    BY <1>1, <2>1 DEF CallsInv
  <2>4. calls' \in Nat /\ calls' <= 8 * communities'.named + 8 * communities'.told + Spent'
    BY <1>1, <2>2, <2>3 DEF CallsInv
  <2>5. progress' = "communities" => communities'.told < communities'.found
    BY <1>1, <2>1, <2>2, <2>3
  <2> QED
    BY <1>1, <2>1, <2>2, <2>3, <2>4, <2>5 DEF CallsInv
<1>3. CASE TellOfCommunity(n)
  <2>1. communities' = [communities EXCEPT !.told = @ + 1] /\ communities.named = communities.found
    BY <1>3 DEF TellOfCommunity, AskOfCommunity
  <2>2. /\ communities' \in [found : Nat, named : Nat, told : Nat] /\ communities'.told = communities.told + 1
        /\ communities'.named = communities.named /\ communities'.found = communities.found
    BY <2>1 DEF CallsInv
  <2>3. communities.told < communities.found /\ communities.told \in Nat /\ communities.named \in Nat /\ communities.found \in Nat
    BY <1>1 DEF CallsInv
  <2>4. calls' \in Nat /\ calls' <= 8 * communities'.named + 8 * communities'.told + Spent'
    BY <1>1, <2>2, <2>3 DEF CallsInv
  <2>5. progress' = "communities" => communities'.told < communities'.found
    BY <1>1, <2>1, <2>2, <2>3
  <2> QED
    BY <1>1, <2>1, <2>2, <2>3, <2>4, <2>5 DEF CallsInv
<1> QED
  BY <1>2, <1>3

LEMMA ExpandCalls ==
  ASSUME CallsInv, NEW f, NEW n \in 0..MaxCommunities, ExpandByGraph(f, n)
  PROVE  CallsInv'
<1>1. /\ progress = "expand" /\ UNCHANGED <<calls, repeated>>
      /\ communities' = [NoCommunities EXCEPT !.found = n]
      /\ progress' = IF n > 0 THEN "communities" ELSE "scope"
  BY DEF ExpandByGraph, modelState
<1>2. ~repeated /\ communities.named = 0 /\ communities.told = 0 /\ calls \in Nat
  BY <1>1 DEF CallsInv, Early, Drafting
<1>3. n \in Nat
  BY AnswerAssumption
<1>4. /\ communities' \in [found : Nat, named : Nat, told : Nat]
      /\ communities'.found = n /\ communities'.named = 0 /\ communities'.told = 0
  BY <1>1, <1>3 DEF NoCommunities
<1>5. /\ Spent = 2 /\ Spent' = 2 /\ progress' \in {"communities", "scope"}
      /\ progress' = "communities" => n > 0
  BY <1>1 DEF Spent
<1>6. calls' \in Nat /\ calls' <= 8 * communities'.named + 8 * communities'.told + Spent'
  BY <1>1, <1>2, <1>4, <1>5 DEF CallsInv
<1> QED
  BY <1>1, <1>2, <1>3, <1>4, <1>5, <1>6 DEF CallsInv, Early

\* The draft is only begun anew while there is one.
LEMMA NotAnew ==
  ASSUME CallsInv, progress \notin Drafting \cup {"raised", "replied"}
  PROVE  ~repeated
  BY DEF CallsInv

LEMMA CallsKept == CallsInv /\ [AnswerNext]_answerVars => CallsInv'
<1> SUFFICES ASSUME CallsInv, [AnswerNext]_answerVars PROVE CallsInv'
  OBVIOUS
<1>1. CASE UNCHANGED answerVars
  <2>1. UNCHANGED <<calls, communities, repeated, progress>>
    BY <1>1 DEF answerVars, modelState
  <2>2. Spent' = Spent
    BY <2>1 DEF Spent
  <2> QED BY <2>1, <2>2 DEF CallsInv
<1>2. CASE RefusePage \/ RefuseInvalid \/ RefuseApi \/ AskPage \/ AskApi
  <2>1. /\ progress = "asked" /\ progress' \in {"refused", "guard"} /\ UNCHANGED <<calls, communities, repeated>>
    BY <1>2 DEF RefusePage, RefuseInvalid, RefuseApi, Refuse, AskPage, AskApi, Run, modelState
  <2>2. ~repeated /\ Spent = 0 /\ Spent' = 0
    BY <2>1, NotAnew DEF Spent, Drafting
  <2> QED BY <2>1, <2>2, QuietCalls DEF Early
<1>3. CASE AnswerPage \/ AnswerApi
  <2>1. /\ progress \in Finished /\ progress' = "replied" /\ UNCHANGED <<calls, communities, repeated>>
    BY <1>3 DEF AnswerPage, AnswerApi, Respond, modelState
  <2>2. Spent <= 38 /\ Spent' = 38
    BY <2>1 DEF Spent, Finished
  <2> QED BY <2>1, <2>2, QuietCalls DEF Early
<1>4. ASSUME NEW n \in 0..2, BlockQuestion(n) \/ AllowQuestion(n) PROVE CallsInv'
  <2>1. /\ progress = "guard" /\ progress' \in {"blocked", "retrieve"} /\ calls' = calls + n
        /\ UNCHANGED <<communities, repeated>>
    BY <1>4 DEF BlockQuestion, AllowQuestion, Validate
  <2>2. ~repeated /\ Spent = 0 /\ Spent' = 2
    BY <2>1, NotAnew DEF Spent, Drafting
  <2> QED BY <2>1, <2>2, AnswerCalls DEF Early
<1>5. CASE Rebalance \/ \E f : Retrieve(f) \/ SearchControls(f)
  <2>1. /\ UNCHANGED <<calls, communities, repeated>>
        /\ progress \in {"retrieve", "rebalance", "controls"} /\ progress' \in {"rebalance", "controls", "expand"}
    BY <1>5 DEF Rebalance, Retrieve, SearchControls, modelState
  <2>2. ~repeated /\ Spent = 2 /\ Spent' = 2
    BY <2>1, NotAnew DEF Spent, Drafting
  <2> QED BY <2>1, <2>2, QuietCalls DEF Early
<1>6. CASE \E known : SetScope(known)
  <2>1. /\ UNCHANGED <<calls, communities, repeated>> /\ progress = "scope" /\ progress' \in {"outOfScope", "answer"}
    BY <1>6 DEF SetScope, modelState
  <2>2. ~repeated /\ Spent = 2 /\ Spent' = 2
    BY <2>1, NotAnew DEF Spent, Drafting
  <2> QED BY <2>1, <2>2, QuietCalls DEF Early
<1>7. ASSUME NEW n \in 1..4, NEW text, ModelAnswers(n) \/ RetryAnswers(n, text) PROVE CallsInv'
  <2>1. /\ progress \in Drafting /\ progress' = IF First THEN "evaluate" ELSE "evaluateAgain"
        /\ calls' = calls + n /\ ~repeated' /\ UNCHANGED communities
    BY <1>7 DEF ModelAnswers, RetryAnswers, Drafted, Completion, Drafting
  <2>2. Spent + n <= Spent'
    BY <2>1 DEF Spent, Drafting, First
  <2> QED BY <2>1, <2>2, AnswerCalls DEF Early
<1>8. ASSUME NEW n \in 0..4, BeginAnew(n) PROVE CallsInv'
  <2>1. /\ progress \in Drafting /\ progress' = IF First THEN "answer" ELSE "amend"
        /\ calls' = calls + n /\ ~repeated /\ repeated' /\ UNCHANGED communities
    BY <1>8 DEF BeginAnew, NoDraftYet, Completion
  <2>2. Spent + n <= Spent'
    BY <2>1 DEF Spent, Drafting, First
  <2> QED BY <2>1, <2>2, AnswerCalls DEF Early, Drafting
<1>9. ASSUME NEW n \in 1..4, ModelIsBlank(n) PROVE CallsInv'
  <2>1. /\ progress \in {"answer", "amend"} /\ progress' = IF First THEN "answerAgain" ELSE "amendAgain"
        /\ calls' = calls + n /\ UNCHANGED <<communities, repeated>>
    BY <1>9 DEF ModelIsBlank, NoDraftYet, Completion
  <2>2. Spent + n <= Spent'
    BY <2>1 DEF Spent, First
  <2>3. repeated' => progress' \in Drafting \cup {"raised", "replied"}
    BY <2>1 DEF Drafting
  <2> QED BY <2>1, <2>2, <2>3, AnswerCalls DEF Early, Drafting
<1>10. ASSUME NEW n \in 0..4, RunRaises(n) PROVE CallsInv'
  <2>1. /\ progress' = "raised" /\ calls' = calls + n /\ UNCHANGED <<communities, repeated>>
        /\ \/ progress = "controls" \/ progress \in Drafting
           \/ progress \in {"evaluate", "evaluateAgain"} /\ n <= 2
    BY <1>10 DEF RunRaises, Completion
  <2>2. Spent + n <= Spent'
    BY <2>1 DEF Spent, Drafting
  <2>3. repeated' => progress' \in Drafting \cup {"raised", "replied"}
    BY <2>1 DEF Drafting
  <2> QED BY <2>1, <2>2, <2>3, AnswerCalls DEF Early
<1>11. ASSUME NEW n \in 1..2, NEW ok, NEW score, Evaluate(n, ok, score) \/ EvaluateAgain(n, ok, score) PROVE CallsInv'
  <2>1. /\ calls' = calls + n /\ UNCHANGED <<communities, repeated>>
        /\ \/ progress = "evaluate" /\ progress' \in {"amend", "done"}
           \/ progress = "evaluateAgain" /\ progress' = "done"
    BY <1>11 DEF Evaluate, EvaluateAgain, Verdict, Completion
  <2>2. ~repeated
    BY <2>1, NotAnew DEF Drafting
  <2>3. Spent + n <= Spent'
    BY <2>1, <2>2 DEF Spent
  <2> QED BY <2>1, <2>2, <2>3, AnswerCalls DEF Early
<1> QED
  BY <1>1, <1>2, <1>3, <1>4, <1>5, <1>6, <1>7, <1>8, <1>9, <1>10, <1>11, CommunityCalls, ExpandCalls, AnswerSteps

(***************************************************************************)
(* The evaluation.                                                         *)
(***************************************************************************)

\* Until the model is asked there is nothing to look at.
LEMMA EarlierStages ==
  ASSUME EvaluationInv, UNCHANGED response,
         progress' \notin {"refused", "replied", "evaluateAgain", "done"}, progress \notin {"refused", "replied"},
         progress' = "blocked" => answer'.text = "refusal",
         progress' = "outOfScope" => answer'.text = "nothingInScope"
  PROVE  EvaluationInv'
  BY DEF EvaluationInv

LEMMA ResponseKept ==
  ASSUME EvaluationInv, AnswerPage \/ AnswerApi
  PROVE  EvaluationInv'
<1>1. /\ progress \in Finished /\ progress' = "replied" /\ UNCHANGED <<answer, evaluation>>
      /\ progress = "raised" => response'.text = "error"
      /\ progress # "raised" => response'.text = answer.text
  BY DEF AnswerPage, AnswerApi, Respond
<1> QED
  BY <1>1 DEF EvaluationInv, Finished, Evaluated

LEMMA VerdictKept ==
  ASSUME EvaluationInv, NEW n, NEW ok \in BOOLEAN, NEW score \in {Threshold - 1, Threshold},
         Evaluate(n, ok, score) \/ EvaluateAgain(n, ok, score)
  PROVE  EvaluationInv'
<1>1. /\ evaluation'.of = answer'.draft /\ evaluation'.acceptable = ok /\ evaluation'.score = score /\ UNCHANGED <<answer, response>>
      /\ progress \in {"evaluate", "evaluateAgain"} /\ progress' \in {"amend", "done"}
  BY DEF Evaluate, EvaluateAgain, Verdict, requestState
<1>2. progress' = "done" => answer'.draft = 2 \/ (ok /\ score >= Threshold)
  BY <1>1, AnswerAssumption DEF Evaluate, EvaluateAgain, EvaluationInv
<1> QED
  BY <1>1, <1>2 DEF EvaluationInv, Evaluated

LEMMA EvaluationKept == EvaluationInv /\ [AnswerNext]_answerVars => EvaluationInv'
<1> SUFFICES ASSUME EvaluationInv, [AnswerNext]_answerVars PROVE EvaluationInv'
  OBVIOUS
<1>1. CASE UNCHANGED answerVars
  BY <1>1 DEF answerVars, requestState, EvaluationInv, Evaluated
<1>2. CASE RefusePage \/ RefuseInvalid \/ RefuseApi
  BY <1>2 DEF RefusePage, RefuseInvalid, RefuseApi, Refuse, EvaluationInv
<1>3. CASE AskPage \/ AskApi \/ \E n : RunRaises(n)
  BY <1>3, EarlierStages DEF AskPage, AskApi, Run, RunRaises, Drafting, requestState
<1>4. CASE \E n : BlockQuestion(n) \/ AllowQuestion(n)
  BY <1>4, EarlierStages DEF BlockQuestion, AllowQuestion, requestState
<1>5. CASE Rebalance \/ \E f : Retrieve(f) \/ SearchControls(f)
  BY <1>5, EarlierStages DEF Rebalance, Retrieve, SearchControls, requestState
<1>6. CASE \E f, n : ExpandByGraph(f, n)
  BY <1>6, EarlierStages DEF ExpandByGraph, requestState
<1>7. CASE \E n : NameCommunity(n) \/ TellOfCommunity(n)
  BY <1>7, EarlierStages DEF NameCommunity, TellOfCommunity, AskOfCommunity, requestState
<1>8. CASE \E known : SetScope(known)
  BY <1>8, EarlierStages DEF SetScope, requestState
<1>9. CASE \E n : ModelAnswers(n) \/ \E text : RetryAnswers(n, text)
  BY <1>9 DEF ModelAnswers, RetryAnswers, Drafted, First, requestState, EvaluationInv
<1>10. CASE \E n : ModelIsBlank(n) \/ BeginAnew(n)
  BY <1>10, EarlierStages DEF ModelIsBlank, BeginAnew, NoDraftYet, First, Drafting, requestState
<1> QED
  BY <1>1, <1>2, <1>3, <1>4, <1>5, <1>6, <1>7, <1>8, <1>9, <1>10, ResponseKept, VerdictKept, AnswerSteps

\* For any documents, selections and exclusions, whatever the searches, the graph
\* and a probe of the corpora find (run_rag, _build_scope_profile): in the context
\* the model and the evaluator are given nothing of a corpus the caller did not
\* want, and beside it only what the earlier turns and the feedback of the
\* conversation tell of, and what a summary in place of an answer has shown.
THEOREM ModelIsGivenTheSelection == AnswerSpec => []ContextWithinSelection
<1>1. SelectionInv => ContextWithinSelection
  BY DEF SelectionInv
<1> QED
  BY <1>1, AnswerInitHolds, SelectionKept, PTL DEF AnswerSpec

\* For any threshold, an answer that is replied is the one its evaluation is
\* about, and it was found acceptable or is the second draft (run_rag, ask.py).
THEOREM RepliesAreEvaluated == AnswerSpec => []AnswerIsEvaluated
<1>1. EvaluationInv => AnswerIsEvaluated
  BY DEF EvaluationInv, AnswerIsEvaluated, Evaluated
<1> QED
  BY <1>1, AnswerInitHolds, EvaluationKept, PTL DEF AnswerSpec

\* However often the model is blank, refuses a parameter or has a TypeError
\* raised, a question costs at most 38 requests, the validator's among them, and
\* sixteen for each community, however many the graph has reached (llm_chat.py,
\* run_rag).
THEOREM RequestsAreBounded == AnswerSpec => []CallsAreBounded
<1>1. CallsInv => CallsAreBounded
  <2> SUFFICES ASSUME CallsInv PROVE CallsAreBounded
    OBVIOUS
  <2>1. Spent \in 0..38
    BY DEF Spent
  <2> QED
    BY <2>1 DEF CallsInv, CallsAreBounded
<1> QED
  BY <1>1, AnswerInitHolds, CallsKept, PTL DEF AnswerSpec

(***************************************************************************)
(* Taking turns: chunks of several frameworks and sources.                 *)
(***************************************************************************)

LEMMA LeastPlace ==
  ASSUME NEW T \in SUBSET Nat, T # {}
  PROVE  \E n \in T : \A m \in T : n <= m
<1>1. PICK n \in T : \A m \in T : <<m, n>> \notin OpToRel(<, Nat)
  BY NatLessThanWellFounded, WFMin
<1>2. \A m \in T : ~(m < n)
  BY <1>1 DEF OpToRel
<1>3. \A m \in T : n <= m
  BY <1>2
<1> QED  BY <1>3

\* Sets of places: a smaller one has fewer.
LEMMA PlacesCount ==
  ASSUME NEW n \in Nat
  PROVE  /\ IsFiniteSet(1..n) /\ Cardinality(1..n) = n
         /\ \A U \in SUBSET (1..n) : IsFiniteSet(U) /\ Cardinality(U) \in Nat /\ Cardinality(U) <= n
         /\ \A U, V \in SUBSET (1..n) : U \subseteq V /\ U # V => Cardinality(U) < Cardinality(V)
<1>1. IsFiniteSet(1..n) /\ Cardinality(1..n) = n
  BY FS_Interval
<1>2. \A U \in SUBSET (1..n) : IsFiniteSet(U) /\ Cardinality(U) \in Nat /\ Cardinality(U) <= n
  BY <1>1, FS_Subset, FS_CardinalityType
<1>3. ASSUME NEW U \in SUBSET (1..n), NEW V \in SUBSET (1..n), U \subseteq V, U # V
      PROVE  Cardinality(U) < Cardinality(V)
  <2>1. Cardinality(U) <= Cardinality(V) /\ Cardinality(U) # Cardinality(V)
    BY <1>2, <1>3, FS_Subset
  <2> QED  BY <1>2, <2>1
<1> QED  BY <1>1, <1>2, <1>3

\* Chunks of one framework or source are counted in their order.
LEMMA RanksCount ==
  ASSUME chunks \in Seq(Documents)
  PROVE  /\ \A i \in DOMAIN chunks : Rank(i) \in Nat
         /\ \A i, j \in DOMAIN chunks : chunks[i].hint = chunks[j].hint /\ i < j => Rank(i) < Rank(j)
<1> DEFINE n == Len(chunks)
           U(i) == {j \in Hinted(chunks[i].hint) : j <= i}
<1>1. n \in Nat /\ DOMAIN chunks = 1..n
  OBVIOUS
<1>2. \A i \in 1..n : U(i) \in SUBSET (1..n)
  BY <1>1 DEF Hinted
<1>3. ASSUME NEW i \in 1..n, NEW j \in 1..n, chunks[i].hint = chunks[j].hint, i < j
      PROVE  U(i) \subseteq U(j) /\ U(i) # U(j)
  <2>1. j \in U(j) /\ j \notin U(i)
    BY <1>1, <1>3 DEF Hinted
  <2>2. \A h \in U(i) : h \in U(j)
    BY <1>1, <1>3 DEF Hinted
  <2> QED  BY <2>1, <2>2
<1>4. ASSUME NEW i \in 1..n PROVE Rank(i) = Cardinality(U(i))
  BY DEF Rank
<1> HIDE DEF n, U
<1>5. \A i \in 1..n : Rank(i) \in Nat
  BY <1>1, <1>2, <1>4, PlacesCount
<1>6. \A i, j \in 1..n : chunks[i].hint = chunks[j].hint /\ i < j => Rank(i) < Rank(j)
  <2> SUFFICES ASSUME NEW i \in 1..n, NEW j \in 1..n, chunks[i].hint = chunks[j].hint, i < j
               PROVE  Rank(i) < Rank(j)
    OBVIOUS
  <2>1. U(i) \in SUBSET (1..n) /\ U(j) \in SUBSET (1..n) /\ U(i) \subseteq U(j) /\ U(i) # U(j)
    BY <1>2, <1>3
  <2>2. Cardinality(U(i)) < Cardinality(U(j))
    BY <1>1, <2>1, PlacesCount
  <2> QED  BY <1>4, <2>2
<1> QED  BY <1>1, <1>5, <1>6

LEMMA FirstIsHinted ==
  ASSUME chunks \in Seq(Documents), NEW i \in DOMAIN chunks
  PROVE  /\ FirstAt(chunks[i].hint) \in Hinted(chunks[i].hint)
         /\ FirstAt(chunks[i].hint) \in DOMAIN chunks /\ chunks[FirstAt(chunks[i].hint)].hint = chunks[i].hint
<1> DEFINE T == Hinted(chunks[i].hint)
<1>1. T \in SUBSET Nat /\ i \in T
  BY DEF Hinted
<1>2. \E m \in T : \A j \in T : m <= j
  BY <1>1, LeastPlace
<1>3. FirstAt(chunks[i].hint) \in T
  BY <1>2 DEF FirstAt
<1> QED  BY <1>3 DEF Hinted

\* Taking turns is an order of all chunks.
LEMMA TurnsAreOrdered ==
  ASSUME chunks \in Seq(Documents)
  PROVE  /\ \A i \in DOMAIN chunks : ~TakesTurnBefore(i, i)
         /\ \A i, j, k \in DOMAIN chunks : TakesTurnBefore(i, j) /\ TakesTurnBefore(j, k) => TakesTurnBefore(i, k)
         /\ \A i, j \in DOMAIN chunks : TakesTurnBefore(i, j) \/ TakesTurnBefore(j, i) \/ i = j
<1> DEFINE D == DOMAIN chunks
           F(i) == FirstAt(chunks[i].hint)
<1>1. D \subseteq Nat
  OBVIOUS
<1>2. \A i \in D : Rank(i) \in Nat /\ F(i) \in Nat /\ chunks[F(i)].hint = chunks[i].hint
  BY <1>1, RanksCount, FirstIsHinted
<1>3. \A i, j \in D : TakesTurnBefore(i, j) <=> (Rank(i) < Rank(j) \/ (Rank(i) = Rank(j) /\ F(i) < F(j)))
  BY DEF TakesTurnBefore
<1>4. ASSUME NEW i \in D, NEW j \in D, Rank(i) = Rank(j), F(i) = F(j) PROVE i = j
  <2>1. chunks[i].hint = chunks[j].hint
    BY <1>2, <1>4
  <2>2. ~(i < j) /\ ~(j < i)
    BY <1>2, <1>4, <2>1, RanksCount
  <2> QED  BY <1>1, <2>2
<1> HIDE DEF D, F
<1>5. \A i \in D : ~TakesTurnBefore(i, i)
  BY <1>2, <1>3
<1>6. \A i, j, k \in D : TakesTurnBefore(i, j) /\ TakesTurnBefore(j, k) => TakesTurnBefore(i, k)
  BY <1>2, <1>3
<1>7. \A i, j \in D : TakesTurnBefore(i, j) \/ TakesTurnBefore(j, i) \/ i = j
  BY <1>2, <1>3, <1>4
<1> QED  BY <1>5, <1>6, <1>7 DEF D

\* Each chunk has a place of its own, in that order, and each place a chunk.
LEMMA PlacesAreTaken ==
  ASSUME chunks \in Seq(Documents)
  PROVE  /\ \A i \in DOMAIN chunks : Place(i) \in DOMAIN chunks
         /\ \A i, j \in DOMAIN chunks : TakesTurnBefore(i, j) <=> Place(i) < Place(j)
         /\ \A i, j \in DOMAIN chunks : Place(i) = Place(j) => i = j
         /\ \A m \in DOMAIN chunks : \E i \in DOMAIN chunks : Place(i) = m
<1> DEFINE n == Len(chunks)
           B(i) == {j \in 1..n : TakesTurnBefore(j, i)}
           p == [i \in 1..n |-> Place(i)]
<1>1. n \in Nat /\ DOMAIN chunks = 1..n
  OBVIOUS
<1>2. \A i \in 1..n : Place(i) = Cardinality(B(i)) + 1
  BY <1>1 DEF Place
<1>3. /\ \A i \in 1..n : ~TakesTurnBefore(i, i)
      /\ \A i, j, k \in 1..n : TakesTurnBefore(i, j) /\ TakesTurnBefore(j, k) => TakesTurnBefore(i, k)
      /\ \A i, j \in 1..n : TakesTurnBefore(i, j) \/ TakesTurnBefore(j, i) \/ i = j
  BY <1>1, TurnsAreOrdered
<1> HIDE DEF n
<1>4. ASSUME NEW i \in 1..n PROVE Place(i) \in 1..n
  <2>1. B(i) \in SUBSET (1..n) /\ B(i) # 1..n
    BY <1>3
  <2>2. Cardinality(B(i)) < Cardinality(1..n) /\ Cardinality(B(i)) \in Nat /\ Cardinality(1..n) = n
    BY <1>1, <2>1, PlacesCount
  <2> HIDE DEF B
  <2> QED  BY <1>1, <1>2, <2>2
<1>5. ASSUME NEW i \in 1..n, NEW j \in 1..n, TakesTurnBefore(i, j) PROVE Place(i) < Place(j)
  <2>1. B(i) \in SUBSET (1..n) /\ B(j) \in SUBSET (1..n) /\ i \in B(j) /\ i \notin B(i)
    BY <1>3, <1>5
  <2>2. B(i) \subseteq B(j)
    BY <1>3, <1>5
  <2> HIDE DEF B
  <2>3. Cardinality(B(i)) < Cardinality(B(j)) /\ Cardinality(B(i)) \in Nat /\ Cardinality(B(j)) \in Nat
    BY <1>1, <2>1, <2>2, PlacesCount
  <2> QED  BY <1>2, <2>3
<1>6. \A i, j \in 1..n : (TakesTurnBefore(i, j) <=> Place(i) < Place(j)) /\ (Place(i) = Place(j) => i = j)
  <2>1. \A i \in 1..n : Place(i) \in Nat
    BY <1>4
  <2> QED  BY <1>3, <1>5, <2>1
<1>7. p \in Injection(1..n, 1..n)
  BY <1>4, <1>6 DEF Injection, IsInjective
<1>8. p \in Surjection(1..n, 1..n)
  BY <1>1, <1>7, PlacesCount, FS_Injection
<1>9. \A m \in 1..n : \E i \in 1..n : Place(i) = m
  BY <1>8 DEF Surjection
<1> QED  BY <1>1, <1>4, <1>6, <1>9

\* What is at the place of a chunk, after they have taken turns, is that chunk.
LEMMA InTurnsPlaces ==
  ASSUME chunks \in Seq(Documents)
  PROVE  /\ Len(InTurns) = Len(chunks) /\ DOMAIN InTurns = DOMAIN chunks
         /\ \A i \in DOMAIN chunks : InTurns[Place(i)] = chunks[i]
<1>1. Len(chunks) \in Nat /\ DOMAIN chunks = 1..Len(chunks)
  OBVIOUS
<1>2. Len(InTurns) = Len(chunks) /\ DOMAIN InTurns = DOMAIN chunks
  BY <1>1 DEF InTurns
<1>3. ASSUME NEW i \in DOMAIN chunks PROVE InTurns[Place(i)] = chunks[i]
  <2> DEFINE at == CHOOSE j \in DOMAIN chunks : Place(j) = Place(i)
  <2>1. at = i /\ Place(i) \in DOMAIN chunks
    BY PlacesAreTaken
  <2> QED  BY <2>1 DEF InTurns
<1> QED  BY <1>2, <1>3

\* Each keeps its turn among those of its framework or source.
LEMMA TurnsAreKept ==
  ASSUME chunks \in Seq(Documents), NEW i \in DOMAIN chunks
  PROVE  Turn(chunks, i) = Rank(i) /\ Turn(InTurns, Place(i)) = Rank(i)
<1> DEFINE D == DOMAIN chunks
           U == {j \in D : j <= i /\ chunks[j].hint = chunks[i].hint}
           V == {m \in D : m <= Place(i) /\ InTurns[m].hint = chunks[i].hint}
           p == [j \in U |-> Place(j)]
<1>1. /\ D \subseteq Nat /\ U \subseteq D /\ V \subseteq D /\ IsFiniteSet(U)
  <2>1. Len(chunks) \in Nat /\ D = 1..Len(chunks)
    OBVIOUS
  <2> QED  BY <2>1, PlacesCount
<1>2. U = {j \in Hinted(chunks[i].hint) : j <= i}
  BY DEF Hinted
<1>3. Turn(chunks, i) = Cardinality(U) /\ Rank(i) = Cardinality(U)
  BY <1>2 DEF Turn, Rank
<1>4. Turn(InTurns, Place(i)) = Cardinality(V)
  BY InTurnsPlaces DEF Turn
<1>5. \A j \in D : chunks[j].hint = chunks[i].hint => (j <= i <=> Place(j) <= Place(i))
  <2> SUFFICES ASSUME NEW j \in D, chunks[j].hint = chunks[i].hint PROVE j <= i <=> Place(j) <= Place(i)
    OBVIOUS
  <2>1. Place(i) \in Nat /\ Place(j) \in Nat /\ i \in Nat /\ j \in Nat
    BY <1>1, PlacesAreTaken
  <2>2. Rank(i) \in Nat /\ Rank(j) \in Nat
    BY RanksCount
  <2>3. i < j => Place(i) < Place(j)
    BY RanksCount, PlacesAreTaken DEF TakesTurnBefore
  <2>4. j < i => Place(j) < Place(i)
    BY RanksCount, PlacesAreTaken DEF TakesTurnBefore
  <2> QED  BY <2>1, <2>3, <2>4
<1>6. p \in Bijection(U, V)
  <2>1. ASSUME NEW j \in U PROVE Place(j) \in V
    BY <1>1, <1>5, PlacesAreTaken, InTurnsPlaces
  <2>2. \A j, h \in U : Place(j) = Place(h) => j = h
    BY <1>1, PlacesAreTaken
  <2>3. ASSUME NEW m \in V PROVE \E j \in U : Place(j) = m
    <3>1. PICK j \in D : Place(j) = m
      BY <1>1, PlacesAreTaken
    <3>2. chunks[j].hint = chunks[i].hint
      BY <3>1, InTurnsPlaces
    <3> QED  BY <1>5, <3>1, <3>2
  <2> HIDE DEF U, V
  <2>4. p \in [U -> V]
    BY <2>1
  <2> QED  BY <2>2, <2>3, <2>4 DEF Bijection, Injection, Surjection, IsInjective
<1>7. Cardinality(V) = Cardinality(U)
  BY <1>1, <1>6, FS_Bijection DEF ExistsBijection
<1> QED  BY <1>3, <1>4, <1>7

\* The chunks that are to take turns are a sequence of documents.
ChunksInOrder == progress = "rebalance" => chunks \in Seq(Documents)

\* Only a retrieval brings the chunks to it, and only taking turns changes them then.
LEMMA RebalanceSteps ==
  ASSUME AnswerNext
  PROVE  \/ progress' # "rebalance" /\ progress # "rebalance"
         \/ Rebalance
         \/ \E f \in Finds : Retrieve(f)
<1> SUFFICES ASSUME ~Rebalance, ~\E f \in Finds : Retrieve(f)
             PROVE  progress' # "rebalance" /\ progress # "rebalance"
  OBVIOUS
<1>1. CASE RefusePage \/ RefuseInvalid \/ RefuseApi
  BY <1>1 DEF RefusePage, RefuseInvalid, RefuseApi, Refuse
<1>2. CASE AskPage \/ AskApi
  BY <1>2 DEF AskPage, AskApi, Run
<1>3. CASE AnswerPage \/ AnswerApi
  BY <1>3 DEF AnswerPage, AnswerApi, Respond, Finished
<1>4. CASE \E n : BlockQuestion(n) \/ AllowQuestion(n)
  BY <1>4 DEF BlockQuestion, AllowQuestion
<1>5. CASE \E f : SearchControls(f)
  BY <1>5 DEF SearchControls
<1>6. CASE \E f, n : ExpandByGraph(f, n)
  <2>1. PICK f, n : ExpandByGraph(f, n)
    BY <1>6
  <2>2. progress = "expand" /\ (progress' = "communities" \/ progress' = "scope")
    BY <2>1, Zenon DEF ExpandByGraph
  <2> QED  BY <2>2
<1>7. CASE \E n : NameCommunity(n) \/ TellOfCommunity(n)
  BY <1>7 DEF NameCommunity, TellOfCommunity, AskOfCommunity
<1>8. CASE \E known : SetScope(known)
  BY <1>8 DEF SetScope
<1>9. CASE \E n : ModelIsBlank(n) \/ BeginAnew(n)
  BY <1>9 DEF ModelIsBlank, BeginAnew, Drafting
<1>10. CASE \E n : ModelAnswers(n) \/ \E text : RetryAnswers(n, text)
  BY <1>10 DEF ModelAnswers, RetryAnswers, Drafted
<1>11. CASE \E n, ok, score : Evaluate(n, ok, score) \/ EvaluateAgain(n, ok, score)
  BY <1>11 DEF Evaluate, EvaluateAgain
<1>12. CASE \E n : RunRaises(n)
  BY <1>12 DEF RunRaises, Drafting
<1> QED
  BY <1>1, <1>2, <1>3, <1>4, <1>5, <1>6, <1>7, <1>8, <1>9, <1>10, <1>11, <1>12, AnswerSteps

\* What is to be rebalanced is a sequence of documents.
THEOREM ChunksStayInOrder == AnswerSpec => []ChunksInOrder
<1>1. AnswerInit => ChunksInOrder
  BY DEF AnswerInit, AnswerInitWith, ChunksInOrder
<1>2. ChunksInOrder /\ [AnswerNext]_answerVars => ChunksInOrder'
  <2> SUFFICES ASSUME ChunksInOrder, [AnswerNext]_answerVars, progress' = "rebalance"
               PROVE  chunks' \in Seq(Documents)
    BY DEF ChunksInOrder
  <2>1. CASE UNCHANGED answerVars
    BY <2>1 DEF answerVars, ChunksInOrder
  <2>2. CASE AnswerNext
    <3>1. PICK f \in Finds : Retrieve(f)
      BY <2>2, RebalanceSteps DEF Rebalance
    <3>2. PICK g \in Hits({"b"}, MaxK), h \in Hits({"c"}, MaxK) : f = g \o h
      BY <3>1 DEF Finds
    <3>3. g \in Seq(Documents) /\ h \in Seq(Documents)
      BY AnswerAssumption DEF Hits, Of
    <3> QED  BY <3>1, <3>2, <3>3 DEF Retrieve
  <2> QED  BY <2>1, <2>2
<1> QED  BY <1>1, <1>2, PTL DEF AnswerSpec

LEMMA TakingTurnsKeeps ==
  ASSUME ChunksInOrder, [AnswerNext]_answerVars, progress = "rebalance"
  PROVE  /\ Len(chunks') = Len(chunks)
         /\ \A i \in DOMAIN chunks : \E j \in DOMAIN chunks' : chunks'[j] = chunks[i] /\ Turn(chunks', j) = Turn(chunks, i)
         /\ chunks' # chunks => \A i, j \in DOMAIN chunks' : Turn(chunks', i) < Turn(chunks', j) => i < j
<1>1. chunks \in Seq(Documents)
  BY DEF ChunksInOrder
<1>2. chunks' = chunks \/ chunks' = InTurns
  <2>1. CASE AnswerNext
    BY <2>1, RebalanceSteps DEF Rebalance, Retrieve
  <2>2. CASE UNCHANGED answerVars
    BY <2>2 DEF answerVars
  <2> QED  BY <2>1, <2>2
<1>3. CASE chunks' = chunks
  BY <1>3
<1>4. CASE chunks' = InTurns
  <2>1. Len(chunks') = Len(chunks) /\ DOMAIN chunks' = DOMAIN chunks
    BY <1>1, <1>4, InTurnsPlaces
  <2>2. ASSUME NEW i \in DOMAIN chunks
        PROVE  \E j \in DOMAIN chunks' : chunks'[j] = chunks[i] /\ Turn(chunks', j) = Turn(chunks, i)
    <3>1. Place(i) \in DOMAIN chunks'
      BY <1>1, <2>1, PlacesAreTaken
    <3>2. chunks'[Place(i)] = chunks[i] /\ Turn(chunks', Place(i)) = Turn(chunks, i)
      BY <1>1, <1>4, InTurnsPlaces, TurnsAreKept
    <3> QED  BY <3>1, <3>2
  <2>3. ASSUME NEW i \in DOMAIN chunks', NEW j \in DOMAIN chunks', Turn(chunks', i) < Turn(chunks', j)
        PROVE  i < j
    <3>1. PICK a \in DOMAIN chunks, b \in DOMAIN chunks : Place(a) = i /\ Place(b) = j
      BY <1>1, <2>1, PlacesAreTaken
    <3>2. Rank(a) < Rank(b)
      BY <1>1, <1>4, <2>3, <3>1, TurnsAreKept
    <3>3. TakesTurnBefore(a, b)
      BY <3>2 DEF TakesTurnBefore
    <3> QED  BY <1>1, <3>1, <3>3, PlacesAreTaken
  <2> QED  BY <2>1, <2>2, <2>3
<1> QED  BY <1>2, <1>3, <1>4

\* Taking turns keeps every chunk, the order within each framework or source,
\* and lets none have a further chunk before the others have had theirs.
THEOREM TurnsKeepChunks == AnswerSpec => RebalanceKeepsChunks
<1>1. ChunksInOrder /\ [AnswerNext]_answerVars =>
        [progress = "rebalance" =>
          /\ Len(chunks') = Len(chunks)
          /\ \A i \in DOMAIN chunks : \E j \in DOMAIN chunks' : chunks'[j] = chunks[i] /\ Turn(chunks', j) = Turn(chunks, i)
          /\ chunks' # chunks => \A i, j \in DOMAIN chunks' : Turn(chunks', i) < Turn(chunks', j) => i < j]_answerVars
  BY TakingTurnsKeeps
<1> QED  BY <1>1, ChunksStayInOrder, PTL DEF AnswerSpec, RebalanceKeepsChunks

(***************************************************************************)
(* ControlsSearch: what controls a question gets.                          *)
(***************************************************************************)
SearchStages == {"search", "pick", "fill", "prefer", "repick", "dedupe", "done"}
Fetches == [framework : {FilterFor, inquiry.preferred} \cup Within(Compared), top : Nat]

SearchTypeOK ==
    /\ inquiry \in Inquiries /\ searchStage \in SearchStages
    /\ fetches \in Seq(Fetches)
    /\ found \subseteq AllControls /\ extra \subseteq AllControls
    /\ unseen \subseteq AllControls /\ passed \subseteq AllControls
    /\ picked \in Seq(AllControls)

\* The preferred framework counts: nothing else was asked for.
Preferring == ~Diverse /\ FilterFor = AnyFramework /\ inquiry.preferred # AnyFramework

\* Nothing of a framework is searched for that the question did not ask for, and
\* only what was found is picked.
SearchScope ==
    /\ searchStage = "search" => /\ extra = {} /\ passed = {} /\ picked = <<>>
                                 /\ FilterFor # AnyFramework =>
                                        \A i \in DOMAIN fetches : fetches[i].framework = FilterFor
    /\ searchStage = "prefer" => \A i \in DOMAIN fetches : fetches[i].framework = inquiry.preferred
    /\ FilterFor # AnyFramework => \A c \in found : c.framework = FilterFor
    /\ \A c \in extra : c.framework = inquiry.preferred
    /\ searchStage \in {"prefer", "repick"} \/ extra # {} => Preferring

PickedFromFound ==
    /\ unseen \cup passed \cup Within(picked) \subseteq found \cup extra
    /\ Len(picked) <= inquiry.k
    /\ searchStage = "done" => result = {picked[i] : i \in {j \in DOMAIN picked : IsFirst(picked, j)}}

\* What is passed over is crowded out, and no framework has more than half of the places.
SpreadSoFar ==
    searchStage = "pick" /\ Diverse =>
        /\ found = unseen \cup passed \cup Within(picked)
        /\ \A c \in AllControls : Cardinality(OfFramework(picked, c.framework)) <= Half
        /\ \A c \in passed : Crowded(c)

\* Two frameworks, or each control found is of the framework or of the family of the first.
Spans(s) ==
    \/ \E i, j \in DOMAIN s : s[i].framework # s[j].framework
    \/ \A c \in found : /\ s # <<>>
                        /\ \/ \E i \in DOMAIN s : s[i].framework = c.framework
                           \/ s[1].family = c.family /\ c.family # ""
SpreadIsKept ==
    searchStage \in {"fill", "dedupe", "done"} /\ Diverse /\ inquiry.k >= 2 => Spans(picked)

\* The best of the preferred framework was looked at.
Unfit == inquiry.words /\ \E c \in BestOf(extra) : c.overlap = 0 \/ c.score < 5
PreferredSoFar ==
    /\ searchStage = "prefer" => ~HasPreferred(picked)
    /\ searchStage = "repick" => /\ extra # {} /\ extra \subseteq unseen \cup Within(picked)
                                 /\ \A c \in unseen : c.framework = inquiry.preferred => c \in extra
                                 /\ ~inquiry.words /\ picked # <<>> => HasPreferred(picked)
    /\ searchStage \in {"dedupe", "done"} /\ Preferring /\ inquiry.k > 0 =>
           HasPreferred(picked) \/ extra = {} \/ Unfit

SearchInv == /\ SearchTypeOK /\ SearchScope /\ PickedFromFound
             /\ SpreadSoFar /\ SpreadIsKept /\ PreferredSoFar

LEMMA Appended ==
  ASSUME NEW S, NEW s \in Seq(S), NEW c \in S
  PROVE  /\ Append(s, c) \in Seq(S) /\ Append(s, c) # <<>>
         /\ Len(Append(s, c)) = Len(s) + 1 /\ DOMAIN Append(s, c) = 1..(Len(s) + 1)
         /\ \A i \in DOMAIN s : i \in DOMAIN Append(s, c) /\ Append(s, c)[i] = s[i]
         /\ Append(s, c)[Len(s) + 1] = c
         /\ Within(Append(s, c)) = Within(s) \cup {c}
<1>1. /\ Append(s, c) \in Seq(S) /\ Append(s, c) # <<>> /\ Len(s) \in Nat
      /\ Len(Append(s, c)) = Len(s) + 1 /\ DOMAIN Append(s, c) = 1..(Len(s) + 1) /\ DOMAIN s = 1..Len(s)
      /\ \A i \in DOMAIN s : i \in DOMAIN Append(s, c) /\ Append(s, c)[i] = s[i]
      /\ Append(s, c)[Len(s) + 1] = c
  OBVIOUS
<1>2. \A i \in DOMAIN Append(s, c) : i \in DOMAIN s \/ i = Len(s) + 1
  BY <1>1
<1>3. Len(s) + 1 \in DOMAIN Append(s, c)
  BY <1>1
<1>4. Within(Append(s, c)) = Within(s) \cup {c}
  BY <1>1, <1>2, <1>3 DEF Within
<1> QED  BY <1>1, <1>4

\* Searches are cut in size and keep to the framework they are for.
LEMMA SliceIsThrough ==
  ASSUME NEW r \in Rankings, NEW v \in Rankings, NEW fetch
  PROVE  /\ Fused(Slice(r, fetch), Slice(v, fetch)) \subseteq AllControls
         /\ fetch.framework # AnyFramework =>
                \A c \in Fused(Slice(r, fetch), Slice(v, fetch)) : c.framework = fetch.framework
<1>1. ASSUME NEW q \in Rankings, NEW c \in Slice(q, fetch)
      PROVE  c \in AllControls /\ Through(fetch, c)
  <2>1. PICK i \in DOMAIN q : c = q[i] /\ Through(fetch, q[i])
    BY <1>1 DEF Slice
  <2>2. c \in Within(q)
    BY <2>1 DEF Within
  <2> QED  BY <2>1, <2>2 DEF AllControls
<1>2. Fused(Slice(r, fetch), Slice(v, fetch)) \subseteq Slice(r, fetch) \cup Slice(v, fetch)
  BY DEF Fused
<1> QED  BY <1>1, <1>2 DEF Through

LEMMA FirstFetchesTyped ==
  ASSUME inquiry \in Inquiries
  PROVE  /\ FirstFetches \in Seq(Fetches)
         /\ FilterFor # AnyFramework => \A i \in DOMAIN FirstFetches : FirstFetches[i].framework = FilterFor
<1> DEFINE turns == IF Diverse THEN 1 + Len(Compared) ELSE 1
           turn(i) == (i - 1) \div inquiry.wordings
<1>1. /\ inquiry.k \in Nat /\ inquiry.wordings \in Nat /\ turns \in Nat /\ Len(Compared) \in Nat
      /\ PerFramework \in Nat /\ inquiry.wordings * turns \in Nat
  BY SearchBounds DEF PerFramework, AtLeast
<1>2. ASSUME NEW i \in 1..(inquiry.wordings * turns)
      PROVE  turn(i) \in Nat /\ turn(i) < turns
  <2>1. inquiry.wordings > 0 /\ i - 1 \in Nat /\ i - 1 < inquiry.wordings * turns
    BY <1>1
  <2> QED  BY <2>1, <1>1
<1>3. ASSUME NEW i \in 1..(inquiry.wordings * turns)
      PROVE  /\ FirstFetches[i] \in Fetches
             /\ FilterFor # AnyFramework => FirstFetches[i].framework = FilterFor
  <2>1. CASE turn(i) = 0
    BY <2>1, <1>1 DEF FirstFetches, Fetches
  <2>2. CASE turn(i) # 0
    <3>1. turn(i) \in 1..Len(Compared) /\ Diverse
      BY <2>2, <1>2, <1>1
    <3> QED  BY <3>1, <2>2, <1>1 DEF FirstFetches, Fetches, Within, Diverse
  <2> QED  BY <2>1, <2>2
<1>4. FirstFetches = [i \in 1..(inquiry.wordings * turns) |-> FirstFetches[i]]
  BY DEF FirstFetches
<1> HIDE DEF turns
<1>5. \A n \in Nat : FirstFetches = [i \in 1..n |-> FirstFetches[i]] /\ (\A i \in 1..n : FirstFetches[i] \in Fetches)
         => FirstFetches \in Seq(Fetches) /\ DOMAIN FirstFetches = 1..n
  OBVIOUS
<1>6. FirstFetches \in Seq(Fetches) /\ DOMAIN FirstFetches = 1..(inquiry.wordings * turns)
  BY <1>1, <1>3, <1>4, <1>5
<1> QED  BY <1>3, <1>6

LEMMA SearchStarts == SearchInit => SearchInv
<1> SUFFICES ASSUME SearchInit PROVE SearchInv  OBVIOUS
<1>1. inquiry \in Inquiries /\ inquiry.k \in Nat
  BY SearchBounds DEF SearchInit, SearchInitWith
<1>2. SearchTypeOK
  BY <1>1, FirstFetchesTyped DEF SearchInit, SearchInitWith, SearchTypeOK, SearchStages
<1>3. SearchScope
  BY <1>1, FirstFetchesTyped DEF SearchInit, SearchInitWith, SearchScope
<1>4. PickedFromFound
  BY <1>1 DEF SearchInit, SearchInitWith, PickedFromFound, Within
<1>5. SpreadSoFar /\ SpreadIsKept /\ PreferredSoFar
  BY DEF SearchInit, SearchInitWith, SpreadSoFar, SpreadIsKept, PreferredSoFar
<1> QED  BY <1>2, <1>3, <1>4, <1>5 DEF SearchInv

\* The question stays what it is.
LEMMA QuestionStays ==
  ASSUME [SearchNext]_inquiryVars
  PROVE  /\ inquiry' = inquiry /\ FilterFor' = FilterFor /\ Fetches' = Fetches /\ Half' = Half
         /\ PerFramework' = PerFramework /\ (Diverse' <=> Diverse) /\ (Preferring' <=> Preferring)
<1>1. inquiry' = inquiry
  BY DEF SearchNext, inquiryVars, FetchFinds, FetchFails, Fetch, StartPicking, Pick, FillUp, EndPicking, PickAgain,
         BackfillPreferred, DedupeIds
<1>2. FilterFor' = FilterFor /\ Half' = Half /\ PerFramework' = PerFramework
  BY <1>1 DEF FilterFor, Half, PerFramework
<1>3. (Diverse' <=> Diverse) /\ Fetches' = Fetches
  BY <1>1, <1>2 DEF Diverse, Fetches
<1> QED  BY <1>1, <1>2, <1>3 DEF Preferring

\* What a search adds to the candidates.
LEMMA FetchAdds ==
  ASSUME SearchInv, (\E r, v \in Rankings : FetchFinds(r, v)) \/ FetchFails
  PROVE  \E new \in SUBSET AllControls :
            /\ Fetch(new) /\ Head(fetches) \in Fetches
            /\ Head(fetches) = fetches[1] /\ 1 \in DOMAIN fetches
            /\ fetches[1].framework # AnyFramework => \A c \in new : c.framework = fetches[1].framework
<1>1. fetches # <<>>
  BY DEF FetchFinds, FetchFails, Fetch
<1>2. Head(fetches) \in Fetches /\ Head(fetches) = fetches[1] /\ 1 \in DOMAIN fetches
  BY <1>1 DEF SearchInv, SearchTypeOK
<1>3. CASE FetchFails
  BY <1>2, <1>3 DEF FetchFails
<1>4. CASE \E r, v \in Rankings : FetchFinds(r, v)
  <2>1. PICK r \in Rankings, v \in Rankings : FetchFinds(r, v)
    BY <1>4
  <2>2. Fetch(Fused(Slice(r, Head(fetches)), Slice(v, Head(fetches))))
    BY <2>1 DEF FetchFinds
  <2> QED  BY <2>2, <1>2, SliceIsThrough
<1> QED  BY <1>3, <1>4

LEMMA BestAreSome == ASSUME NEW S, NEW c \in BestOf(S) PROVE c \in S /\ \A d \in S : ~Before(d, c)
  BY DEF BestOf

LEMMA MergedAre == ASSUME NEW S, NEW T PROVE S \subseteq MergeInto(S, T) /\ MergeInto(S, T) \subseteq S \cup T
  BY DEF MergeInto

LEMMA PreferredFetchesTyped ==
  ASSUME inquiry \in Inquiries, NEW w, w = Wordings(inquiry.preferred, PerFramework, inquiry.wordings + inquiry.more)
  PROVE  w \in Seq(Fetches) /\ \A i \in DOMAIN w : w[i].framework = inquiry.preferred
<1> DEFINE n == inquiry.wordings + inquiry.more
<1>1. n \in Nat /\ PerFramework \in Nat
  BY SearchBounds DEF PerFramework, AtLeast
<1>2. w = [i \in 1..n |-> [framework |-> inquiry.preferred, top |-> PerFramework]]
  BY DEF Wordings
<1>3. [framework |-> inquiry.preferred, top |-> PerFramework] \in Fetches
  BY <1>1 DEF Fetches
<1> HIDE DEF n
<1> QED  BY <1>1, <1>2, <1>3

LEMMA SearchTyped ==
  ASSUME SearchInv, [SearchNext]_inquiryVars PROVE SearchTypeOK'
<1> USE DEF SearchTypeOK, SearchStages
<1>0. SearchTypeOK /\ inquiry' = inquiry /\ Fetches' = Fetches
  BY QuestionStays DEF SearchInv
<1>1. CASE (\E r, v \in Rankings : FetchFinds(r, v)) \/ FetchFails
  <2>1. PICK new \in SUBSET AllControls : Fetch(new)
    BY <1>1, FetchAdds
  <2>2. fetches' \in Seq(Fetches)
    BY <1>0, <2>1 DEF Fetch
  <2> QED  BY <1>0, <2>1, <2>2, MergedAre DEF Fetch
<1>2. CASE StartPicking
  BY <1>0, <1>2 DEF StartPicking
<1>3. CASE Pick
  <2>1. PICK c \in BestOf(unseen) : /\ unseen' = unseen \ {c}
                                    /\ \/ passed' = passed \cup {c} /\ picked' = picked
                                       \/ picked' = Append(picked, c) /\ passed' = passed
    BY <1>3 DEF Pick
  <2>2. c \in AllControls
    BY <1>0, <2>1, BestAreSome
  <2>3. picked' \in Seq(AllControls)
    BY <1>0, <2>1, <2>2, Appended
  <2> QED  BY <1>0, <1>3, <2>1, <2>2, <2>3 DEF Pick
<1>4. CASE FillUp
  BY <1>0, <1>4 DEF FillUp
<1>5. CASE EndPicking
  BY <1>0, <1>5, PreferredFetchesTyped DEF EndPicking
<1>6. CASE PickAgain
  <2>1. Within(picked) \subseteq AllControls
    BY <1>0 DEF Within
  <2>2. <<>> \in Seq(AllControls) /\ MergeInto(Within(picked), extra) \subseteq AllControls
    BY <1>0, <2>1, MergedAre
  <2> QED  BY <1>0, <1>6, <2>2 DEF PickAgain
<1>7. CASE BackfillPreferred
  <2>1. picked' \in Seq(AllControls)
    <3>1. CASE picked # <<>> /\ ~HasPreferred(picked)
      <4>1. PICK c \in PreferredLeft : picked' = IF Acceptable(c) THEN [picked EXCEPT ![Len(picked)] = c] ELSE picked
        BY <1>7, <3>1 DEF BackfillPreferred
      <4>2. c \in AllControls
        BY <1>0, <4>1, BestAreSome DEF PreferredLeft
      <4>3. Len(picked) \in 1..Len(picked)
        BY <1>0, <3>1
      <4>4. [picked EXCEPT ![Len(picked)] = c] \in Seq(AllControls)
        BY <1>0, <4>2, <4>3, ExceptSeq
      <4> QED  BY <1>0, <4>1, <4>4
    <3> QED  BY <1>0, <1>7, <3>1 DEF BackfillPreferred
  <2> QED  BY <1>0, <1>7, <2>1 DEF BackfillPreferred
<1>8. CASE DedupeIds
  BY <1>0, <1>8 DEF DedupeIds
<1>9. CASE UNCHANGED inquiryVars
  BY <1>0, <1>9 DEF inquiryVars
<1> QED  BY <1>1, <1>2, <1>3, <1>4, <1>5, <1>6, <1>7, <1>8, <1>9 DEF SearchNext

LEMMA TailIsRest ==
  ASSUME NEW S, NEW s \in Seq(S), s # <<>>
  PROVE  \A i \in DOMAIN Tail(s) : i + 1 \in DOMAIN s /\ Tail(s)[i] = s[i + 1]
  OBVIOUS

LEMMA SearchKeepsScope ==
  ASSUME SearchInv, [SearchNext]_inquiryVars PROVE SearchScope'
<1> USE DEF SearchScope
<1>0. /\ SearchScope /\ fetches \in Seq(Fetches) /\ searchStage \in SearchStages /\ inquiry \in Inquiries
      /\ inquiry' = inquiry /\ FilterFor' = FilterFor /\ (Preferring' <=> Preferring)
  BY QuestionStays DEF SearchInv, SearchTypeOK
<1>1. CASE (\E r, v \in Rankings : FetchFinds(r, v)) \/ FetchFails
  <2>1. PICK new \in SUBSET AllControls :
            /\ Fetch(new) /\ 1 \in DOMAIN fetches
            /\ fetches[1].framework # AnyFramework => \A c \in new : c.framework = fetches[1].framework
    BY <1>1, FetchAdds
  <2>2. fetches' = Tail(fetches) /\ fetches # <<>> /\ searchStage' = searchStage
    BY <2>1 DEF Fetch
  <2>3. \A i \in DOMAIN fetches' : i + 1 \in DOMAIN fetches /\ fetches'[i] = fetches[i + 1]
    BY <1>0, <2>2, TailIsRest
  <2>4. CASE searchStage = "search"
    <3>1. extra' = extra /\ passed' = passed /\ picked' = picked /\ found' = MergeInto(found, new)
      BY <2>1, <2>4 DEF Fetch
    <3>2. found' \subseteq found \cup new
      BY <3>1, MergedAre
    <3>3. FilterFor # AnyFramework => \A c \in found' : c.framework = FilterFor
      BY <1>0, <2>1, <2>4, <3>2
    <3>4. FilterFor # AnyFramework => \A i \in DOMAIN fetches' : fetches'[i].framework = FilterFor
      BY <1>0, <2>3, <2>4
    <3> QED  BY <1>0, <2>2, <2>4, <3>1, <3>3, <3>4
  <2>5. CASE searchStage = "prefer"
    <3>1. found' = found /\ extra' = MergeInto(extra, new)
      BY <2>1, <2>5 DEF Fetch
    <3>2. extra' \subseteq extra \cup new
      BY <3>1, MergedAre
    <3>3. \A c \in extra' : c.framework = inquiry.preferred
      BY <1>0, <2>1, <2>5, <3>2 DEF Preferring
    <3>4. \A i \in DOMAIN fetches' : fetches'[i].framework = inquiry.preferred
      BY <1>0, <2>3, <2>5
    <3> QED  BY <1>0, <2>2, <2>5, <3>1, <3>3, <3>4
  <2> QED  BY <2>1, <2>4, <2>5 DEF Fetch
<1>2. CASE StartPicking
  BY <1>0, <1>2 DEF StartPicking
<1>3. CASE Pick
  BY <1>0, <1>3 DEF Pick
<1>4. CASE FillUp
  BY <1>0, <1>4 DEF FillUp
<1>5. CASE EndPicking
  <2>1. CASE NeedsPreferred
    <3>1. Preferring
      BY <2>1 DEF NeedsPreferred, Preferring
    <3>2. \A i \in DOMAIN fetches' : fetches'[i].framework = inquiry.preferred
      BY <1>0, <1>5, <2>1, PreferredFetchesTyped DEF EndPicking
    <3>3. searchStage' = "prefer" /\ found' = found /\ extra' = extra
      BY <1>5, <2>1 DEF EndPicking
    <3> QED  BY <1>0, <3>1, <3>2, <3>3
  <2>2. CASE ~NeedsPreferred
    BY <1>0, <1>5, <2>2 DEF EndPicking
  <2> QED  BY <2>1, <2>2
<1>6. CASE PickAgain
  BY <1>0, <1>6 DEF PickAgain
<1>7. CASE BackfillPreferred
  BY <1>0, <1>7 DEF BackfillPreferred
<1>8. CASE DedupeIds
  BY <1>0, <1>8 DEF DedupeIds
<1>9. CASE UNCHANGED inquiryVars
  BY <1>0, <1>9 DEF inquiryVars
<1> QED  BY <1>1, <1>2, <1>3, <1>4, <1>5, <1>6, <1>7, <1>8, <1>9 DEF SearchNext

LEMMA LastReplaced ==
  ASSUME NEW S, NEW s \in Seq(S), NEW c \in S, s # <<>>
  PROVE  LET t == [s EXCEPT ![Len(s)] = c]
         IN  /\ t \in Seq(S) /\ Len(t) = Len(s) /\ DOMAIN t = DOMAIN s
             /\ Len(s) \in DOMAIN t /\ t[Len(s)] = c
             /\ Within(t) \subseteq Within(s) \cup {c}
<1> DEFINE t == [s EXCEPT ![Len(s)] = c]
<1>1. Len(s) \in 1..Len(s) /\ DOMAIN s = 1..Len(s)
  OBVIOUS
<1>2. t \in Seq(S) /\ Len(t) = Len(s)
  BY <1>1, ExceptSeq
<1>3. DOMAIN t = DOMAIN s /\ t[Len(s)] = c /\ \A i \in DOMAIN t : t[i] \in Within(s) \cup {c}
  BY <1>1 DEF Within
<1>4. Within(t) \subseteq Within(s) \cup {c}
  BY <1>3 DEF Within
<1> QED  BY <1>1, <1>2, <1>3, <1>4

LEMMA SearchKeepsPicked ==
  ASSUME SearchInv, [SearchNext]_inquiryVars PROVE PickedFromFound'
<1> USE DEF PickedFromFound
<1>0. PickedFromFound /\ SearchTypeOK /\ inquiry' = inquiry /\ inquiry.k \in Nat
  BY QuestionStays, SearchBounds DEF SearchInv, SearchTypeOK
<1>1. CASE (\E r, v \in Rankings : FetchFinds(r, v)) \/ FetchFails
  <2>1. PICK new \in SUBSET AllControls : Fetch(new)
    BY <1>1, FetchAdds
  <2>2. found \subseteq found' /\ extra \subseteq extra'
    BY <2>1, MergedAre DEF Fetch
  <2> QED  BY <1>0, <2>1, <2>2 DEF Fetch
<1>2. CASE StartPicking
  BY <1>0, <1>2 DEF StartPicking
<1>3. CASE Pick
  <2>1. PICK c \in BestOf(unseen) : /\ unseen' = unseen \ {c}
                                    /\ \/ passed' = passed \cup {c} /\ picked' = picked
                                       \/ picked' = Append(picked, c) /\ passed' = passed
    BY <1>3 DEF Pick
  <2>2. c \in AllControls /\ c \in unseen
    BY <1>0, <2>1, BestAreSome DEF SearchTypeOK
  <2>3. Len(picked) < inquiry.k
    BY <1>0, <1>3 DEF Pick, PicksDone, SearchTypeOK
  <2>4. /\ Within(Append(picked, c)) = Within(picked) \cup {c} /\ Len(Append(picked, c)) = Len(picked) + 1
        /\ Len(picked) \in Nat
    BY <1>0, <2>2, Appended DEF SearchTypeOK
  <2>5. Within(picked') \subseteq Within(picked) \cup {c} /\ Len(picked') <= inquiry.k
    <3>1. Len(picked) + 1 <= inquiry.k /\ Len(picked) <= inquiry.k
      BY <1>0, <2>3, <2>4
    <3> QED  BY <2>1, <2>4, <3>1
  <2> QED  BY <1>0, <1>3, <2>1, <2>2, <2>5 DEF Pick
<1>4. CASE FillUp
  BY <1>0, <1>4 DEF FillUp
<1>5. CASE EndPicking
  BY <1>0, <1>5 DEF EndPicking
<1>6. CASE PickAgain
  <2>1. Within(<<>>) = {} /\ Len(<<>>) = 0
    BY DEF Within
  <2> QED  BY <1>0, <1>6, <2>1, MergedAre DEF PickAgain
<1>7. CASE BackfillPreferred
  <2>1. CASE picked # <<>> /\ ~HasPreferred(picked)
    <3>1. PICK c \in PreferredLeft : picked' = IF Acceptable(c) THEN [picked EXCEPT ![Len(picked)] = c] ELSE picked
      BY <1>7, <2>1 DEF BackfillPreferred
    <3>2. c \in AllControls /\ c \in unseen
      BY <1>0, <3>1, BestAreSome DEF PreferredLeft, SearchTypeOK
    <3>3. Within(picked') \subseteq Within(picked) \cup {c} /\ Len(picked') = Len(picked)
      BY <1>0, <2>1, <3>1, <3>2, LastReplaced DEF SearchTypeOK
    <3> QED  BY <1>0, <1>7, <3>2, <3>3 DEF BackfillPreferred
  <2> QED  BY <1>0, <1>7, <2>1 DEF BackfillPreferred
<1>8. CASE DedupeIds
  <2>1. \A i \in DOMAIN picked : IsFirst(picked, i)' <=> IsFirst(picked, i)
    BY <1>8 DEF DedupeIds, IsFirst
  <2>2. picked' = picked /\ result' = {picked[i] : i \in {j \in DOMAIN picked : IsFirst(picked, j)}}
    BY <1>8 DEF DedupeIds
  <2> QED  BY <1>0, <1>8, <2>2 DEF DedupeIds, IsFirst
<1>9. CASE UNCHANGED inquiryVars
  BY <1>0, <1>9 DEF inquiryVars, IsFirst
<1> QED  BY <1>1, <1>2, <1>3, <1>4, <1>5, <1>6, <1>7, <1>8, <1>9 DEF SearchNext

\* How the places of a framework or a family grow.
LEMMA PlacesGrow ==
  ASSUME NEW S, NEW s \in Seq(S), NEW c \in S
  PROVE  /\ \A f : /\ Cardinality(OfFramework(s, f)) \in Nat /\ IsFiniteSet(OfFramework(s, f))
                   /\ Cardinality(OfFramework(s, f)) <= Cardinality(OfFramework(Append(s, c), f))
                   /\ Cardinality(OfFramework(Append(s, c), f)) <= Cardinality(OfFramework(s, f)) + 1
                   /\ f # c.framework => OfFramework(Append(s, c), f) = OfFramework(s, f)
                   /\ Cardinality(OfFramework(Append(s, c), f)) \in Nat
         /\ \A f : /\ Cardinality(OfFamily(s, f)) \in Nat
                   /\ Cardinality(OfFamily(Append(s, c), f)) \in Nat
                   /\ Cardinality(OfFamily(s, f)) <= Cardinality(OfFamily(Append(s, c), f))
<1> DEFINE t == Append(s, c)
           n == Len(s) + 1
<1>1. /\ Len(s) \in Nat /\ DOMAIN s = 1..Len(s) /\ DOMAIN t = 1..n /\ n \notin DOMAIN s /\ t[n] = c
      /\ DOMAIN t = DOMAIN s \cup {n}
      /\ \A i \in DOMAIN s : t[i] = s[i]
  BY Appended
<1>2. IsFiniteSet(DOMAIN s)
  BY <1>1, FS_Interval
<1> HIDE DEF t, n
<1>3. ASSUME NEW f
      PROVE  /\ OfFramework(t, f) = IF c.framework = f THEN OfFramework(s, f) \cup {n} ELSE OfFramework(s, f)
             /\ OfFamily(t, f) = IF c.family = f THEN OfFamily(s, f) \cup {n} ELSE OfFamily(s, f)
             /\ OfFramework(s, f) \subseteq DOMAIN s /\ OfFamily(s, f) \subseteq DOMAIN s
  BY <1>1 DEF OfFramework, OfFamily
<1>4. \A U : U \subseteq DOMAIN s =>
                /\ IsFiniteSet(U) /\ Cardinality(U) \in Nat
                /\ Cardinality(U \cup {n}) = Cardinality(U) + 1
  <2> SUFFICES ASSUME NEW U, U \subseteq DOMAIN s
               PROVE  /\ IsFiniteSet(U) /\ Cardinality(U) \in Nat
                      /\ Cardinality(U \cup {n}) = Cardinality(U) + 1
    OBVIOUS
  <2>1. IsFiniteSet(U) /\ n \notin U
    BY <1>1, <1>2, FS_Subset
  <2> QED  BY <2>1, FS_CardinalityType, FS_AddElement
<1>5. ASSUME NEW f
      PROVE  /\ Cardinality(OfFramework(s, f)) \in Nat /\ IsFiniteSet(OfFramework(s, f))
             /\ Cardinality(OfFramework(s, f)) <= Cardinality(OfFramework(t, f))
             /\ Cardinality(OfFramework(t, f)) <= Cardinality(OfFramework(s, f)) + 1
             /\ f # c.framework => OfFramework(t, f) = OfFramework(s, f)
             /\ Cardinality(OfFramework(t, f)) \in Nat
  <2> DEFINE U == OfFramework(s, f)
  <2>1. IsFiniteSet(U) /\ Cardinality(U) \in Nat /\ Cardinality(U \cup {n}) = Cardinality(U) + 1
    BY <1>3, <1>4
  <2>2. OfFramework(t, f) = IF c.framework = f THEN U \cup {n} ELSE U
    BY <1>3
  <2> HIDE DEF U
  <2>3. /\ Cardinality(U) <= Cardinality(OfFramework(t, f)) /\ Cardinality(OfFramework(t, f)) <= Cardinality(U) + 1
        /\ Cardinality(OfFramework(t, f)) \in Nat
    BY <2>1, <2>2
  <2> QED  BY <2>1, <2>2, <2>3 DEF U
<1>6. ASSUME NEW f
      PROVE  /\ Cardinality(OfFamily(s, f)) \in Nat /\ Cardinality(OfFamily(t, f)) \in Nat
             /\ Cardinality(OfFamily(s, f)) <= Cardinality(OfFamily(t, f))
  <2> DEFINE U == OfFamily(s, f)
  <2>1. Cardinality(U) \in Nat /\ Cardinality(U \cup {n}) = Cardinality(U) + 1
    BY <1>3, <1>4
  <2>2. OfFamily(t, f) = IF c.family = f THEN U \cup {n} ELSE U
    BY <1>3
  <2> HIDE DEF U
  <2>3. Cardinality(U) <= Cardinality(OfFamily(t, f)) /\ Cardinality(OfFamily(t, f)) \in Nat
    BY <2>1, <2>2
  <2> QED  BY <2>1, <2>3 DEF U
<1> QED  BY <1>5, <1>6 DEF t

LEMMA HalfIsSome ==
  ASSUME inquiry \in Inquiries
  PROVE  Half \in Nat /\ Half >= 1 /\ inquiry.k \in Nat /\ (inquiry.k >= 2 => Half < inquiry.k)
  BY SearchBounds DEF Half, AtLeast

LEMMA SearchSpreads ==
  ASSUME SearchInv, [SearchNext]_inquiryVars PROVE SpreadSoFar'
<1> USE DEF SpreadSoFar
<1>0. /\ SpreadSoFar /\ SearchTypeOK /\ inquiry' = inquiry /\ (Diverse' <=> Diverse) /\ Half' = Half
      /\ Half \in Nat /\ Half >= 1
  BY QuestionStays, HalfIsSome DEF SearchInv, SearchTypeOK
<1> SUFFICES ASSUME searchStage' = "pick", Diverse
             PROVE  /\ found' = unseen' \cup passed' \cup Within(picked')
                    /\ \A c \in AllControls : Cardinality(OfFramework(picked', c.framework)) <= Half
                    /\ \A c \in passed' : Crowded(c)'
  BY <1>0
<1>1. CASE (\E r, v \in Rankings : FetchFinds(r, v)) \/ FetchFails
  BY <1>1 DEF FetchFinds, FetchFails, Fetch
<1>2. CASE StartPicking
  <2>1. /\ passed = {} /\ picked = <<>> /\ unseen' = found /\ found' = found /\ picked' = picked /\ passed' = passed
    BY <1>2 DEF StartPicking, SearchInv, SearchScope
  <2>2. Within(<<>>) = {} /\ \A f : OfFramework(<<>>, f) = {}
    BY DEF Within, OfFramework
  <2>3. \A f : OfFramework(picked', f) = {}
    BY <2>1, <2>2
  <2>4. \A f : Cardinality(OfFramework(picked', f)) <= Half
    BY <1>0, <2>3, FS_EmptySet
  <2>5. Within(picked') = {} /\ passed' = {}
    BY <2>1, <2>2
  <2> QED  BY <2>1, <2>4, <2>5
<1>3. CASE Pick
  <2>1. /\ searchStage = "pick" /\ found' = found
        /\ \E c \in BestOf(unseen) :
              /\ unseen' = unseen \ {c}
              /\ IF Crowded(c) THEN passed' = passed \cup {c} /\ picked' = picked
                 ELSE picked' = Append(picked, c) /\ passed' = passed
    BY <1>3 DEF Pick
  <2>2. PICK c \in BestOf(unseen) :
              /\ unseen' = unseen \ {c}
              /\ IF Crowded(c) THEN passed' = passed \cup {c} /\ picked' = picked
                 ELSE picked' = Append(picked, c) /\ passed' = passed
    BY <2>1
  <2>3. c \in AllControls /\ c \in unseen
    BY <1>0, <2>2, BestAreSome DEF SearchTypeOK
  <2>4. CASE Crowded(c)
    BY <1>0, <2>1, <2>2, <2>3, <2>4 DEF Crowded
  <2>5. CASE ~Crowded(c)
    <3>1. picked' = Append(picked, c) /\ passed' = passed
      BY <2>2, <2>5
    <3>2. /\ \A f : /\ Cardinality(OfFramework(picked, f)) \in Nat
                    /\ Cardinality(OfFramework(picked, f)) <= Cardinality(OfFramework(picked', f))
                    /\ Cardinality(OfFramework(picked', f)) <= Cardinality(OfFramework(picked, f)) + 1
                    /\ f # c.framework => OfFramework(picked', f) = OfFramework(picked, f)
                    /\ Cardinality(OfFramework(picked', f)) \in Nat
          /\ \A f : /\ Cardinality(OfFamily(picked, f)) \in Nat /\ Cardinality(OfFamily(picked', f)) \in Nat
                    /\ Cardinality(OfFamily(picked, f)) <= Cardinality(OfFamily(picked', f))
          /\ Within(picked') = Within(picked) \cup {c}
      <4>1. picked \in Seq(AllControls) /\ c \in AllControls
        BY <1>0, <2>3 DEF SearchTypeOK
      <4>2. Within(picked') = Within(picked) \cup {c}
        BY <3>1, <4>1, Appended
      <4> QED  BY <3>1, <4>1, <4>2, PlacesGrow
    <3>3. Cardinality(OfFramework(picked, c.framework)) < Half
      <4>1. ~(Cardinality(OfFramework(picked, c.framework)) >= Half)
        BY <2>5 DEF Crowded
      <4> QED  BY <1>0, <3>2, <4>1
    <3>4. ASSUME NEW d \in AllControls PROVE Cardinality(OfFramework(picked', d.framework)) <= Half
      <4>1. CASE d.framework = c.framework
        BY <1>0, <3>2, <3>3, <4>1
      <4>2. CASE d.framework # c.framework
        BY <1>0, <2>1, <3>2, <4>2
      <4> QED  BY <4>1, <4>2
    <3>5. ASSUME NEW d \in passed' PROVE Crowded(d)'
      <4>1. Crowded(d)
        BY <1>0, <2>1, <3>1, <3>5
      <4>2. CASE Cardinality(OfFramework(picked, d.framework)) >= Half
        <5>1. Cardinality(OfFramework(picked', d.framework)) >= Half
          BY <1>0, <3>2, <4>2
        <5> QED  BY <1>0, <5>1 DEF Crowded
      <4>3. CASE d.family # "" /\ Cardinality(OfFamily(picked, d.family)) >= Half
        <5>0. /\ Cardinality(OfFamily(picked, d.family)) \in Nat /\ Cardinality(OfFamily(picked', d.family)) \in Nat
              /\ Cardinality(OfFamily(picked, d.family)) <= Cardinality(OfFamily(picked', d.family))
          BY <3>2
        <5>1. Cardinality(OfFamily(picked', d.family)) >= Half
          <6>1. \A x, y \in Nat : x <= y /\ x >= Half => y >= Half
            BY <1>0
          <6>2. Cardinality(OfFamily(picked, d.family)) >= Half
            BY <4>3
          <6> QED  BY <5>0, <6>1, <6>2
        <5> QED  BY <1>0, <4>3, <5>1 DEF Crowded
      <4> QED  BY <4>1, <4>2, <4>3 DEF Crowded
    <3>6. found' = unseen' \cup passed' \cup Within(picked')
      BY <1>0, <2>1, <2>2, <2>3, <3>1, <3>2
    <3> QED  BY <3>4, <3>5, <3>6
  <2> QED  BY <2>4, <2>5
<1>4. CASE FillUp \/ EndPicking \/ PickAgain \/ BackfillPreferred \/ DedupeIds
  BY <1>4 DEF FillUp, EndPicking, PickAgain, BackfillPreferred, DedupeIds
<1>5. CASE UNCHANGED inquiryVars
  BY <1>0, <1>5 DEF inquiryVars, Crowded
<1> QED  BY <1>1, <1>2, <1>3, <1>4, <1>5 DEF SearchNext

\* When picking by turns ends, what is passed over shares the framework or the
\* family of what has all the places.
LEMMA SpreadEnds ==
  ASSUME SearchInv, searchStage = "pick", Diverse, inquiry.k >= 2, PicksDone
  PROVE  Spans(picked)
<1>1. /\ found = unseen \cup passed \cup Within(picked) /\ found \subseteq AllControls
      /\ \A c \in AllControls : Cardinality(OfFramework(picked, c.framework)) <= Half
      /\ \A c \in passed : Crowded(c)
      /\ picked \in Seq(AllControls)
  BY DEF SearchInv, SpreadSoFar, SearchTypeOK
<1>2. Half \in Nat /\ Half >= 1 /\ inquiry.k \in Nat /\ Half < inquiry.k
  BY HalfIsSome DEF SearchInv, SearchTypeOK
<1> DEFINE n == Len(picked)
<1>3. /\ n \in Nat /\ DOMAIN picked = 1..n /\ IsFiniteSet(DOMAIN picked) /\ Cardinality(DOMAIN picked) = n
  BY <1>1, FS_Interval
<1>4. \A U : U \subseteq DOMAIN picked => /\ IsFiniteSet(U) /\ Cardinality(U) \in Nat
                                          /\ Cardinality(U) = n => U = DOMAIN picked
                                          /\ Cardinality(U) <= n
                                          /\ Cardinality(U) >= 1 => U # {}
  BY <1>3, FS_Subset, FS_CardinalityType, FS_EmptySet
<1> SUFFICES ASSUME \A i, j \in DOMAIN picked : picked[i].framework = picked[j].framework
             PROVE  \A c \in found : /\ picked # <<>>
                                     /\ \/ \E i \in DOMAIN picked : picked[i].framework = c.framework
                                        \/ picked[1].family = c.family /\ c.family # ""
  BY DEF Spans
<1>5. n <= Half
  <2>1. CASE n = 0
    BY <2>1, <1>2
  <2>2. CASE n # 0
    <3>1. 1 \in DOMAIN picked
      BY <2>2, <1>3
    <3>2. OfFramework(picked, picked[1].framework) = DOMAIN picked
      BY <3>1 DEF OfFramework
    <3>3. picked[1] \in AllControls
      BY <3>1, <1>1
    <3> QED  BY <3>2, <3>3, <1>1, <1>3
  <2> QED  BY <2>1, <2>2
<1>6. unseen = {}
  BY <1>2, <1>3, <1>5 DEF PicksDone
<1>7. ASSUME NEW c \in found
      PROVE  /\ picked # <<>>
             /\ \/ \E i \in DOMAIN picked : picked[i].framework = c.framework
                \/ picked[1].family = c.family /\ c.family # ""
  <2>1. CASE c \in Within(picked)
    <3>1. PICK i \in DOMAIN picked : c = picked[i]
      BY <2>1 DEF Within
    <3>2. picked # <<>>
      BY <3>1, <1>3
    <3> QED  BY <3>1, <3>2
  <2>2. CASE c \in passed
    <3>1. CASE Cardinality(OfFramework(picked, c.framework)) >= Half
      <4>1. OfFramework(picked, c.framework) \subseteq DOMAIN picked
        BY DEF OfFramework
      <4>2. OfFramework(picked, c.framework) # {}
        BY <3>1, <4>1, <1>2, <1>4
      <4>3. PICK i \in DOMAIN picked : picked[i].framework = c.framework
        BY <4>2 DEF OfFramework
      <4>4. picked # <<>>
        BY <4>3, <1>3
      <4> QED  BY <4>3, <4>4
    <3>2. CASE c.family # "" /\ Cardinality(OfFamily(picked, c.family)) >= Half
      <4>1. OfFamily(picked, c.family) \subseteq DOMAIN picked
        BY DEF OfFamily
      <4>2. Cardinality(OfFamily(picked, c.family)) \in Nat /\ Cardinality(OfFamily(picked, c.family)) <= n
        BY <4>1, <1>4
      <4>3. Cardinality(OfFamily(picked, c.family)) >= Half
        BY <3>2
      <4>4. Cardinality(OfFamily(picked, c.family)) = n /\ n >= 1
        BY <4>2, <4>3, <1>2, <1>3, <1>5
      <4>5. OfFamily(picked, c.family) = DOMAIN picked /\ 1 \in DOMAIN picked
        BY <4>1, <4>4, <1>3, <1>4
      <4>6. picked[1].family = c.family /\ picked # <<>>
        BY <4>5, <1>3 DEF OfFamily
      <4> QED  BY <3>2, <4>6
    <3> QED  BY <2>2, <3>1, <3>2, <1>1 DEF Crowded
  <2> QED  BY <2>1, <2>2, <1>1, <1>6
<1> QED  BY <1>7

LEMMA SpreadStays ==
  ASSUME SearchInv, [SearchNext]_inquiryVars PROVE SpreadIsKept'
<1>0. /\ SpreadIsKept /\ SearchTypeOK /\ SearchScope /\ inquiry' = inquiry /\ (Diverse' <=> Diverse)
  BY QuestionStays DEF SearchInv
<1> SUFFICES ASSUME searchStage' \in {"fill", "dedupe", "done"}, Diverse, inquiry.k >= 2
             PROVE  Spans(picked)'
  BY <1>0 DEF SpreadIsKept
<1>1. found' = found /\ picked' = picked /\ Spans(picked) => Spans(picked)'
  BY DEF Spans
<1>2. CASE (\E r, v \in Rankings : FetchFinds(r, v)) \/ FetchFails \/ StartPicking
  BY <1>2 DEF FetchFinds, FetchFails, Fetch, StartPicking
<1>3. CASE Pick
  <2>1. searchStage = "fill" /\ found' = found /\ \E c \in BestOf(unseen) : picked' = Append(picked, c)
    BY <1>3 DEF Pick
  <2>2. PICK c \in BestOf(unseen) : picked' = Append(picked, c)
    BY <2>1
  <2>3. c \in AllControls /\ picked \in Seq(AllControls)
    BY <1>0, <2>2, BestAreSome DEF SearchTypeOK
  <2>4. picked' # <<>> /\ \A i \in DOMAIN picked : i \in DOMAIN picked' /\ picked'[i] = picked[i]
    BY <2>2, <2>3, Appended
  <2>5. Spans(picked)
    BY <1>0, <2>1 DEF SpreadIsKept
  <2>6. picked # <<>> => 1 \in DOMAIN picked
    BY <2>3
  <2>7. CASE \E i, j \in DOMAIN picked : picked[i].framework # picked[j].framework
    BY <2>4, <2>7 DEF Spans
  <2>8. CASE \A d \in found : /\ picked # <<>>
                        /\ \/ \E i \in DOMAIN picked : picked[i].framework = d.framework
                           \/ picked[1].family = d.family /\ d.family # ""
    BY <2>1, <2>4, <2>6, <2>8 DEF Spans
  <2> QED  BY <2>5, <2>7, <2>8 DEF Spans
<1>4. CASE FillUp \/ EndPicking
  <2>1. /\ searchStage \in {"pick", "fill"} /\ PicksDone /\ found' = found /\ picked' = picked
    BY <1>4 DEF FillUp, EndPicking
  <2>2. Spans(picked)
    BY <1>0, <2>1, SpreadEnds DEF SpreadIsKept
  <2> QED  BY <1>1, <2>1, <2>2
<1>5. CASE PickAgain \/ BackfillPreferred
  BY <1>0, <1>5 DEF PickAgain, BackfillPreferred, SearchScope, Preferring
<1>6. CASE DedupeIds
  BY <1>0, <1>1, <1>6 DEF DedupeIds, SpreadIsKept
<1>7. CASE UNCHANGED inquiryVars
  BY <1>0, <1>1, <1>7 DEF inquiryVars, SpreadIsKept
<1> QED  BY <1>2, <1>3, <1>4, <1>5, <1>6, <1>7 DEF SearchNext

\* Without words to count the preferred framework comes first.
LEMMA PreferredFirst ==
  ASSUME NEW S, NEW c \in BestOf(S), NEW e \in S,
         ~inquiry.words, inquiry.preferred # AnyFramework, e.framework = inquiry.preferred
  PROVE  c.framework = inquiry.preferred
<1>1. ~Before(e, c)
  BY BestAreSome
<1>2. Overlap(c) = 0 /\ Overlap(e) = 0 /\ Disliked(e) = 0
  BY DEF Overlap, Disliked
<1>3. Disliked(c) # 1
  BY <1>1, <1>2 DEF Before
<1> QED  BY <1>3 DEF Disliked

LEMMA PreferredStays ==
  ASSUME SearchInv, [SearchNext]_inquiryVars PROVE PreferredSoFar'
<1>0. /\ PreferredSoFar /\ SearchTypeOK /\ SearchScope /\ inquiry' = inquiry /\ (Preferring' <=> Preferring)
      /\ inquiry.k \in Nat
  BY QuestionStays, SearchBounds DEF SearchInv, SearchTypeOK
<1>h. picked' = picked => (HasPreferred(picked)' <=> HasPreferred(picked))
  BY <1>0 DEF HasPreferred
<1>u. extra' = extra => (Unfit' <=> Unfit)
  BY <1>0 DEF Unfit, BestOf, Before, Overlap, Disliked
<1>1. CASE (\E r, v \in Rankings : FetchFinds(r, v)) \/ FetchFails
  BY <1>0, <1>1, <1>h DEF FetchFinds, FetchFails, Fetch, PreferredSoFar
<1>2. CASE StartPicking
  BY <1>2 DEF StartPicking, PreferredSoFar
<1>3. CASE Pick
  <2>1. searchStage' = searchStage /\ searchStage \in {"pick", "fill", "repick"} /\ extra' = extra
    BY <1>3 DEF Pick
  <2>2. SUFFICES ASSUME searchStage = "repick"
                 PROVE  /\ extra' # {} /\ extra' \subseteq unseen' \cup Within(picked')
                        /\ \A c \in unseen' : c.framework = inquiry.preferred => c \in extra'
                        /\ ~inquiry.words /\ picked' # <<>> => HasPreferred(picked)'
    BY <1>0, <2>1 DEF PreferredSoFar
  <2>3. PICK c \in BestOf(unseen) : unseen' = unseen \ {c} /\ picked' = Append(picked, c)
    BY <1>3, <2>2 DEF Pick
  <2>4. c \in unseen /\ c \in AllControls /\ picked \in Seq(AllControls)
    BY <1>0, <2>3, BestAreSome DEF SearchTypeOK
  <2>5. /\ extra # {} /\ extra \subseteq unseen \cup Within(picked)
        /\ \A d \in unseen : d.framework = inquiry.preferred => d \in extra
        /\ ~inquiry.words /\ picked # <<>> => HasPreferred(picked)
        /\ \A d \in extra : d.framework = inquiry.preferred
        /\ inquiry.preferred # AnyFramework
    BY <1>0, <2>2 DEF PreferredSoFar, SearchScope, Preferring
  <2>6. /\ Within(picked') = Within(picked) \cup {c} /\ Len(picked) + 1 \in DOMAIN picked'
        /\ picked'[Len(picked) + 1] = c
        /\ \A i \in DOMAIN picked : i \in DOMAIN picked' /\ picked'[i] = picked[i]
    BY <2>3, <2>4, Appended
  <2>7. ASSUME ~inquiry.words PROVE HasPreferred(picked)'
    <3>1. CASE picked = <<>>
      <4>1. Within(picked) = {}
        BY <3>1 DEF Within
      <4>2. PICK e \in unseen : e.framework = inquiry.preferred
        BY <2>5, <4>1
      <4>3. c.framework = inquiry.preferred
        BY <2>3, <2>5, <2>7, <4>2, PreferredFirst
      <4> QED  BY <1>0, <2>6, <4>3 DEF HasPreferred
    <3>2. CASE picked # <<>>
      BY <1>0, <2>5, <2>6, <2>7, <3>2 DEF HasPreferred
    <3> QED  BY <3>1, <3>2
  <2> QED  BY <2>1, <2>3, <2>4, <2>5, <2>6, <2>7
<1>4. CASE FillUp
  BY <1>4 DEF FillUp, PreferredSoFar
<1>5. CASE EndPicking
  <2>1. CASE NeedsPreferred
    BY <1>5, <1>h, <2>1 DEF EndPicking, PreferredSoFar, NeedsPreferred
  <2>2. CASE ~NeedsPreferred
    <3>1. Preferring => HasPreferred(picked)
      BY <2>2 DEF NeedsPreferred, Preferring
    <3> QED  BY <1>0, <1>5, <1>h, <2>2, <3>1 DEF EndPicking, PreferredSoFar
  <2> QED  BY <2>1, <2>2
<1>6. CASE PickAgain
  <2>1. ~HasPreferred(picked) /\ extra' = extra
    BY <1>0, <1>6 DEF PickAgain, PreferredSoFar
  <2>2. CASE extra = {}
    BY <1>6, <2>1, <2>2 DEF PickAgain, PreferredSoFar
  <2>3. CASE extra # {}
    <3>1. searchStage' = "repick" /\ unseen' = MergeInto(Within(picked), extra) /\ picked' = <<>>
      BY <1>6, <2>3 DEF PickAgain
    <3>2. \A c \in Within(picked) : c.framework # inquiry.preferred
      BY <2>1 DEF HasPreferred, Within
    <3>3. \A c \in extra : c.framework = inquiry.preferred
      BY <1>0 DEF SearchScope
    <3>4. extra \subseteq unseen' /\ \A c \in unseen' : c.framework = inquiry.preferred => c \in extra
      BY <3>1, <3>2, <3>3 DEF MergeInto, Same
    <3> QED  BY <1>0, <2>1, <2>3, <3>1, <3>4 DEF PreferredSoFar
  <2> QED  BY <2>2, <2>3
<1>7. CASE BackfillPreferred
  <2>1. /\ searchStage = "repick" /\ PicksDone /\ searchStage' = "dedupe" /\ extra' = extra
    BY <1>7 DEF BackfillPreferred
  <2>2. /\ extra # {} /\ extra \subseteq unseen \cup Within(picked)
        /\ \A d \in unseen : d.framework = inquiry.preferred => d \in extra
        /\ ~inquiry.words /\ picked # <<>> => HasPreferred(picked)
        /\ \A d \in extra : d.framework = inquiry.preferred
        /\ picked \in Seq(AllControls) /\ extra \subseteq AllControls
    BY <1>0, <2>1 DEF PreferredSoFar, SearchScope, SearchTypeOK
  <2>3. SUFFICES ASSUME inquiry.k > 0 PROVE HasPreferred(picked)' \/ Unfit
    BY <1>0, <1>u, <2>1 DEF PreferredSoFar
  <2>4. picked # <<>>
    <3>1. SUFFICES ASSUME picked = <<>> PROVE FALSE
      OBVIOUS
    <3>2. Len(picked) = 0 /\ Within(picked) = {}
      BY <3>1 DEF Within
    <3> QED  BY <1>0, <2>1, <2>2, <2>3, <3>2 DEF PicksDone
  <2>5. CASE HasPreferred(picked)
    BY <1>7, <1>h, <2>4, <2>5 DEF BackfillPreferred
  <2>6. CASE ~HasPreferred(picked)
    <3>1. PICK c \in PreferredLeft : picked' = IF Acceptable(c) THEN [picked EXCEPT ![Len(picked)] = c] ELSE picked
      BY <1>7, <2>4, <2>6 DEF BackfillPreferred
    <3>2. \A d \in Within(picked) : d.framework # inquiry.preferred
      BY <2>6 DEF HasPreferred, Within
    <3>3. {d \in unseen : d.framework = inquiry.preferred} = extra
      BY <2>2, <3>2
    <3>4. c \in BestOf(extra) /\ c \in extra /\ c \in AllControls /\ c.framework = inquiry.preferred
      BY <2>2, <3>1, <3>3, BestAreSome DEF PreferredLeft
    <3>5. CASE Acceptable(c)
      <4>1. picked' = [picked EXCEPT ![Len(picked)] = c]
        BY <3>1, <3>5
      <4>2. Len(picked) \in DOMAIN picked' /\ picked'[Len(picked)] = c
        BY <2>2, <2>4, <3>4, <4>1, LastReplaced
      <4> QED  BY <1>0, <3>4, <4>2 DEF HasPreferred
    <3>6. CASE ~Acceptable(c)
      <4>1. c.overlap \in Nat /\ c.score \in Nat
        BY <3>4, SearchBounds
      <4>2. inquiry.words
        BY <2>2, <2>4, <2>6
      <4>3. c.overlap = 0 \/ c.score < 5
        BY <3>6, <4>1, <4>2 DEF Acceptable, Overlap
      <4> QED  BY <3>4, <4>2, <4>3 DEF Unfit
    <3> QED  BY <3>5, <3>6
  <2> QED  BY <2>5, <2>6
<1>8. CASE DedupeIds
  BY <1>0, <1>8, <1>h, <1>u DEF DedupeIds, PreferredSoFar
<1>9. CASE UNCHANGED inquiryVars
  BY <1>0, <1>9, <1>h, <1>u DEF inquiryVars, PreferredSoFar
<1> QED  BY <1>1, <1>2, <1>3, <1>4, <1>5, <1>6, <1>7, <1>8, <1>9 DEF SearchNext

\* The inductive invariant holds for any controls, rankings and questions.
THEOREM SearchInvariant == SearchSpec => []SearchInv
<1>1. SearchInit => SearchInv
  BY SearchStarts
<1>2. SearchInv /\ [SearchNext]_inquiryVars => SearchInv'
  BY SearchTyped, SearchKeepsScope, SearchKeepsPicked, SearchSpreads, SpreadStays, PreferredStays DEF SearchInv
<1> QED  BY <1>1, <1>2, PTL DEF SearchSpec

\* What is left of equal ids has the framework of all of them.
LEMMA FrameworksStay ==
  ASSUME SearchInv, searchStage = "done", NEW i \in DOMAIN picked
  PROVE  \E c \in result : c.framework = picked[i].framework
<1>1. /\ result = {picked[j] : j \in {h \in DOMAIN picked : IsFirst(picked, h)}}
      /\ picked \in Seq(AllControls)
  BY DEF SearchInv, PickedFromFound, SearchTypeOK
<1>2. CASE picked[i].id = ""
  BY <1>1, <1>2 DEF IsFirst
<1>3. CASE picked[i].id # ""
  <2> DEFINE T == {j \in DOMAIN picked : picked[j].id = picked[i].id}
  <2>1. T \in SUBSET Nat /\ i \in T
    BY <1>1
  <2>2. PICK n \in T : \A m \in T : n <= m
    BY <2>1, LeastPlace
  <2>3. n \in DOMAIN picked /\ n \in Nat /\ picked[n].id = picked[i].id
    BY <2>1, <2>2
  <2>4. \A j \in 1..(n - 1) : picked[j].id # picked[n].id
    <3>1. SUFFICES ASSUME NEW j \in 1..(n - 1), picked[j].id = picked[n].id PROVE FALSE
      OBVIOUS
    <3>2. j \in DOMAIN picked /\ j < n
      BY <1>1, <2>3
    <3>3. j \in T
      BY <2>3, <3>1, <3>2
    <3> QED  BY <2>2, <2>3, <3>2, <3>3
  <2>5. picked[n] \in result
    BY <1>1, <2>3, <2>4 DEF IsFirst
  <2>6. picked[n] \in AllControls /\ picked[i] \in AllControls
    BY <1>1, <2>3
  <2>7. picked[n].framework = picked[i].framework
    BY <1>3, <2>3, <2>6, IdsNameFrameworks
  <2> QED  BY <2>5, <2>7
<1> QED  BY <1>2, <1>3

LEMMA FitFollows == SearchInv => ControlsFitTheQuestion
<1> SUFFICES ASSUME SearchInv, searchStage = "done"
             PROVE  /\ Cardinality(result) <= inquiry.k
                    /\ \A c, d \in result : c.id = d.id /\ c.id # "" => c = d
                    /\ inquiry.explicit # AnyFramework => \A c \in result : c.framework = inquiry.explicit
  BY DEF ControlsFitTheQuestion
<1> DEFINE firsts == {j \in DOMAIN picked : IsFirst(picked, j)}
<1>1. /\ result = {picked[j] : j \in firsts}
      /\ picked \in Seq(AllControls) /\ Len(picked) <= inquiry.k /\ inquiry.k \in Nat
      /\ Within(picked) \subseteq found \cup extra
  BY SearchBounds DEF SearchInv, PickedFromFound, SearchTypeOK
<1>2. Cardinality(result) <= inquiry.k
  <2>1. Len(picked) \in Nat /\ firsts \subseteq 1..Len(picked)
    BY <1>1
  <2>2. IsFiniteSet(1..Len(picked)) /\ Cardinality(1..Len(picked)) = Len(picked)
    <3>1. \A n \in Nat : IsFiniteSet(1..n) /\ Cardinality(1..n) = n
      BY FS_Interval
    <3> QED  BY <2>1, <3>1
  <2>3. IsFiniteSet(firsts) /\ Cardinality(firsts) <= Len(picked) /\ Cardinality(firsts) \in Nat
    BY <2>1, <2>2, FS_Subset, FS_CardinalityType
  <2> DEFINE f == [j \in firsts |-> picked[j]]
  <2>4. f \in Surjection(firsts, result)
    BY <1>1 DEF Surjection
  <2>5. IsFiniteSet(result) /\ Cardinality(result) <= Cardinality(firsts)
    BY <2>3, <2>4, FS_Surjection
  <2>6. Cardinality(result) \in Nat
    BY <2>5, FS_CardinalityType
  <2> QED  BY <1>1, <2>1, <2>3, <2>5, <2>6
<1>3. ASSUME NEW c \in result, NEW d \in result, c.id = d.id, c.id # "" PROVE c = d
  <2>1. PICK i \in firsts : c = picked[i]
    BY <1>1
  <2>2. PICK j \in firsts : d = picked[j]
    BY <1>1
  <2>3. /\ i \in Nat /\ j \in Nat /\ i >= 1 /\ j >= 1
        /\ IsFirst(picked, i) /\ IsFirst(picked, j)
    BY <1>1
  <2>4. /\ \A h \in 1..(i - 1) : picked[h].id # c.id
        /\ \A h \in 1..(j - 1) : picked[h].id # c.id
    BY <1>3, <2>1, <2>2, <2>3 DEF IsFirst
  <2>5. i \notin 1..(j - 1) /\ j \notin 1..(i - 1)
    BY <1>3, <2>1, <2>2, <2>4
  <2> QED  BY <2>1, <2>2, <2>3, <2>5
<1>4. ASSUME inquiry.explicit # AnyFramework, NEW c \in result PROVE c.framework = inquiry.explicit
  <2>1. FilterFor = inquiry.explicit
    BY <1>4 DEF FilterFor
  <2>2. extra = {} /\ \A d \in found : d.framework = FilterFor
    BY <1>4, <2>1 DEF SearchInv, SearchScope, Preferring
  <2>3. c \in Within(picked)
    BY <1>1 DEF Within
  <2> QED  BY <1>1, <2>1, <2>2, <2>3
<1> QED  BY <1>2, <1>3, <1>4

LEMMA SpansFollows == SearchInv => ComparisonSpansFrameworks
<1> SUFFICES ASSUME SearchInv, searchStage = "done", Diverse, inquiry.k >= 2,
                    \A c, d \in result : c.framework = d.framework,
                    NEW c \in found
             PROVE  \E d \in result : d.framework = c.framework \/ (d.family = c.family /\ d.family # "")
  BY DEF ComparisonSpansFrameworks
<1>1. /\ Spans(picked) /\ picked \in Seq(AllControls)
      /\ result = {picked[j] : j \in {h \in DOMAIN picked : IsFirst(picked, h)}}
  BY DEF SearchInv, SpreadIsKept, PickedFromFound, SearchTypeOK
<1>2. \A i \in DOMAIN picked : \E d \in result : d.framework = picked[i].framework
  BY FrameworksStay
<1>3. \A i, j \in DOMAIN picked : picked[i].framework = picked[j].framework
  BY <1>2
<1>4. /\ picked # <<>>
      /\ \/ \E i \in DOMAIN picked : picked[i].framework = c.framework
         \/ picked[1].family = c.family /\ c.family # ""
  BY <1>1, <1>3 DEF Spans
<1>5. CASE \E i \in DOMAIN picked : picked[i].framework = c.framework
  BY <1>2, <1>5
<1>6. CASE picked[1].family = c.family /\ c.family # ""
  <2>1. 1 \in DOMAIN picked
    <3>1. picked \in Seq(AllControls) /\ picked # <<>>
      BY <1>1, <1>4
    <3> QED  BY <3>1
  <2>2. IsFirst(picked, 1)
    <3>1. \A h \in 1..(1 - 1) : FALSE
      OBVIOUS
    <3> QED  BY <3>1 DEF IsFirst
  <2>3. picked[1] \in result
    BY <1>1, <2>1, <2>2
  <2> QED  BY <1>6, <2>3
<1> QED  BY <1>4, <1>5, <1>6

LEMMA PreferredFollows == SearchInv => PreferredIsRepresented
<1> SUFFICES ASSUME SearchInv, searchStage = "done", Preferring, inquiry.k > 0,
                    \A c \in result : c.framework # inquiry.preferred
             PROVE  extra = {} \/ Unfit
  BY DEF PreferredIsRepresented, Preferring, Unfit
<1>1. ~HasPreferred(picked)
  BY FrameworksStay DEF HasPreferred
<1> QED  BY <1>1 DEF SearchInv, PreferredSoFar

\* A search ends with at most as many controls as were asked for, no two of one
\* requirement, and of the framework the question named when it named one.
THEOREM ControlsFit == SearchSpec => []ControlsFitTheQuestion
  BY SearchInvariant, FitFollows, PTL

\* A comparison that ends with one framework only found no control of another
\* that does not share its family with one it chose.
THEOREM ComparisonsSpan == SearchSpec => []ComparisonSpansFrameworks
  BY SearchInvariant, SpansFollows, PTL

\* A preferred framework is in what a search without a filter ends with, or
\* nothing of it was found, or a best of it does not fit the words of the question.
THEOREM PreferredStaysRepresented == SearchSpec => []PreferredIsRepresented
  BY SearchInvariant, PreferredFollows, PTL
=============================================================================
