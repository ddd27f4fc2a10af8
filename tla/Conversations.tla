--------------------------- MODULE Conversations ---------------------------
(***************************************************************************)
(* A stored conversation and the requests that change it: the answers of   *)
(* POST /ask (endpoints/ask.py), messages and ratings                      *)
(* (endpoints/conversations.py) and the store (conversation_store.py, or   *)
(* Cosmos DB).                                                             *)
(*                                                                         *)
(* Every request loads the whole conversation, changes its copy and puts   *)
(* the copy back, without looking whether the store has changed meanwhile. *)
(* A message is known by the time stamp it was made with.                  *)
(***************************************************************************)
EXTENDS Naturals, Sequences

CONSTANTS Clients,          \* threads that serve requests on the conversation
          MaxMessages,      \* bound: messages and ratings that are made
          MaxOutages,       \* bound: calls of the store or the model that fail
          NoSession         \* no conversation document, or none asked for

\* What a session can be: messages, and ratings that name an answer or none.
Sessions == [messages : Seq([role : {"user", "assistant"}, stamp : Nat]),
             ratings : Seq([target : Nat \cup {NoSession}, stamp : Nat])]

ASSUME ConversationAssumption ==
    /\ MaxMessages \in Nat /\ MaxOutages \in Nat
    /\ NoSession \notin Sessions

VARIABLES
    persistent,  \* whether there is a conversations container at all
    stored,      \* the document, or NoSession
    activity,    \* what each request does: "ask", "message", "rate", "none"
    phase,       \* how far it is: "idle", "loaded", "changed"
    session,     \* its copy of the conversation
    added,       \* what it has added to its copy
    told,        \* everything clients were told is done
    exposed,     \* what was saved while another request held an older copy
    stamps,      \* time stamps used so far
    outages

requestVars == <<activity, phase, session, added>>
conversationVars == <<persistent, stored, told, exposed, stamps, outages, requestVars>>

Fresh == [messages |-> <<>>, ratings |-> <<>>]
Message(role, stamp) == [role |-> role, stamp |-> stamp]

Answers(s) == {i \in DOMAIN s.messages : s.messages[i].role = "assistant"}
AnswerStamps(s) == {s.messages[i].stamp : i \in Answers(s)}
Stamps(s) == {s.messages[i].stamp : i \in DOMAIN s.messages} \cup {s.ratings[i].stamp : i \in DOMAIN s.ratings}

ConversationsInit ==
    /\ persistent \in BOOLEAN
    /\ stored = NoSession
    /\ activity = [c \in Clients |-> "none"] /\ phase = [c \in Clients |-> "idle"]
    /\ session = [c \in Clients |-> Fresh] /\ added = [c \in Clients |-> {}]
    /\ told = {} /\ exposed = {} /\ stamps = 0 /\ outages = 0

\* POST /api/conversations/new saves an empty document under a new name.
NewConversation(c) ==
    /\ activity[c] = "none" /\ persistent /\ stored = NoSession
    /\ \A d \in Clients : phase[d] = "idle"
    /\ stored' = Fresh
    /\ UNCHANGED <<persistent, told, exposed, stamps, outages, requestVars>>

\* Bug: the stored conversation is not found.
LoadNothing(c, what) ==
    /\ activity[c] = "none" /\ stamps < MaxMessages
    /\ activity' = [activity EXCEPT ![c] = what]
    /\ phase' = [phase EXCEPT ![c] = "loaded"]
    /\ session' = [session EXCEPT ![c] = Fresh]
    /\ added' = [added EXCEPT ![c] = {}]
    /\ UNCHANGED <<persistent, stored, told, exposed, stamps, outages>>

\* _load_conversation: what is not stored starts afresh.
LoadConversation(c, what) ==
    /\ activity[c] = "none" /\ stamps < MaxMessages
    /\ activity' = [activity EXCEPT ![c] = what]
    /\ phase' = [phase EXCEPT ![c] = "loaded"]
    /\ session' = [session EXCEPT ![c] = IF persistent /\ stored # NoSession THEN stored ELSE Fresh]
    /\ added' = [added EXCEPT ![c] = {}]
    /\ UNCHANGED <<persistent, stored, told, exposed, stamps, outages>>

Change(c, s, new) ==
    /\ session' = [session EXCEPT ![c] = s]
    /\ added' = [added EXCEPT ![c] = new]
    /\ stamps' = stamps + 1
    /\ phase' = [phase EXCEPT ![c] = "changed"]
    /\ UNCHANGED <<persistent, stored, told, exposed, outages, activity>>

\* run_rag has answered: the question and the answer go into the copy.  The
\* pair has one number here, and a role tells its halves apart.
AddAnswer(c) ==
    /\ activity[c] = "ask" /\ phase[c] = "loaded" /\ stamps < MaxMessages
    /\ Change(c, [session[c] EXCEPT !.messages = @ \o <<Message("user", stamps), Message("assistant", stamps)>>],
              {stamps})

AddMessage(c, role) ==
    /\ activity[c] = "message" /\ phase[c] = "loaded" /\ stamps < MaxMessages
    /\ Change(c, [session[c] EXCEPT !.messages = Append(@, Message(role, stamps))], {stamps})

\* Bug: nobody looks whether the answer is there.
RateAnything(c, target) ==
    /\ activity[c] = "rate" /\ phase[c] = "loaded" /\ stamps < MaxMessages
    /\ Change(c, [session[c] EXCEPT !.ratings = Append(@, [target |-> target, stamp |-> stamps])], {stamps})

\* A rating names an answer of the conversation, or none.
AddRating(c, target) ==
    /\ activity[c] = "rate" /\ phase[c] = "loaded" /\ stamps < MaxMessages
    /\ target # NoSession => target \in AnswerStamps(session[c])
    /\ Change(c, [session[c] EXCEPT !.ratings = Append(@, [target |-> target, stamp |-> stamps])], {stamps})

\* The request replies, and its copy goes away.
Finish(c) ==
    /\ activity' = [activity EXCEPT ![c] = "none"]
    /\ phase' = [phase EXCEPT ![c] = "idle"]
    /\ session' = [session EXCEPT ![c] = Fresh]
    /\ added' = [added EXCEPT ![c] = {}]
    /\ UNCHANGED <<persistent, stamps>>

\* The answer named is not in the conversation: 404, and nothing is saved.
RejectRating(c) ==
    /\ activity[c] = "rate" /\ phase[c] = "loaded"
    /\ Finish(c)
    /\ UNCHANGED <<stored, told, exposed, outages>>

\* _save_conversation replaces the document; without a container it does nothing.
Put(c) ==
    /\ stored' = IF persistent THEN session[c] ELSE stored
    /\ exposed' = IF \E d \in Clients \ {c} : phase[d] # "idle" THEN exposed \cup added[c] ELSE exposed

SaveConversation(c) ==
    /\ phase[c] = "changed"
    /\ Put(c)
    /\ told' = told \cup added[c]
    /\ Finish(c)
    /\ UNCHANGED outages

\* The model fails, or a load or save raises; a save may have reached the store.
RequestFails(c) ==
    /\ phase[c] # "idle" /\ outages < MaxOutages
    /\ outages' = outages + 1
    /\ \/ phase[c] = "changed" /\ Put(c)
       \/ UNCHANGED <<stored, exposed>>
    /\ Finish(c)
    /\ UNCHANGED told

Serve(c) ==
    \/ NewConversation(c)
    \/ \E what \in {"ask", "message", "rate"} : LoadConversation(c, what)
    \/ AddAnswer(c)
    \/ \E role \in {"user", "assistant"} : AddMessage(c, role)
    \/ \E target \in 0..MaxMessages \cup {NoSession} : AddRating(c, target)
    \/ RejectRating(c) \/ SaveConversation(c) \/ RequestFails(c)

ConversationsNext == \E c \in Clients : Serve(c)

ConversationsSpec == ConversationsInit /\ [][ConversationsNext]_conversationVars

(***************************************************************************)
(* Properties.                                                             *)
(***************************************************************************)

\* What a client was told is done is in the conversation, unless it was saved
\* while another request had loaded the conversation and not yet finished: only
\* then can a later save, from the older copy, remove it again.
LostOnlyByOverlap ==
    persistent => \A stamp \in told \ exposed : stored # NoSession /\ stamp \in Stamps(stored)

Whole(s) ==
    /\ \A i \in DOMAIN s.ratings : s.ratings[i].target # NoSession => s.ratings[i].target \in AnswerStamps(s)
    /\ \A i, j \in DOMAIN s.messages : s.messages[i].stamp = s.messages[j].stamp /\ i < j => j = i + 1

\* In the stored conversation and in every copy of it, every rating that names
\* an answer names one of that same conversation, and a question stands right
\* before the answer it got, whatever saves overlapped or failed.
ConversationsAreWhole ==
    /\ stored # NoSession => Whole(stored)
    /\ \A c \in Clients : Whole(session[c])
=============================================================================
