--------------------------------- MODULE Desk ---------------------------------
(***************************************************************************)
(* One support ticket and one review of a product.  Messages are written   *)
(* in transactions, in which inserting a message locks the row of its      *)
(* ticket against changes until the end; closing a ticket and everything   *)
(* about reviews is not in a transaction.  save writes the row the request *)
(* has read, where it differs from the row it finds.                       *)
(***************************************************************************)
EXTENDS Naturals

CONSTANTS
  Clerks,        \* requests in progress at once
  Texts,         \* texts of the review
  MaxMessages    \* bound: how many messages are written

ASSUME DeskAssumption == MaxMessages \in Nat \ {0}

VARIABLES
  ticket,        \* status of the ticket, "none" before it is opened
  messages,      \* rows of support_messages: whose, and by which open request
  lastMessage,   \* the last id given to a message
  review,        \* rows of reviews: none or one
  visit          \* what each request has read and does next

deskVars == << ticket, messages, lastMessage, review, visit >>

Statuses == {"open", "waiting", "answered", "closed"}
NoVisit == [step |-> "none"]
Opinions == {"yes", "no"}       \* isApproved, null until the staff decide

DeskInit ==
  /\ ticket = "none" /\ messages = {} /\ lastMessage = 0 /\ review = {}
  /\ visit = [c \in Clerks |-> NoVisit]

Enters(c, next) == visit[c] = NoVisit /\ visit' = [visit EXCEPT ![c] = next]
Leaves(c) == visit' = [visit EXCEPT ![c] = NoVisit]

Committed(c) ==
  messages' = { IF m.of = {c} THEN [m EXCEPT !.of = {}] ELSE m : m \in messages }
Undone(c) == messages' = { m \in messages : m.of # {c} }

\* The requests whose inserted message keeps the ticket's row locked.
Holders == { c \in Clerks : visit[c].step = "status" }

-----------------------------------------------------------------------------
(* support.service.ts *)

\* create and createForProduct: the ticket and its first message.
CreateSupport(c) ==
  /\ visit[c] = NoVisit /\ ticket = "none"
  /\ ticket' = "open" /\ messages' = {[id |-> 1, by |-> "user", of |-> {}]} /\ lastMessage' = 1
  /\ UNCHANGED << review, visit >>

\* Mutant of AddMessageByUser: only a closed ticket changes its status.
AddMessageOnly(saw) == IF saw = "closed" THEN "open" ELSE saw

\* What addMessageByUser and adminReply make of the status they have read.
AddMessageByUser(saw) == IF saw = "closed" THEN "open" ELSE "waiting"
AdminReply(saw) == "answered"
StatusAfter(by, saw) == IF by = "user" THEN AddMessageByUser(saw) ELSE AdminReply(saw)

ReadTicket(c, by) ==
  /\ ticket # "none"
  /\ Enters(c, [step |-> "message", by |-> by, saw |-> ticket])
  /\ UNCHANGED << ticket, messages, lastMessage, review >>

InsertMessage(c) ==
  /\ visit[c].step = "message" /\ lastMessage < MaxMessages
  /\ messages' = messages \cup {[id |-> lastMessage + 1, by |-> visit[c].by, of |-> {c}]}
  /\ lastMessage' = lastMessage + 1
  /\ visit' = [visit EXCEPT ![c].step = "status"]
  /\ UNCHANGED << ticket, review >>

\* A status that was read already is not written; another waits for the locks.
SaveStatus(c) ==
  /\ visit[c].step = "status"
  /\ LET status == StatusAfter(visit[c].by, visit[c].saw) IN
     IF status = visit[c].saw THEN UNCHANGED ticket
     ELSE Holders = {c} /\ ticket' = status
  /\ Committed(c) /\ Leaves(c) /\ UNCHANGED << lastMessage, review >>

Waits(c) == visit[c].step = "status" /\ StatusAfter(visit[c].by, visit[c].saw) # visit[c].saw

\* Two that wait for each other: one of them is undone.
Deadlocked(c) ==
  /\ Waits(c) /\ \E d \in Clerks \ {c} : Waits(d)
  /\ Undone(c) /\ Leaves(c) /\ UNCHANGED << ticket, lastMessage, review >>

ReadToClose(c) ==
  /\ ticket # "none" /\ Enters(c, [step |-> "close"])
  /\ UNCHANGED << ticket, messages, lastMessage, review >>

CloseSupport(c) ==
  /\ visit[c].step = "close" /\ (ticket = "closed" \/ Holders = {})
  /\ ticket' = "closed" /\ Leaves(c) /\ UNCHANGED << messages, lastMessage, review >>

-----------------------------------------------------------------------------
(* review.service.ts *)

CreateReview(c, text) ==
  /\ visit[c] = NoVisit /\ review = {}
  /\ review' = {[text |-> text, approved |-> "null"]}
  /\ UNCHANGED << ticket, messages, lastMessage, visit >>

\* update keeps the approval it has read, updateStatus the text.
UpdateReview(c, text) ==
  /\ \E r \in review : Enters(c, [step |-> "edit", row |-> [r EXCEPT !.text = text]])
  /\ UNCHANGED << ticket, messages, lastMessage, review >>

UpdateStatus(c, approved) ==
  /\ \E r \in review : Enters(c, [step |-> "judge", row |-> [r EXCEPT !.approved = approved]])
  /\ UNCHANGED << ticket, messages, lastMessage, review >>

\* A row that has been removed meanwhile is inserted again.
SaveReview(c) ==
  /\ visit[c].step \in {"edit", "judge"}
  /\ review' = {visit[c].row} /\ Leaves(c) /\ UNCHANGED << ticket, messages, lastMessage >>

\* remove and removeByAdmin.
RemoveReview(c) ==
  /\ visit[c] = NoVisit /\ review # {} /\ review' = {}
  /\ UNCHANGED << ticket, messages, lastMessage, visit >>

-----------------------------------------------------------------------------

WritesSupport(c) == CreateSupport(c) \/ ReadTicket(c, "user") \/ ReadToClose(c)
AnswersSupport(c) == ReadTicket(c, "staff")
WritesReview(c) == (\E text \in Texts : CreateReview(c, text) \/ UpdateReview(c, text)) \/ RemoveReview(c)
JudgesReview(c) == \E approved \in Opinions : UpdateStatus(c, approved)

Visits(c) == WritesSupport(c) \/ AnswersSupport(c) \/ WritesReview(c) \/ JudgesReview(c)

Serves(c) ==
  \/ InsertMessage(c) \/ SaveStatus(c) \/ Deadlocked(c) \/ CloseSupport(c) \/ SaveReview(c)

Messages ==
  [id : 1 .. MaxMessages, by : {"user", "staff"}, of : {{}} \cup { {c} : c \in Clerks }]
Reviews == [text : Texts, approved : Opinions \cup {"null"}]

DeskTypeOK ==
  /\ ticket \in Statuses \cup {"none"}
  /\ messages \subseteq Messages
  /\ lastMessage \in 0 .. MaxMessages
  /\ review \subseteq Reviews

=============================================================================
