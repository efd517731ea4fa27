----------------------------- MODULE WatchedDesk ------------------------------
(***************************************************************************)
(* Desk with the requests that overlapped and what the review should say.  *)
(***************************************************************************)
EXTENDS Desk

CONSTANT MaxVisits         \* bound: how many requests are made

VARIABLES
  visits,        \* how many requests there have been
  collided,      \* "ticket" or "review": two requests of it overlapped
  wanted         \* text and approval last asked for, and whether it was removed

deskWatch == << visits, collided, wanted >>

About(step) == IF step \in {"message", "status", "close"} THEN {"ticket"}
               ELSE IF step \in {"edit", "judge"} THEN {"review"} ELSE {}

WatchedDeskInit ==
  DeskInit /\ visits = 0 /\ collided = {} /\ wanted = {}

\* A change of the review in one step, under whoever has read it.
Pulled == { t \in {"review"} : review' # review /\ \E c \in Clerks : "review" \in About(visit'[c].step) }

Meant(c) ==
  IF visit[c].step = "edit" THEN { [w EXCEPT !.text = visit[c].row.text] : w \in wanted }
  ELSE IF visit[c].step = "judge" THEN { [w EXCEPT !.approved = visit[c].row.approved] : w \in wanted }
  ELSE review'

\* What requests of two clerks are about.
Shared ==
  UNION { About(visit[pr[1]].step) \cap About(visit[pr[2]].step) :
          pr \in { x \in Clerks \X Clerks : x[1] # x[2] } }

WatchesDesk(c) ==
  /\ collided' = collided \cup Pulled \cup Shared'
  /\ wanted' = IF review' = review THEN wanted ELSE Meant(c)

WatchedDeskNext ==
  \E c \in Clerks :
    /\ \/ visits < MaxVisits /\ visits' = visits + 1 /\ Visits(c)
       \/ UNCHANGED visits /\ Serves(c)
    /\ WatchesDesk(c)

WatchedDeskSpec == WatchedDeskInit /\ [][WatchedDeskNext]_<< deskVars, deskWatch >>

\* The last of the messages that are committed.
LastSeen ==
  LET seen == { m \in messages : m.of = {} } IN { m \in seen : \A n \in seen : n.id <= m.id }

\* A ticket says answered when the last message is the staff's and it was not
\* closed since, and a review is what its author and the staff have last made
\* it, unless requests about the ticket or the review overlapped.
DeskSound ==
  /\ "ticket" \notin collided /\ ticket # "closed" =>
       \A m \in LastSeen : ticket = "answered" <=> m.by = "staff"
  /\ "review" \notin collided => review = wanted

=============================================================================
