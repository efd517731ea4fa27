--------------------------- MODULE WatchedAccounts ---------------------------
(***************************************************************************)
(* Accounts with what each code, number and user has been through.         *)
(***************************************************************************)
EXTENDS Accounts, FiniteSets

CONSTANT MaxCalls          \* bound: how many requests are made

VARIABLES
  calls,         \* how many requests there have been
  crossed,       \* numbers and users two requests dealt with at once
  accepted,      \* the codes that were accepted, a bag
  given          \* the number each user was last given

accountsWatch == << calls, crossed, accepted, given >>

\* The number and the user a request deals with.
DealsWith(job) ==
  (IF "to" \in DOMAIN job THEN {<< "phone", job.to >>} ELSE {})
  \cup (IF "user" \in DOMAIN job THEN {<< "user", job.user.id >>} ELSE {})
  \cup (IF "row" \in DOMAIN job THEN {<< "user", job.row.user >>} ELSE {})

AtOnce == UNION { DealsWith(call[pr[1]]) \cap DealsWith(call[pr[2]]) :
                    pr \in { x \in Callers \X Callers : x[1] # x[2] } }

\* A user is removed in one step, at once with whoever deals with the user.
RemovedUnder == { << "user", u.id >> : u \in { w \in users : \A v \in users' : v.id # w.id } }
                  \cap UNION { DealsWith(call[c]) : c \in Callers }

\* A step in which a request makes the user or changes its number.
Gives(c, id) ==
  /\ At(c, "save") /\ call'[c] = NoCall /\ users' # users
  /\ \/ call[c].user = NoUser /\ id = last'.user
     \/ call[c].user.id = id /\ call[c].user.phone # call[c].to

WatchedAccountsInit ==
  /\ AccountsInit /\ calls = 0 /\ crossed = {}
  /\ accepted = [id \in 1 .. MaxCodes |-> 0] /\ given = [id \in 1 .. MaxUsers |-> "nobody"]

WatchesAccounts ==
  /\ crossed' = crossed \cup AtOnce' \cup RemovedUnder
  /\ accepted' = [id \in 1 .. MaxCodes |-> accepted[id] +
       Cardinality({ c \in Callers : At(c, "accept") /\ call[c].otp = id /\ call'[c] # call[c] })]
  /\ given' = [id \in 1 .. MaxUsers |->
       IF \E c \in Callers : Gives(c, id) THEN (CHOOSE u \in users' : u.id = id).phone ELSE given[id]]

WatchedAccountsNext ==
  /\ \/ calls < MaxCalls /\ calls' = calls + 1 /\ \E c \in Callers : Calls(c)
     \/ UNCHANGED calls /\ ((\E c \in Callers : Continues(c)) \/ TimePasses)
  /\ WatchesAccounts

WatchedAccountsSpec == WatchedAccountsInit /\ [][WatchedAccountsNext]_<< accountsVars, accountsWatch >>

\* Codes are single and used once, users keep the number they were last given,
\* and have at most one primary address, unless requests of the same number or
\* user overlapped.
AccountsSound ==
  /\ \A p \in Phones : << "phone", p >> \notin crossed =>
       /\ Cardinality(CodesFor(p)) <= 1
       /\ \A o \in otps : o.to = p => accepted[o.id] <= 1
  /\ \A u \in users : << "user", u.id >> \notin crossed =>
       /\ u.phone = given[u.id]
       /\ Cardinality({ a \in AddressesOf(u.id) : a.primary }) <= 1

=============================================================================
