------------------------------- MODULE Accounts -------------------------------
(***************************************************************************)
(* One-time codes, the users who sign in with them, and their addresses.   *)
(* None of it is in a transaction: every statement commits by itself, and  *)
(* save writes back the whole row the request has read.  Postal codes are  *)
(* left out: they can only refuse a new address.                           *)
(***************************************************************************)
EXTENDS Naturals

CONSTANTS
  Phones,        \* what people identify themselves with, a number or an e-mail
  Digits,        \* the codes that are sent
  Callers,       \* requests in progress at once
  MaxCodes,      \* bound: how many codes are made
  MaxUsers,      \* bound: how many users are made
  MaxAddresses   \* bound: how many addresses are made

ASSUME AccountsAssumption == MaxCodes \in Nat /\ MaxUsers \in Nat /\ MaxAddresses \in Nat

VARIABLES
  otps,          \* rows of otps
  users,         \* rows of users: their number or e-mail
  addresses,     \* rows of addresses
  last,          \* the last ids given, of each table
  call           \* what each request has read and does next

accountsVars == << otps, users, addresses, last, call >>

\* A code is fresh for half a minute, settled until it expires after two
\* minutes, and old after a week.
CodeAges == << "fresh", "settled", "expired", "old" >>
Usable(o) == ~o.verified /\ o.age \in {"fresh", "settled"}

NoCall == [step |-> "none"]
NoUser == [id |-> 0]

\* The row with the highest id, the rows being made in that order.
Newest(rows) == CHOOSE r \in rows : \A s \in rows : s.id <= r.id
CodesFor(p) == { o \in otps : o.to = p /\ Usable(o) }
With(p) == { u \in users : u.phone = p }
AddressesOf(u) == { a \in addresses : a.user = u }

AccountsInit ==
  /\ otps = {} /\ users = {} /\ addresses = {}
  /\ last = [code |-> 0, user |-> 0, address |-> 0]
  /\ call = [c \in Callers |-> NoCall]

Reads(c, next) == call[c] = NoCall /\ call' = [call EXCEPT ![c] = next]
At(c, step) == call[c].step = step
Goes(c, next) == call' = [call EXCEPT ![c] = next]
Returns(c) == Goes(c, NoCall)

-----------------------------------------------------------------------------
(* otps.service.ts *)

\* Mutant of RequestOtp: the code that is still usable is not retired.
RequestAnother(c, p) ==
  /\ last.code < MaxCodes
  /\ \A o \in CodesFor(p) : o.age # "fresh"
  /\ Reads(c, [step |-> "issue", to |-> p])
  /\ UNCHANGED << otps, users, addresses, last >>

\* generate: a fresh code is refused another; an older one is retired first.
RequestOtp(c, p) ==
  /\ last.code < MaxCodes
  /\ LET live == CodesFor(p) IN
     IF live = {} THEN Reads(c, [step |-> "issue", to |-> p])
     ELSE /\ Newest(live).age # "fresh"
          /\ Reads(c, [step |-> "retire", to |-> p, otp |-> Newest(live).id])
  /\ UNCHANGED << otps, users, addresses, last >>

Verified(id) == otps' = { IF o.id = id THEN [o EXCEPT !.verified = TRUE] ELSE o : o \in otps }

RetireOtp(c) ==
  /\ At(c, "retire") /\ Verified(call[c].otp)
  /\ Goes(c, [step |-> "issue", to |-> call[c].to])
  /\ UNCHANGED << users, addresses, last >>

IssueOtp(c, digits) ==
  /\ At(c, "issue")
  /\ last.code < MaxCodes
  /\ otps' = otps \cup {[id |-> last.code + 1, to |-> call[c].to, code |-> digits,
                         verified |-> FALSE, age |-> "fresh"]}
  /\ last' = [last EXCEPT !.code = @ + 1] /\ Returns(c)
  /\ UNCHANGED << users, addresses >>

\* verify: the newest usable row with these digits, then marked.
SubmitCode(c, p, digits) ==
  /\ \E live \in { {o \in CodesFor(p) : o.code = digits} } :
       live # {} /\ Reads(c, [step |-> "accept", to |-> p, otp |-> Newest(live).id])
  /\ UNCHANGED << otps, users, addresses, last >>

AcceptCode(c) ==
  /\ At(c, "accept") /\ Verified(call[c].otp)
  /\ Goes(c, [step |-> "look", to |-> call[c].to])
  /\ UNCHANGED << users, addresses, last >>

\* cleanupExpired, every night.
CleanupOtps ==
  /\ \E o \in otps : o.age = "old"
  /\ otps' = { o \in otps : o.age # "old" }
  /\ UNCHANGED << users, addresses, last, call >>

\* Time passes for a code and those before it; no request lasts a week.
AgeOtp(id) ==
  /\ \E o \in otps, i \in 1 .. 3 :
       /\ o.id = id /\ o.age = CodeAges[i]
       /\ CodeAges[i + 1] = "old" => \A c \in Callers : call[c] = NoCall
       /\ \A e \in otps : e.id < id => \E j \in i + 1 .. 4 : e.age = CodeAges[j]
       /\ otps' = (otps \ {o}) \cup {[o EXCEPT !.age = CodeAges[i + 1]]}
  /\ UNCHANGED << users, addresses, last, call >>

-----------------------------------------------------------------------------
(* auth.service.ts and user.service.ts *)

\* verifyOtp goes on with the user of this number, or with a new one.
LookForUser(c) ==
  /\ At(c, "look")
  /\ Goes(c, [step |-> "save", user |-> IF With(call[c].to) = {} THEN NoUser
                                         ELSE Newest(With(call[c].to)), to |-> call[c].to])
  /\ UNCHANGED << otps, users, addresses, last >>

\* save: a new row, or the row that was read, which a deletion does not stop;
\* the number is unique.
SaveUser(c) ==
  /\ At(c, "save")
  /\ LET row == call[c].user IN
     IF \E u \in users : u.id # row.id /\ u.phone = call[c].to THEN UNCHANGED << users, last >>
     ELSE IF row = NoUser
     THEN /\ last.user < MaxUsers
          /\ users' = users \cup {[id |-> last.user + 1, phone |-> call[c].to]}
          /\ last' = [last EXCEPT !.user = @ + 1]
     ELSE /\ users' = { u \in users : u.id # row.id } \cup {[row EXCEPT !.phone = call[c].to]}
          /\ UNCHANGED last
  /\ Returns(c) /\ UNCHANGED << otps, addresses >>

CreateUser(c, p) ==
  /\ With(p) = {} /\ last.user < MaxUsers
  /\ Reads(c, [step |-> "save", user |-> NoUser, to |-> p])
  /\ UNCHANGED << otps, users, addresses, last >>

\* Of staff, by administrators of a higher role: the number is checked likewise.
CreateUserWithRole(c, p) == CreateUser(c, p)

\* update and updateMe: any number that is sent must be nobody's.
UpdateUser(c, u, p) ==
  /\ p = u.phone \/ With(p) = {}
  /\ Reads(c, [step |-> "save", user |-> u, to |-> p])
  /\ UNCHANGED << otps, users, addresses, last >>

RemoveUser(c, u) ==
  /\ call[c] = NoCall
  /\ users' = users \ {u} /\ addresses' = addresses \ AddressesOf(u.id)
  /\ UNCHANGED << otps, last, call >>

-----------------------------------------------------------------------------
(* address.service.ts *)

AddAddress(c, u, primary) ==
  /\ last.address < MaxAddresses
  /\ Reads(c, [step |-> "demote",
               row |-> [id |-> 0, user |-> u.id, primary |-> primary, active |-> TRUE]])
  /\ UNCHANGED << otps, users, addresses, last >>

\* update: of any row, also a removed one; only making it primary demotes others.
EditAddress(c, a, sent) ==
  /\ Reads(c, [step |-> IF TRUE \in sent THEN "demote" ELSE "keep",
               row |-> [a EXCEPT !.primary = IF sent = {} THEN @ ELSE TRUE \in sent]])
  /\ UNCHANGED << otps, users, addresses, last >>

DemoteAddresses(c) ==
  /\ At(c, "demote")
  /\ addresses' = { IF a.user = call[c].row.user THEN [a EXCEPT !.primary = FALSE] ELSE a :
                      a \in addresses }
  /\ Goes(c, [call[c] EXCEPT !.step = "keep"])
  /\ UNCHANGED << otps, users, last >>

\* save of the new or edited row; without its user it fails.
KeepAddress(c) ==
  /\ At(c, "keep")
  /\ LET row == call[c].row IN
     IF \A u \in users : u.id # row.user THEN UNCHANGED << addresses, last >>
     ELSE IF row.id = 0
     THEN /\ last.address < MaxAddresses
          /\ addresses' = addresses \cup {[row EXCEPT !.id = last.address + 1]}
          /\ last' = [last EXCEPT !.address = @ + 1]
     ELSE /\ addresses' = { a \in addresses : a.id # row.id } \cup {row}
          /\ UNCHANGED last
  /\ Returns(c) /\ UNCHANGED << otps, users >>

RemoveAddress(c, a) ==
  /\ Reads(c, [step |-> "strike", row |-> a])
  /\ UNCHANGED << otps, users, addresses, last >>

StrikeAddress(c) ==
  /\ At(c, "strike")
  /\ addresses' = { IF a.id = call[c].row.id THEN [a EXCEPT !.active = FALSE, !.primary = FALSE]
                    ELSE a : a \in addresses }
  /\ IF call[c].row.primary THEN Goes(c, [call[c] EXCEPT !.step = "heir"]) ELSE Returns(c)
  /\ UNCHANGED << otps, users, last >>

\* The newest of the user's other addresses becomes the primary one.
FindHeir(c) ==
  /\ At(c, "heir")
  /\ LET others == { a \in AddressesOf(call[c].row.user) : a.active /\ a.id # call[c].row.id } IN
     IF others = {} THEN Returns(c)
     ELSE Goes(c, [step |-> "promote", row |-> Newest(others)])
  /\ UNCHANGED << otps, users, addresses, last >>

PromoteAddress(c) ==
  /\ At(c, "promote")
  /\ addresses' = { IF a.id = call[c].row.id THEN [a EXCEPT !.primary = TRUE] ELSE a : a \in addresses }
  /\ Returns(c) /\ UNCHANGED << otps, users, last >>

-----------------------------------------------------------------------------

SignsIn(c) == \E p \in Phones : RequestOtp(c, p) \/ \E digits \in Digits : SubmitCode(c, p, digits)
ManagesUsers(c) ==
  \/ \E u \in users : RemoveUser(c, u) \/ \E p \in Phones : UpdateUser(c, u, p)
  \/ \E p \in Phones : CreateUser(c, p) \/ CreateUserWithRole(c, p)
ManagesAddresses(c) ==
  \/ \E u \in users, primary \in BOOLEAN : AddAddress(c, u, primary)
  \/ \E a \in addresses : RemoveAddress(c, a) \/ \E sent \in {{}, {TRUE}, {FALSE}} : EditAddress(c, a, sent)

Calls(c) == SignsIn(c) \/ ManagesUsers(c) \/ ManagesAddresses(c)

Continues(c) ==
  \/ RetireOtp(c) \/ \E digits \in Digits : IssueOtp(c, digits)
  \/ AcceptCode(c) \/ LookForUser(c) \/ SaveUser(c)
  \/ DemoteAddresses(c) \/ KeepAddress(c)
  \/ StrikeAddress(c) \/ FindHeir(c) \/ PromoteAddress(c)

TimePasses == CleanupOtps \/ \E id \in 1 .. MaxCodes : AgeOtp(id)

Otps == [id : 1 .. MaxCodes, to : Phones, code : Digits, verified : BOOLEAN,
         age : {"fresh", "settled", "expired", "old"}]
Users == [id : 1 .. MaxUsers, phone : Phones]
Addresses == [id : 1 .. MaxAddresses, user : 1 .. MaxUsers, primary : BOOLEAN, active : BOOLEAN]

AccountsTypeOK ==
  /\ otps \subseteq Otps /\ users \subseteq Users /\ addresses \subseteq Addresses
  /\ last \in [code : 0 .. MaxCodes, user : 0 .. MaxUsers, address : 0 .. MaxAddresses]

=============================================================================
