---------------------------- MODULE UserAccounts ----------------------------
(***************************************************************************)
(* The users and kyc_profiles rows of the auth service and the operations  *)
(* that write them: logins, profile updates, PINs and KYC submissions.     *)
(* Each reads the user's row, awaits something and saves the whole copy.   *)
(* A phone is a number with the format it is written in: findByPhone looks *)
(* for every format, the unique index only for equal strings.  An e-mail   *)
(* is a fact of the account a user signs in with, which a login stores.    *)
(* The test accounts that isMockUser hides are left out.                   *)
(***************************************************************************)
EXTENDS Naturals, FiniteSets

CONSTANTS Users, Procs, Numbers,
          Mailed,      \* users whose sign-in account has an e-mail
          MaxCalls,    \* bound on calls
          MaxCrashes   \* bound on handlers that stop half way

ASSUME UserAccountsAssumption ==
    IsFiniteSet(Users) /\ Mailed \subseteq Users /\ MaxCalls \in Nat /\ MaxCrashes \in Nat

Formats == {"0", "84", "+84"}
NoPhone == <<"", "">>
Phones == (Numbers \X Formats) \cup {NoPhone}

ASSUME NoPhoneAssumption == NoPhone[1] \notin Numbers

VARIABLES
    user,      \* user[u]: the row in users
    profile,   \* profile[u]: the national id in kyc_profiles, 0 for no row
    proc,      \* proc[p]: operation, position, argument, copy of the row
    calls, crashes,
    last,      \* last[u]: what the acknowledged writes made of the row (history)
    halfDone,  \* users whose submission stopped before its last save (history)
    raced,     \* users with overlapping operations on their row (history)
    unchecked  \* numbers given to a row without a look-up in time (history)

vars == <<user, profile, proc, calls, crashes, last, halfDone, raced, unchecked>>

\* born: the order of createdAt, 0 for no row; mail: the row has an e-mail;
\* pin: which setPin call's hash.
Row == [born : 0 .. Cardinality(Users), phone : Phones, mail : BOOLEAN, pin : 0 .. MaxCalls,
        kyc : {"pending", "pending_review"}, status : {"active", "blocked"}]
NoRow == [born |-> 0, phone |-> NoPhone, mail |-> FALSE, pin |-> 0,
          kyc |-> "pending", status |-> "active"]
Idle == [op |-> "none", pc |-> "idle", user |-> CHOOSE u \in Users : TRUE,
         phone |-> NoPhone, id |-> 0, copy |-> NoRow]

TypeOK ==
    /\ user \in [Users -> Row] /\ last \in [Users -> Row]
    /\ profile \in [Users -> 0 .. 2]
    /\ proc \in [Procs -> [op : {"none", "login", "profile", "pin", "kyc"},
                           pc : {"idle", "read", "check", "submit", "save"},
                           user : Users, phone : Phones, id : 0 .. MaxCalls, copy : Row]]
    /\ calls \in 0 .. MaxCalls /\ crashes \in 0 .. MaxCrashes
    /\ halfDone \subseteq Users /\ raced \subseteq Users /\ unchecked \subseteq Numbers

Init ==
    /\ user = [u \in Users |-> NoRow] /\ last = user
    /\ profile = [u \in Users |-> 0]
    /\ proc = [p \in Procs |-> Idle]
    /\ calls = 0 /\ crashes = 0
    /\ halfDone = {} /\ raced = {} /\ unchecked = {}

-----------------------------------------------------------------------------
Step(p, pc, copy) == proc' = [proc EXCEPT ![p].pc = pc, ![p].copy = copy]
Return(p) == proc' = [proc EXCEPT ![p] = Idle]
Exists(u) == user[u].born > 0
InFlight == {q \in Procs : proc[q].op # "none"}

\* The gateway passes a call on to a free handler.  Its AuthGuard checks the
\* access token only, which a user blocked meanwhile still has.
Begin(p, op, u, phone, id) ==
    /\ proc[p].pc = "idle"
    /\ calls < MaxCalls /\ calls' = calls + 1
    /\ proc' = [proc EXCEPT ![p] = [op |-> op, pc |-> "read", user |-> u,
                                    phone |-> phone, id |-> id, copy |-> NoRow]]
    /\ raced' = raced \cup {u : q \in {q \in InFlight : proc[q].user = u}}
    /\ unchecked' = unchecked
          \cup {phone[1] : x \in {x \in {phone} : x # NoPhone /\ op = "login"}}
          \cup {phone[1] : q \in {q \in InFlight : proc[q].phone[1] = phone[1] /\ phone # NoPhone}}
    /\ UNCHANGED <<user, profile, crashes, last, halfDone>>

\* normalizePhoneForStore, for numbers of the usual length: 84... is stored as
\* 0..., +84... as it is.  A login stores what Firebase or the client gave.
NormalizePhoneForStore(phone) == IF phone[2] = "84" THEN <<phone[1], "0">> ELSE phone

Login(p, u, phone) == Begin(p, "login", u, phone, 0)
UpdateProfile(p, u, phone) ==
    /\ phone # NoPhone
    /\ Begin(p, "profile", u, NormalizePhoneForStore(phone), 0)
SetPin(p, u) == Begin(p, "pin", u, NoPhone, calls + 1)
SubmitKyc(p, u, id) == Begin(p, "kyc", u, NoPhone, id)

\* findOne by id or by firebaseUid; all but the login end when there is no row.
ReadUser(p) ==
    LET u == proc[p].user IN
    /\ proc[p].pc = "read"
    /\ IF Exists(u) \/ proc[p].op = "login"
       THEN Step(p, CASE proc[p].op = "profile" -> "check"
                      [] proc[p].op = "kyc" -> "submit"
                      [] OTHER -> "save", user[u])
       ELSE Return(p)
    /\ UNCHANGED <<user, profile, calls, crashes, last, halfDone, raced, unchecked>>

\* findByPhone: the youngest row with the number in any format.
FindByPhone(phone) ==
    LET variants == {<<phone[1], f>> : f \in Formats}
        owners == {u \in Users : Exists(u) /\ user[u].phone \in variants}
    IN {u \in owners : \A v \in owners : user[v].born <= user[u].born}

\* Mutant: the number is compared with the user's own row only.
CheckNothing(p) ==
    /\ proc[p].pc = "check"
    /\ Step(p, "save", proc[p].copy)
    /\ UNCHANGED <<user, profile, calls, crashes, last, halfDone, raced, unchecked>>

\* updateProfile refuses a number another user has.
CheckPhone(p) ==
    /\ proc[p].pc = "check"
    /\ IF FindByPhone(proc[p].phone) \subseteq {proc[p].user}
       THEN Step(p, "save", proc[p].copy)
       ELSE Return(p)
    /\ UNCHANGED <<user, profile, calls, crashes, last, halfDone, raced, unchecked>>

\* Mutant: a refused profile does not end the submission.
SaveProfileIgnoringRefusal(p) ==
    LET u == proc[p].user IN
    /\ proc[p].pc = "submit"
    /\ profile' = IF \E v \in Users \ {u} : profile[v] = proc[p].id
                  THEN profile ELSE [profile EXCEPT ![u] = proc[p].id]
    /\ Step(p, "save", proc[p].copy)
    /\ UNCHANGED <<user, calls, crashes, last, halfDone, raced, unchecked>>

\* submitKyc saves the profile first; nationalId is unique.
SaveProfile(p) ==
    LET u == proc[p].user IN
    /\ proc[p].pc = "submit"
    /\ IF \E v \in Users \ {u} : profile[v] = proc[p].id
       THEN Return(p) /\ UNCHANGED profile
       ELSE /\ profile' = [profile EXCEPT ![u] = proc[p].id]
            /\ Step(p, "save", proc[p].copy)
    /\ UNCHANGED <<user, calls, crashes, last, halfDone, raced, unchecked>>

\* What the operation sets in a row.
Set(x, r) ==
    CASE x.op = "login" -> [r EXCEPT !.phone = IF x.phone = NoPhone THEN @ ELSE x.phone,
                                     !.mail = @ \/ x.user \in Mailed]
      [] x.op = "profile" -> [r EXCEPT !.phone = x.phone]
      [] x.op = "pin" -> [r EXCEPT !.pin = x.id]
      [] x.op = "kyc" -> [r EXCEPT !.kyc = "pending_review"]

\* A first login inserts the row.
Born(r) == IF r.born > 0 THEN r
           ELSE [r EXCEPT !.born = Cardinality({v \in Users : Exists(v)}) + 1]

Taken(u, phone) == phone # NoPhone /\ \E v \in Users \ {u} : user[v].phone = phone

\* The copy has a number that is no longer, or not yet, the row's own.
PutsBack(op, u, phone) == op # "profile" /\ phone \notin {NoPhone, user[u].phone}

\* Mutant: a login writes null over the phone Firebase does not know.
SaveUserWithNull(p) ==
    LET u == proc[p].user
        row == IF proc[p].op = "login"
               THEN [Set(proc[p], proc[p].copy) EXCEPT !.phone = proc[p].phone]
               ELSE Set(proc[p], proc[p].copy)
    IN /\ proc[p].pc = "save"
       /\ IF Taken(u, row.phone) \/ (Exists(u) /\ row.born = 0)
          THEN UNCHANGED <<user, last, halfDone, unchecked>>
          ELSE /\ user' = [user EXCEPT ![u] = Born(row)]
               /\ last' = [last EXCEPT ![u] = Set(proc[p], Born([@ EXCEPT !.born = row.born]))]
               /\ halfDone' = IF proc[p].op = "kyc" THEN halfDone \ {u} ELSE halfDone
               /\ unchecked' = IF PutsBack(proc[p].op, u, row.phone)
                               THEN unchecked \cup {row.phone[1]} ELSE unchecked
       /\ Return(p)
       /\ UNCHANGED <<profile, calls, crashes, raced>>

\* save(copy): the unique indexes on firebaseUid and phone refuse it or the
\* row becomes the copy.
SaveUser(p) ==
    LET u == proc[p].user
        row == Set(proc[p], proc[p].copy)
    IN /\ proc[p].pc = "save"
       /\ IF Taken(u, row.phone) \/ (Exists(u) /\ row.born = 0)
          THEN UNCHANGED <<user, last, halfDone, unchecked>>
          ELSE /\ user' = [user EXCEPT ![u] = Born(row)]
               /\ last' = [last EXCEPT ![u] = Set(proc[p], Born([@ EXCEPT !.born = row.born]))]
               /\ halfDone' = IF proc[p].op = "kyc" THEN halfDone \ {u} ELSE halfDone
               /\ unchecked' = IF PutsBack(proc[p].op, u, row.phone)
                               THEN unchecked \cup {row.phone[1]} ELSE unchecked
       /\ Return(p)
       /\ UNCHANGED <<profile, calls, crashes, raced>>

-----------------------------------------------------------------------------
(* What the service answers, from the rows as they are                     *)

Active(u) == Exists(u) /\ user[u].status = "active"

ToProfile(r) == [phone |-> r.phone, mail |-> r.mail, kyc |-> r.kyc, status |-> r.status]
GetProfile(u) == ToProfile(user[u])

\* The page of the KYC profile shows the profile's status, which every
\* submission sets, and the user's where there is no profile.
GetKycProfile(u) == IF profile[u] # 0 THEN "pending_review" ELSE user[u].kyc

VerifyPinHash(id, hash) == hash # 0 /\ id = hash
VerifyPin(u, id) == Exists(u) /\ VerifyPinHash(id, user[u].pin)

\* An access token that has not expired is good while its user is active.
VerifyInternalToken(u) == Active(u)

\* resolveRecipientByPhone offers an active user other than the requester.
ResolveRecipientByPhone(phone, requester) ==
    {u \in FindByPhone(phone) : u # requester /\ Active(u)}

\* issueQrTransferToken wants a phone; the token names the user, not the phone.
IssueQrTransferToken(u) == Exists(u) /\ user[u].phone # NoPhone
ResolveQrTransferToken(u) == {v \in {u} : Active(v)}

\* The user who signs in with a number: the answer is the user's e-mail, which
\* Firebase signs in, and not found where there is none.
ResolveLoginIdentifier(phone) == {u \in FindByPhone(phone) : user[u].mail}

\* The sign-up page looks the number up as 0...
SignUpPhone(phone) == IF phone[2] \in {"84", "+84"} THEN <<phone[1], "0">> ELSE phone
SignUpAvailable(phone) == FindByPhone(SignUpPhone(phone)) = {}

-----------------------------------------------------------------------------
\* The operator blocks an account in the database.
Block(u) ==
    /\ Exists(u) /\ user[u].status = "active"
    /\ user' = [user EXCEPT ![u].status = "blocked"]
    /\ last' = [last EXCEPT ![u].status = "blocked"]
    /\ raced' = raced \cup {u : q \in {q \in InFlight : proc[q].user = u}}
    /\ UNCHANGED <<profile, proc, calls, crashes, halfDone, unchecked>>

\* The service stops: the handler's remaining saves do not happen.
Crash(p) ==
    /\ proc[p].pc # "idle"
    /\ crashes < MaxCrashes /\ crashes' = crashes + 1
    /\ halfDone' = halfDone \cup {proc[p].user : x \in {x \in {proc[p]} : x.op = "kyc" /\ x.pc = "save"}}
    /\ Return(p)
    /\ UNCHANGED <<user, profile, calls, last, raced, unchecked>>

Next ==
    \/ \E p \in Procs, u \in Users :
          \/ \E phone \in Phones : Login(p, u, phone) \/ UpdateProfile(p, u, phone)
          \/ SetPin(p, u)
          \/ \E id \in 1 .. 2 : SubmitKyc(p, u, id)
    \/ \E p \in Procs :
          ReadUser(p) \/ CheckPhone(p) \/ SaveProfile(p) \/ SaveUser(p) \/ Crash(p)
    \/ \E u \in Users : Block(u)

Spec == Init /\ [][Next]_vars

-----------------------------------------------------------------------------
(* Properties                                                              *)

\* A PIN, phone, e-mail, KYC state or block that was acknowledged is what getProfile,
\* verifyPin and verifyInternalToken answer by until the next write of that
\* column, unless two operations on the user's row overlapped: then the later
\* save puts back what its copy had read.
AcknowledgedWritesStand ==
    \A u \in Users \ raced : Exists(u) =>
        /\ GetProfile(u) = ToProfile(last[u])
        /\ {id \in 0 .. MaxCalls : VerifyPin(u, id)} = {last[u].pin} \ {0}
        /\ VerifyInternalToken(u) <=> last[u].status = "active"

\* A number belongs to one user, in whatever formats it is stored, unless a
\* login brought it in (upsertFromFirebase does not call findByPhone), two
\* operations with that number overlapped, or a save of a stale copy put it
\* back into a row that had another by then.
NumberNamesOneUser ==
    \A u, v \in Users :
        /\ u # v /\ user[u].phone # NoPhone
        /\ user[u].phone[1] = user[v].phone[1]
        => user[u].phone[1] \in unchecked

\* A user is in review only with a profile to review: no crash between
\* submitKyc's two saves, refused national id or stale save of the user's row
\* leaves pending_review without one.
ReviewHasProfile ==
    \A u \in Users : user[u].kyc = "pending_review" => profile[u] # 0

\* The KYC page and the profile page show one status, except while a
\* submission is between its two saves, after a crash there until the user
\* submits again, and after operations on the row overlapped.
KycViewsAgree ==
    \A u \in Users \ (raced \cup halfDone) :
        \/ GetKycProfile(u) = GetProfile(u).kyc
        \/ \E p \in Procs : proc[p].op = "kyc" /\ proc[p].user = u /\ proc[p].pc = "save"

\* A user's number, however it is written, leads every reader to the user
\* unless the number came in unchecked: the sign-up page (which must refuse
\* it), the sign-in page if the user has an e-mail to sign in with (it finds
\* nobody if not, never another user), and a payer, who by the number and by
\* the user's QR code is shown the same recipient, or none once the user is
\* blocked.
NumberLeadsToItsUser ==
    \A u, payer \in Users, f \in Formats :
        /\ IssueQrTransferToken(u) /\ u # payer
        /\ user[u].phone[1] \notin unchecked
        => LET written == <<user[u].phone[1], f>> IN
           /\ ResolveRecipientByPhone(written, payer) = ResolveQrTransferToken(u)
           /\ ResolveLoginIdentifier(written) = {v \in {u} : user[v].mail}
           /\ ~SignUpAvailable(written)

\* A number names one user and leads every reader to that user, unless it came
\* in without a look-up.
NumbersIdentify == NumberNamesOneUser /\ NumberLeadsToItsUser

\* The two tables tell one story of a user's KYC: no review without a profile,
\* and the KYC page agrees with the profile page.
KycIsConsistent == ReviewHasProfile /\ KycViewsAgree

=============================================================================
