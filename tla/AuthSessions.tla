---------------------------- MODULE AuthSessions ----------------------------
(***************************************************************************)
(* One user's refresh-token sessions, e-mailed one-time codes and step-up  *)
(* tokens in the auth service.  A handler is a process; every await ends a *)
(* step, and there the service may stop or the database refuse.  TypeORM's *)
(* save writes the whole copy read earlier and inserts a row that has been *)
(* deleted meanwhile.                                                      *)
(***************************************************************************)
EXTENDS Naturals, FiniteSets

CONSTANTS Procs,      \* handlers that may run at once
          MaxTokens,  \* bound on refresh tokens issued
          MaxCodes,   \* bound on one-time codes issued
          MaxCalls    \* bound on calls

ASSUME AuthSessionsAssumption ==
    MaxTokens \in Nat /\ MaxCodes \in Nat /\ MaxCalls \in Nat

Tokens == 1 .. MaxTokens
Codes == 1 .. MaxCodes      \* in the order of createdAt
None == 0

VARIABLES
    session,    \* session[t]: the auth_sessions row of refresh token t
    otp,        \* otp[c]: the auth_otps row of code c (one user, purpose, device)
    expired,    \* tokens and codes past their expiry
    active,     \* accountStatus is ACTIVE and the Firebase user not disabled
    proc,       \* proc[p]: operation, position and the copy it holds
    cleaning,   \* next delete of the cleanup job, or 0
    calls,      \* calls so far
    successors, \* successors[t]: ways t was spent (history)
    known,      \* codes that reached the user by e-mail
    unsent,     \* codes stored whose e-mail did not go out (history)
    cut,        \* codes whose storing, mailing or use ended half way (history)
    stepUps,    \* stepUps[c]: step-up tokens granted for code c (history)
    superseded, \* codes accepted although a newer one was stored (history)
    raced       \* tokens, and "otp", with overlapping calls (history)

rows == <<session, otp, expired, active>>
mail == <<known, unsent, cut>>
history == <<successors, stepUps, superseded, raced>>
vars == <<rows, proc, cleaning, calls, mail, history>>

NoSession == [state |-> "none", parent |-> None]
NoCode == [state |-> "none", attempts |-> 0]
Idle == [op |-> "none", pc |-> "idle", on |-> None, row |-> NoCode]

TypeOK ==
    /\ session \in [Tokens -> [state : {"none", "live", "revoked", "deleted"},
                               parent : Tokens \cup {None}]]
    /\ otp \in [Codes -> [state : {"none", "stored", "used", "deleted"},
                          attempts : 0 .. MaxCalls]]
    /\ expired \subseteq ({"token"} \X Tokens) \cup ({"code"} \X Codes)
    /\ active \in BOOLEAN
    /\ proc \in [Procs -> [op : {"none", "login", "devLogin", "refresh", "logout", "store", "consume"},
                           pc : {"idle", "read", "save", "user", "issue", "insert", "mail", "reject"},
                           on : 0 .. (MaxTokens + MaxCodes),
                           row : [state : {"none", "stored"}, attempts : 0 .. MaxCalls]]]
    /\ cleaning \in 0 .. 4
    /\ calls \in 0 .. MaxCalls
    /\ successors \in [Tokens -> 0 .. MaxCalls]
    /\ stepUps \in [Codes -> 0 .. MaxCalls]
    /\ superseded \subseteq Codes /\ known \subseteq Codes /\ unsent \subseteq Codes
    /\ cut \subseteq Codes
    /\ raced \subseteq Tokens \cup {None}

Init ==
    /\ session = [t \in Tokens |-> NoSession]
    /\ otp = [c \in Codes |-> NoCode]
    /\ expired = {} /\ active = TRUE
    /\ proc = [p \in Procs |-> Idle]
    /\ cleaning = 0 /\ calls = 0
    /\ successors = [t \in Tokens |-> 0]
    /\ stepUps = [c \in Codes |-> 0]
    /\ superseded = {} /\ raced = {} /\ known = {} /\ unsent = {} /\ cut = {}

-----------------------------------------------------------------------------
Step(p, pc) == proc' = [proc EXCEPT ![p].pc = pc]
Return(p) == proc' = [proc EXCEPT ![p] = Idle]

\* The gateway passes a call on to a free handler.
Begin(p, op, pc, on) ==
    /\ proc[p].pc = "idle"
    /\ calls < MaxCalls /\ calls' = calls + 1
    /\ proc' = [proc EXCEPT ![p] = [op |-> op, pc |-> pc, on |-> on, row |-> NoCode]]
    /\ UNCHANGED <<rows, cleaning, successors, stepUps, superseded, mail>>

InFlight(ops) == {q \in Procs : proc[q].op \in ops}

Fresh(t) == session[t].state = "none" /\ \A u \in Tokens : session[u].state = "none" => t <= u

-----------------------------------------------------------------------------
(* Sessions                                                                *)

\* verifyFirebaseIdToken, or devLogin in development mode: what they write to
\* the user's row is UserAccounts' subject.
Login(p) == Begin(p, "login", "user", None) /\ UNCHANGED raced
DevLogin(p) == Begin(p, "devLogin", "user", None) /\ UNCHANGED raced

\* refreshAccessToken and revokeRefreshToken start with the token's row.
TokenCall(p, op, t) ==
    /\ session[t].state # "none"
    /\ Begin(p, op, "read", t)
    /\ raced' = raced \cup {t : q \in {q \in InFlight({"refresh", "logout"}) : proc[q].on = t}}

\* The row is refused unless it is there, unrevoked and (refresh) unexpired.
Usable(op, t) == /\ session[t].state = "live"
                 /\ op = "refresh" => <<"token", t>> \notin expired

ReadToken(p) ==
    /\ proc[p].op \in {"refresh", "logout"} /\ proc[p].pc = "read"
    /\ IF Usable(proc[p].op, proc[p].on) THEN Step(p, "save") ELSE Return(p)
    /\ UNCHANGED <<rows, cleaning, calls, history, mail>>

\* Mutant: a refresh saves its copy without revokedAt.
SaveUnrevoked(p) ==
    LET t == proc[p].on IN
    /\ proc[p].op \in {"refresh", "logout"} /\ proc[p].pc = "save"
    /\ session' = [session EXCEPT ![t].state = IF proc[p].op = "refresh"
                                              THEN "live" ELSE "revoked"]
    /\ IF proc[p].op = "refresh"
       THEN Step(p, "user") /\ UNCHANGED successors
       ELSE Return(p) /\ successors' = [successors EXCEPT ![t] = @ + 1]
    /\ UNCHANGED <<otp, expired, active, cleaning, calls, stepUps, superseded, raced, mail>>

\* Mutant: a refresh does not save the revoked row.
SaveForgotten(p) ==
    LET t == proc[p].on IN
    /\ proc[p].op \in {"refresh", "logout"} /\ proc[p].pc = "save"
    /\ IF proc[p].op = "refresh"
       THEN Step(p, "user") /\ UNCHANGED <<session, successors, mail>>
       ELSE /\ Return(p)
            /\ session' = [session EXCEPT ![t].state = "revoked"]
            /\ successors' = [successors EXCEPT ![t] = @ + 1]
    /\ UNCHANGED <<otp, expired, active, cleaning, calls, stepUps, superseded, raced, mail>>

\* save(session) with revokedAt set, whatever has become of the row.
SaveRevoked(p) ==
    LET t == proc[p].on IN
    /\ proc[p].op \in {"refresh", "logout"} /\ proc[p].pc = "save"
    /\ session' = [session EXCEPT ![t].state = "revoked"]
    /\ IF proc[p].op = "refresh"
       THEN Step(p, "user") /\ UNCHANGED successors
       ELSE Return(p) /\ successors' = [successors EXCEPT ![t] = @ + 1]
    /\ UNCHANGED <<otp, expired, active, cleaning, calls, stepUps, superseded, raced, mail>>

\* The user row and the Firebase user are looked up; a refused refresh has
\* spent its token.  devLogin checks no status.
CheckUser(p) ==
    /\ proc[p].op \in {"login", "devLogin", "refresh"} /\ proc[p].pc = "user"
    /\ IF active \/ proc[p].op = "devLogin" THEN Step(p, "issue") ELSE Return(p)
    /\ UNCHANGED <<rows, cleaning, calls, history, mail>>

\* issueTokens inserts a session with a new token.
IssueTokens(p) ==
    /\ proc[p].op \in {"login", "devLogin", "refresh"} /\ proc[p].pc = "issue"
    /\ \E t \in Tokens :
          /\ Fresh(t)
          /\ session' = [session EXCEPT ![t] = [state |-> "live", parent |-> proc[p].on]]
    /\ successors' = IF proc[p].on = None THEN successors
                     ELSE [successors EXCEPT ![proc[p].on] = @ + 1]
    /\ Return(p)
    /\ UNCHANGED <<otp, expired, active, cleaning, calls, stepUps, superseded, raced, mail>>

\* revokeAllSessionsByAccessToken is one UPDATE.
LogoutAll ==
    LET ended == {t \in Tokens : session[t].state = "live"} IN
    /\ calls < MaxCalls /\ calls' = calls + 1
    /\ session' = [t \in Tokens |-> IF t \in ended
                                    THEN [session[t] EXCEPT !.state = "revoked"]
                                    ELSE session[t]]
    /\ successors' = [t \in Tokens |-> successors[t] + (IF t \in ended THEN 1 ELSE 0)]
    /\ raced' = raced \cup {proc[q].on : q \in InFlight({"refresh", "logout"})}
    /\ UNCHANGED <<otp, expired, active, proc, cleaning, stepUps, superseded, mail>>

-----------------------------------------------------------------------------
(* One-time codes and step-up tokens                                       *)

OtpCall(p, op, c) ==
    /\ Begin(p, op, "read", c)
    /\ raced' = IF InFlight({"store", "consume"}) # {} THEN raced \cup {None} ELSE raced

\* storeOtpCode deletes the subject's rows and then inserts the new one.
DeleteCodes(p) ==
    /\ proc[p].op = "store" /\ proc[p].pc = "read"
    /\ otp' = [c \in Codes |-> IF otp[c].state \in {"stored", "used"}
                               THEN [otp[c] EXCEPT !.state = "deleted"] ELSE otp[c]]
    /\ Step(p, "insert")
    /\ UNCHANGED <<session, expired, active, cleaning, calls, history, mail>>

InsertCode(p) ==
    LET c == proc[p].on IN
    /\ proc[p].op = "store" /\ proc[p].pc = "insert"
    /\ otp' = [otp EXCEPT ![c].state = "stored"]
    /\ cut' = cut \ {c}
    /\ Step(p, "mail")
    /\ UNCHANGED <<session, expired, active, cleaning, calls, history, known, unsent>>

\* The notification service's sendEmailOtp: the SMTP server takes the mail, or
\* is not configured or refuses.
SendEmailOtp(c) ==
    \/ known' = known \cup {c} /\ UNCHANGED unsent
    \/ unsent' = unsent \cup {c} /\ UNCHANGED known

\* sendEmailOtpViaNotification: the handler returns an answer or an error (a
\* time-out may report a mail that went out as one); the row stays either way.
MailCode(p) ==
    /\ proc[p].op = "store" /\ proc[p].pc = "mail"
    /\ SendEmailOtp(proc[p].on)
    /\ Return(p)
    /\ UNCHANGED <<rows, cleaning, calls, history, cut>>

\* consumeOtpCode reads the newest row that is neither used nor expired.
Candidates == {c \in Codes : otp[c].state = "stored" /\ <<"code", c>> \notin expired}
Newest(c) == c \in Candidates /\ \A d \in Candidates : d <= c

\* The code given is compared with that row's, which the handler now holds.
ReadCode(p) ==
    LET c == proc[p].on IN
    /\ proc[p].op = "consume" /\ proc[p].pc = "read"
    /\ \/ Candidates = {} /\ Return(p)
       \/ \E n \in Codes :
             /\ Newest(n)
             /\ proc' = [proc EXCEPT ![p].pc = IF n = c THEN "save" ELSE "reject",
                                     ![p].on = n, ![p].row = otp[n]]
    /\ superseded' = IF Newest(c) /\ \E d \in Codes : d > c /\ otp[d].state # "none"
                     THEN superseded \cup {c} ELSE superseded
    /\ UNCHANGED <<rows, cleaning, calls, successors, stepUps, raced, mail>>

\* A wrong code: the copy is saved with one attempt more and usedAt as read.
RejectCode(p) ==
    /\ proc[p].op = "consume" /\ proc[p].pc = "reject"
    /\ otp' = [otp EXCEPT ![proc[p].on] = [proc[p].row EXCEPT !.attempts = @ + 1]]
    /\ Return(p)
    /\ UNCHANGED <<session, expired, active, cleaning, calls, history, mail>>

\* The right code: usedAt is saved.
AcceptCode(p) ==
    /\ proc[p].op = "consume" /\ proc[p].pc = "save"
    /\ otp' = [otp EXCEPT ![proc[p].on] = [proc[p].row EXCEPT !.state = "used"]]
    /\ Step(p, "issue")
    /\ UNCHANGED <<session, expired, active, cleaning, calls, history, mail>>

\* issueStepUpToken inserts the token.  Sign-up verification answers instead.
GrantStepUp(p) ==
    /\ proc[p].op = "consume" /\ proc[p].pc = "issue"
    /\ stepUps' = [stepUps EXCEPT ![proc[p].on] = @ + 1]
    /\ Return(p)
    /\ UNCHANGED <<rows, cleaning, calls, successors, superseded, raced, mail>>

-----------------------------------------------------------------------------
(* Faults, time, the operator, and the cleanup job                         *)

\* The service stops or a statement fails: what the handler still had to do is
\* not done.  storeOtpCode may have deleted the codes and not stored the new
\* one, or stored one that is not sent; a used code may grant no token.
Stop(p) ==
    LET x == proc[p] IN
    /\ x.pc # "idle"
    /\ cut' = IF \/ x.op = "store" /\ x.pc # "read"
                 \/ x.op = "consume" /\ x.pc = "issue"
              THEN cut \cup {x.on} ELSE cut
    /\ Return(p)
    /\ UNCHANGED <<rows, cleaning, calls, history, known, unsent>>

Expire(x) ==
    /\ x \notin expired
    /\ expired' = expired \cup {x}
    /\ UNCHANGED <<session, otp, active, proc, cleaning, calls, history, mail>>

Block ==
    /\ active
    /\ active' = FALSE
    /\ UNCHANGED <<session, otp, expired, proc, cleaning, calls, history, mail>>

\* cleanupExpiredAndRevokedSessions: its deletes, one statement after the other
\* (the last, of expired step-up tokens, has no row here), the job ending early
\* where one fails.
StartCleanup ==
    /\ cleaning = 0
    /\ calls < MaxCalls /\ calls' = calls + 1
    /\ cleaning' = 1
    /\ UNCHANGED <<rows, proc, history, mail>>

DeletedSession(k, t) ==
    IF /\ session[t].state \in {"live", "revoked"}
       /\ \/ k = 1 /\ <<"token", t>> \in expired
          \/ k = 2 /\ session[t].state = "revoked"
    THEN [session[t] EXCEPT !.state = "deleted"] ELSE session[t]

\* Mutant: the job deletes a code by its age or its use, whichever is missing.
DeletedEarly(k, c) ==
    IF /\ otp[c].state \in {"stored", "used"}
       /\ \/ k = 3 /\ <<"code", c>> \in expired
          \/ k = 4 /\ otp[c].state # "used"
    THEN [otp[c] EXCEPT !.state = "deleted"] ELSE otp[c]

DeletedCode(k, c) ==
    IF /\ otp[c].state \in {"stored", "used"}
       /\ \/ k = 3 /\ <<"code", c>> \in expired
          \/ k = 4 /\ otp[c].state = "used"
    THEN [otp[c] EXCEPT !.state = "deleted"] ELSE otp[c]

Cleanup ==
    /\ cleaning > 0
    /\ session' = [t \in Tokens |-> DeletedSession(cleaning, t)]
    /\ otp' = [c \in Codes |-> DeletedCode(cleaning, c)]
    /\ cleaning' \in {0, (cleaning + 1) % 5}
    /\ UNCHANGED <<expired, active, proc, calls, history, mail>>

-----------------------------------------------------------------------------
\* Codes are stored in order; a user may offer any code received so far.
NextCode(c) == /\ otp[c].state = "none"
               /\ \A d \in Codes : d < c => otp[d].state # "none"
               /\ \A q \in InFlight({"store"}) : proc[q].on # c

Request(p) ==
    \/ Login(p) \/ DevLogin(p)
    \/ \E t \in Tokens : TokenCall(p, "refresh", t) \/ TokenCall(p, "logout", t)
    \/ \E c \in Codes : NextCode(c) /\ OtpCall(p, "store", c)
    \/ \E c \in known : OtpCall(p, "consume", c)

Handle(p) ==
    \/ ReadToken(p) \/ SaveRevoked(p) \/ CheckUser(p) \/ IssueTokens(p)
    \/ DeleteCodes(p) \/ InsertCode(p) \/ MailCode(p)
    \/ ReadCode(p) \/ RejectCode(p) \/ AcceptCode(p) \/ GrantStepUp(p)

Next ==
    \/ \E p \in Procs : Request(p) \/ Handle(p) \/ Stop(p)
    \/ LogoutAll \/ Block \/ StartCleanup \/ Cleanup
    \/ \E t \in Tokens : session[t].state # "none" /\ Expire(<<"token", t>>)
    \/ \E c \in Codes : otp[c].state # "none" /\ Expire(<<"code", c>>)

Spec == Init /\ [][Next]_vars

-----------------------------------------------------------------------------
(* Properties                                                              *)

\* A session that was revoked or deleted never becomes usable again, although
\* refreshAccessToken and revokeRefreshToken save copies read before a
\* logout-all or the cleanup job and insert a deleted row anew.
RevokedStaysRevoked ==
    [][\A t \in Tokens : session[t].state \in {"revoked", "deleted"}
                         => session'[t].state \in {"revoked", "deleted"}]_vars

\* No refresh token is usable once it has a successor: in every interleaving
\* of two refreshes, logouts and the cleanup job, issueTokens comes after the
\* revocation of the token that was presented.
RotatedTokenIsDead ==
    \A t, u \in Tokens : session[u].parent = t => session[t].state \in {"revoked", "deleted"}

\* A refresh token is spent once, by a rotation or by a logout, unless two
\* calls with it were running at the same time (refreshAccessToken reads the
\* row and saves it later without a lock).
TokenSpentOnce == \A t \in Tokens : successors[t] > 1 => t \in raced

\* A one-time code grants one step-up token at most, and none once a newer
\* code was stored, unless calls for the subject overlapped (consumeOtpCode
\* reads and saves in two steps, storeOtpCode deletes and inserts in two).
CodeWorksOnce ==
    None \notin raced => /\ \A c \in Codes : stepUps[c] <= 1
                         /\ superseded = {}

\* The newest code the user has been sent works until it expires or is used,
\* whatever the cleanup job deletes, unless a code stored after it was not
\* sent (storeOtpCode has deleted the user's code by then), the storing of one
\* ended between its delete and its insert, the code's own use ended before
\* the token, or calls for the subject overlapped.
SentCodeWorks ==
    \A c \in known :
        /\ <<"code", c>> \notin expired
        /\ stepUps[c] = 0 /\ InFlight({"store", "consume"}) = {}
        /\ c \notin cut /\ \A d \in known \cup unsent \cup cut : d <= c
        /\ None \notin raced
        => Newest(c)

\* Refresh tokens rotate: the presented one is dead before its successor exists
\* and is spent once, but for calls that overlapped.
TokensRotate == RotatedTokenIsDead /\ TokenSpentOnce

\* One-time codes: the one a user was last sent works, and works once, but for
\* overlapping calls, a newer code that was not stored or whose e-mail did not
\* go out, and a use that ended before its token.
CodesWorkOnce == CodeWorksOnce /\ SentCodeWorks

=============================================================================
