------------------------- MODULE AuthSessions_proofs -------------------------
(***************************************************************************)
(* Proofs about AuthSessions for any number of handlers, tokens, codes and *)
(* calls.                                                                  *)
(*                                                                         *)
(* A handler acts on what it read some steps ago, so each property needs   *)
(* an invariant that says what a handler at each await still knows: that   *)
(* the token it rotates is dead (TokenInv), and, as long as no two calls   *)
(* for the subject have overlapped, which codes can be live under a        *)
(* handler that stores or consumes one (CodeInv).                          *)
(***************************************************************************)
EXTENDS AuthSessions, TLAPS

Sessions == [state : {"none", "live", "revoked", "deleted"}, parent : Tokens \cup {None}]
CodeRows == [state : {"none", "stored", "used", "deleted"}, attempts : Nat]
Positions == {"idle", "read", "save", "user", "issue", "insert", "mail", "reject"}
Operations == {"none", "login", "devLogin", "refresh", "logout", "store", "consume"}
Handlers == [op : Operations, pc : Positions, on : Nat,
             row : [state : {"none", "stored"}, attempts : Nat]]

\* A handler's operation says what it works on and where it can be.
HandlerOK(h) ==
    /\ h.op = "none" <=> h.pc = "idle"
    /\ h.op \in {"refresh", "logout"} => h.on \in Tokens
    /\ h.op = "refresh" => h.pc \in {"read", "save", "user", "issue"}
    /\ h.op = "logout" => h.pc \in {"read", "save"}
    /\ h.op \in {"login", "devLogin"} => h.on = None /\ h.pc \in {"user", "issue"}
    /\ h.op = "store" => h.on \in Codes /\ h.pc \in {"read", "insert", "mail"}
    /\ h.op = "consume" =>
        /\ h.on \in Codes /\ h.pc \in {"read", "save", "reject", "issue"}
        /\ h.pc \in {"save", "reject"} => h.row.state = "stored"

AuthType ==
    /\ session \in [Tokens -> Sessions]
    /\ otp \in [Codes -> CodeRows]
    /\ proc \in [Procs -> Handlers]
    /\ successors \in [Tokens -> Nat]
    /\ stepUps \in [Codes -> Nat]
    /\ known \subseteq Codes /\ unsent \subseteq Codes /\ cut \subseteq Codes
    /\ \A p \in Procs : HandlerOK(proc[p])

-----------------------------------------------------------------------------
\* Tokens are numbers.
LEMMA TokensAreNumbers ==
    /\ Tokens \subseteq Nat \ {0} /\ Codes \subseteq Nat \ {0} /\ None = 0
BY AuthSessionsAssumption DEF Tokens, Codes, None

\* A handler between two calls.
LEMMA IdleFacts == Idle \in Handlers /\ Idle.op = "none" /\ Idle.pc = "idle" /\ HandlerOK(Idle)
BY DEF Idle, Handlers, NoCode, None, Operations, Positions, HandlerOK

\* A handler moves on to pc, or returns: the others stay where they are.
LEMMA HandlerSteps ==
    ASSUME AuthType, NEW p \in Procs, NEW pc \in Positions
    PROVE  /\ Step(p, pc) =>
                /\ proc' \in [Procs -> Handlers]
                /\ proc'[p].op = proc[p].op /\ proc'[p].pc = pc /\ proc'[p].on = proc[p].on
                /\ proc'[p].row = proc[p].row
                /\ \A q \in Procs : q # p => proc'[q] = proc[q]
           /\ Return(p) =>
                /\ proc' \in [Procs -> Handlers] /\ proc'[p] = Idle
                /\ \A q \in Procs : q # p => proc'[q] = proc[q]
<1>1. proc \in [Procs -> Handlers] /\ proc[p] \in Handlers
  BY DEF AuthType
<1>2. ASSUME Step(p, pc)
      PROVE  /\ proc' \in [Procs -> Handlers]
             /\ proc'[p].op = proc[p].op /\ proc'[p].pc = pc /\ proc'[p].on = proc[p].on
             /\ proc'[p].row = proc[p].row
             /\ \A q \in Procs : q # p => proc'[q] = proc[q]
  <2> DEFINE h == [proc[p] EXCEPT !.pc = pc]
  <2>1. proc' = [proc EXCEPT ![p] = h]
    BY <1>2 DEF Step
  <2>2. /\ h \in Handlers /\ h.op = proc[p].op /\ h.pc = pc /\ h.on = proc[p].on
        /\ h.row = proc[p].row
    BY <1>1 DEF Handlers
  <2> HIDE DEF h
  <2> QED
    BY <1>1, <2>1, <2>2
<1>3. Return(p) => /\ proc' \in [Procs -> Handlers] /\ proc'[p] = Idle
                   /\ \A q \in Procs : q # p => proc'[q] = proc[q]
  BY <1>1, IdleFacts DEF Return
<1> QED
  BY <1>2, <1>3

\* A call begins in a free handler.
LEMMA BeginFacts ==
    ASSUME AuthType, NEW p \in Procs, NEW op \in Operations, NEW pc \in Positions, NEW on \in Nat,
           Begin(p, op, pc, on)
    PROVE  /\ proc' \in [Procs -> Handlers] /\ proc[p].op = "none"
           /\ proc'[p].op = op /\ proc'[p].pc = pc /\ proc'[p].on = on
           /\ \A q \in Procs : q # p => proc'[q] = proc[q]
           /\ UNCHANGED <<rows, successors, stepUps, superseded, mail>>
<1> DEFINE h == [op |-> op, pc |-> pc, on |-> on, row |-> NoCode]
<1>1. h \in Handlers /\ h.op = op /\ h.pc = pc /\ h.on = on
  BY DEF Handlers, NoCode
<1>2. proc' = [proc EXCEPT ![p] = h] /\ proc[p].pc = "idle"
  BY DEF Begin
<1> HIDE DEF h
<1> QED
  BY <1>1, <1>2 DEF AuthType, Begin, HandlerOK

\* The type of a step that changes one handler only.
LEMMA TypeAfter ==
    ASSUME AuthType, NEW p \in Procs, proc' \in [Procs -> Handlers],
           \A q \in Procs : q # p => proc'[q] = proc[q], HandlerOK(proc'[p]),
           session' \in [Tokens -> Sessions], otp' \in [Codes -> CodeRows],
           successors' \in [Tokens -> Nat], stepUps' \in [Codes -> Nat],
           known' \subseteq Codes, unsent' \subseteq Codes, cut' \subseteq Codes
    PROVE  AuthType'
BY DEF AuthType

\* A new call keeps the types.
LEMMA RequestType ==
    ASSUME AuthType, NEW p \in Procs, Request(p)
    PROVE  AuthType'
<1>1. ASSUME NEW op \in Operations, NEW pc \in Positions, NEW on \in Nat, Begin(p, op, pc, on),
             \A h : h.op = op /\ h.pc = pc /\ h.on = on => HandlerOK(h)
      PROVE  AuthType'
  <2>1. HandlerOK(proc'[p])
    BY <1>1, BeginFacts
  <2> QED
    BY <1>1, <2>1, BeginFacts, TypeAfter DEF rows, mail, AuthType
<1>2. CASE Login(p) \/ DevLogin(p)
  BY <1>1, <1>2 DEF Login, DevLogin, None, Operations, Positions, HandlerOK
<1>3. ASSUME NEW t \in Tokens, TokenCall(p, "refresh", t) \/ TokenCall(p, "logout", t)
      PROVE  AuthType'
  BY <1>1, <1>3, TokensAreNumbers DEF TokenCall, Operations, Positions, HandlerOK
<1>4. ASSUME NEW c \in Codes, OtpCall(p, "store", c) \/ OtpCall(p, "consume", c)
      PROVE  AuthType'
  BY <1>1, <1>4, TokensAreNumbers DEF OtpCall, Operations, Positions, HandlerOK
<1> QED
  BY <1>2, <1>3, <1>4 DEF Request, AuthType

\* The steps of a call keep the types.
LEMMA HandleType ==
    ASSUME AuthType, NEW p \in Procs, Handle(p)
    PROVE  AuthType'
<1> DEFINE h == proc[p]
<1>0. h \in Handlers /\ HandlerOK(h) /\ HandlerOK(Idle)
  BY IdleFacts DEF AuthType
<1> USE DEF Positions
<1>1. CASE ReadToken(p)
  <2>1. HandlerOK(proc'[p])
    BY <1>0, <1>1, HandlerSteps DEF ReadToken, HandlerOK
  <2> QED
    BY <1>1, <2>1, HandlerSteps, TypeAfter DEF ReadToken, rows, history, mail, AuthType
<1>2. CASE SaveRevoked(p)
  <2>1. h.on \in Tokens
    BY <1>0, <1>2 DEF SaveRevoked, HandlerOK
  <2>2. session' \in [Tokens -> Sessions] /\ successors' \in [Tokens -> Nat]
    BY <1>2, <2>1 DEF SaveRevoked, AuthType, Sessions
  <2>3. HandlerOK(proc'[p])
    BY <1>0, <1>2, HandlerSteps DEF SaveRevoked, HandlerOK
  <2> QED
    BY <1>2, <2>2, <2>3, HandlerSteps, TypeAfter DEF SaveRevoked, mail, AuthType
<1>3. CASE CheckUser(p)
  <2>1. HandlerOK(proc'[p])
    BY <1>0, <1>3, HandlerSteps DEF CheckUser, HandlerOK
  <2> QED
    BY <1>3, <2>1, HandlerSteps, TypeAfter DEF CheckUser, rows, history, mail, AuthType
<1>4. CASE IssueTokens(p)
  <2>1. h.on \in Tokens \cup {None}
    BY <1>0, <1>4 DEF IssueTokens, HandlerOK
  <2>2. session' \in [Tokens -> Sessions]
    BY <1>4, <2>1 DEF IssueTokens, AuthType, Sessions
  <2>3. successors' \in [Tokens -> Nat]
    BY <1>4, <2>1 DEF IssueTokens, AuthType
  <2> QED
    BY <1>0, <1>4, <2>2, <2>3, HandlerSteps, TypeAfter DEF IssueTokens, mail, AuthType
<1>5. CASE DeleteCodes(p)
  <2>1. otp' \in [Codes -> CodeRows]
    BY <1>5 DEF DeleteCodes, AuthType, CodeRows
  <2>2. HandlerOK(proc'[p])
    BY <1>0, <1>5, HandlerSteps DEF DeleteCodes, HandlerOK
  <2> QED
    BY <1>5, <2>1, <2>2, HandlerSteps, TypeAfter DEF DeleteCodes, history, mail, AuthType
<1>6. CASE InsertCode(p)
  <2>1. otp' \in [Codes -> CodeRows]
    BY <1>6 DEF InsertCode, AuthType, CodeRows
  <2>2. HandlerOK(proc'[p])
    BY <1>0, <1>6, HandlerSteps DEF InsertCode, HandlerOK
  <2> QED
    BY <1>6, <2>1, <2>2, HandlerSteps, TypeAfter DEF InsertCode, history, mail, AuthType
<1>7. CASE MailCode(p)
  <2>1. known' \subseteq Codes /\ unsent' \subseteq Codes
    BY <1>0, <1>7, SMTT(60) DEF MailCode, SendEmailOtp, HandlerOK, AuthType
  <2> QED
    BY <1>0, <1>7, <2>1, HandlerSteps, TypeAfter DEF MailCode, rows, history, AuthType
<1>8. CASE ReadCode(p)
  <2>1. CASE Return(p)
    BY <1>0, <1>8, <2>1, HandlerSteps, TypeAfter, ZenonT(60) DEF ReadCode, rows, mail, AuthType
  <2>2. ASSUME NEW n \in Codes, Newest(n),
               proc' = [proc EXCEPT ![p].pc = IF n = proc[p].on THEN "save" ELSE "reject",
                                    ![p].on = n, ![p].row = otp[n]]
        PROVE  AuthType'
    <3> DEFINE g == [h EXCEPT !.pc = IF n = h.on THEN "save" ELSE "reject", !.on = n, !.row = otp[n]]
    <3>1. proc' = [proc EXCEPT ![p] = g]
      BY <2>2 DEF AuthType
    <3>2. otp[n] \in [state : {"none", "stored"}, attempts : Nat] /\ otp[n].state = "stored"
      BY <2>2 DEF AuthType, Newest, Candidates, CodeRows
    <3>3. n \in Nat
      BY TokensAreNumbers
    <3>4. g \in Handlers /\ g.op = h.op /\ g.pc \in {"save", "reject"} /\ g.on = n /\ g.row = otp[n]
      BY <1>0, <3>2, <3>3 DEF Handlers
    <3> HIDE DEF g
    <3>5. /\ proc' \in [Procs -> Handlers] /\ proc'[p] = g
          /\ \A q \in Procs : q # p => proc'[q] = proc[q]
      BY <3>1, <3>4 DEF AuthType
    <3>6. HandlerOK(g)
      BY <1>8, <3>2, <3>4 DEF HandlerOK, ReadCode
    <3> QED
      BY <1>8, <3>5, <3>6, TypeAfter DEF ReadCode, rows, mail, AuthType
  <2> QED
    BY <1>8, <2>1, <2>2, ZenonT(60) DEF ReadCode
<1>9. CASE RejectCode(p) \/ AcceptCode(p)
  <2>1. h.row \in [state : {"none", "stored"}, attempts : Nat] /\ h.row.attempts + 1 \in Nat
    BY <1>0 DEF Handlers
  <2>2. otp' \in [Codes -> CodeRows]
    BY <1>9, <2>1 DEF RejectCode, AcceptCode, AuthType, CodeRows
  <2>3. HandlerOK(proc'[p])
    BY <1>0, <1>9, HandlerSteps DEF RejectCode, AcceptCode, HandlerOK
  <2> QED
    BY <1>9, <2>2, <2>3, HandlerSteps, TypeAfter DEF RejectCode, AcceptCode, history, mail, AuthType
<1>10. CASE GrantStepUp(p)
  <2>1. stepUps' \in [Codes -> Nat]
    <3>1. h.on \in Codes
      BY <1>0, <1>10 DEF GrantStepUp, HandlerOK
    <3> QED
      BY <1>10, <3>1 DEF GrantStepUp, AuthType
  <2> QED
    BY <1>0, <1>10, <2>1, HandlerSteps, TypeAfter DEF GrantStepUp, rows, mail, AuthType
<1> QED
  BY <1>1, <1>2, <1>3, <1>4, <1>5, <1>6, <1>7, <1>8, <1>9, <1>10 DEF Handle

\* A handler that stops half way keeps the types.
LEMMA StopType ==
    ASSUME AuthType, NEW p \in Procs, Stop(p)
    PROVE  AuthType'
<1>1. proc' \in [Procs -> Handlers] /\ HandlerOK(proc'[p]) /\ \A q \in Procs : q # p => proc'[q] = proc[q]
  BY HandlerSteps, IdleFacts DEF Stop, Positions
<1>2. /\ UNCHANGED <<session, otp, successors, stepUps, known, unsent>>
      /\ cut' \subseteq Codes
  BY DEF Stop, rows, history, AuthType, HandlerOK
<1> QED
  BY <1>1, <1>2, TypeAfter DEF AuthType

\* The steps that no handler takes.
Outside ==
    \/ LogoutAll \/ Block \/ StartCleanup \/ Cleanup
    \/ \E t \in Tokens : session[t].state # "none" /\ Expire(<<"token", t>>)
    \/ \E c \in Codes : otp[c].state # "none" /\ Expire(<<"code", c>>)

\* What happens outside the handlers keeps the types.
LEMMA OutsideType ==
    ASSUME AuthType, Outside
    PROVE  AuthType'
<1>1. CASE LogoutAll
  BY <1>1 DEF LogoutAll, AuthType, Sessions, mail
<1>2. CASE Cleanup
  BY <1>2 DEF Cleanup, DeletedSession, DeletedCode, AuthType, Sessions, CodeRows, history, mail
<1>3. CASE UNCHANGED <<session, otp, proc, history, mail>>
  BY <1>3 DEF AuthType, history, mail
<1> QED
  BY <1>1, <1>2, <1>3 DEF Outside, Block, StartCleanup, Expire, rows

\* Every step keeps the types.
LEMMA AuthTypeStep == AuthType /\ [Next]_vars => AuthType'
<1> SUFFICES ASSUME AuthType, [Next]_vars PROVE AuthType'
  OBVIOUS
<1>1. CASE UNCHANGED vars
  BY <1>1 DEF vars, rows, mail, history, AuthType
<1> QED
  BY <1>1, RequestType, HandleType, StopType, OutsideType DEF Next, Outside

\* The types hold at the start.
LEMMA InitAuthType == Init => AuthType
BY IdleFacts DEF Init, AuthType, NoSession, NoCode, None, Sessions, CodeRows

-----------------------------------------------------------------------------
(* Refresh tokens.                                                         *)

Dead(t) == session[t].state \in {"revoked", "deleted"}

\* Handler p works on token t.
On(p, t) == proc[p].op \in {"refresh", "logout"} /\ proc[p].on = t

\* A refresh past its save holds a dead token; the token it was given exists.
TokenHeld(p) ==
    /\ proc[p].op \in {"refresh", "logout"} => session[proc[p].on].state # "none"
    /\ proc[p].op = "refresh" /\ proc[p].pc \in {"user", "issue"} => Dead(proc[p].on)

\* Unless calls with t have overlapped, one handler at most works on it, and
\* has not spent it before it is past the last step.
Spent(t) ==
    /\ successors[t] <= 1
    /\ session[t].state \in {"none", "live"} => successors[t] = 0
    /\ \A p \in Procs : On(p, t) /\ proc[p].pc # "read" => successors[t] = 0
    /\ \A p, q \in Procs : On(p, t) /\ On(q, t) => p = q

TokenInv ==
    /\ RotatedTokenIsDead
    /\ \A p \in Procs : TokenHeld(p)
    /\ \A t \in Tokens \ raced : Spent(t)

\* No step makes a token that was revoked or deleted usable, or unknown.
LEMMA DeadStays ==
    ASSUME AuthType, Next, NEW t \in Tokens
    PROVE  /\ Dead(t) => Dead(t)'
           /\ session[t].state # "none" => session'[t].state # "none"
<1>1. ASSUME UNCHANGED session PROVE Dead(t)' = Dead(t) /\ session'[t].state = session[t].state
  BY <1>1 DEF Dead
<1>2. ASSUME NEW p \in Procs, SaveRevoked(p)
      PROVE  session'[t].state = session[t].state \/ session'[t].state = "revoked"
  BY <1>2 DEF SaveRevoked, AuthType, Sessions
<1>3. ASSUME NEW p \in Procs, IssueTokens(p)
      PROVE  session'[t] = session[t] \/ session[t].state = "none"
  BY <1>3 DEF IssueTokens, Fresh, AuthType
<1>4. ASSUME LogoutAll
      PROVE  session'[t].state = session[t].state \/ session'[t].state = "revoked"
  BY <1>4 DEF LogoutAll, AuthType, Sessions
<1>5. ASSUME Cleanup
      PROVE  session'[t].state = session[t].state \/ session'[t].state = "deleted"
  BY <1>5, SMTT(60) DEF Cleanup, DeletedSession, AuthType, Sessions
<1>6. \/ UNCHANGED session
      \/ LogoutAll \/ Cleanup
      \/ \E p \in Procs : SaveRevoked(p) \/ IssueTokens(p)
  BY ZenonT(60) DEF Next, Request, Login, DevLogin, TokenCall, OtpCall, Begin, Handle, ReadToken, CheckUser,
         DeleteCodes, InsertCode, MailCode, ReadCode, RejectCode, AcceptCode, GrantStepUp, Stop,
         Block, StartCleanup, Expire, rows
<1> QED
  BY <1>1, <1>2, <1>3, <1>4, <1>5, <1>6 DEF Dead

\* In every behaviour a session that was revoked or deleted stays so, although
\* handlers save copies read before and insert deleted rows anew.
THEOREM RevocationsStand == Spec => RevokedStaysRevoked
<1> DEFINE Kept == \A t \in Tokens : session[t].state \in {"revoked", "deleted"}
                                     => session'[t].state \in {"revoked", "deleted"}
<1>1. AuthType /\ [Next]_vars => [Kept]_vars
  BY DeadStays DEF Dead
<1> QED
  BY <1>1, InitAuthType, AuthTypeStep, PTL DEF Spec, RevokedStaysRevoked

\* The handlers that work on tokens are known by their place, and a step of
\* one that does not leaves the tokens alone.
LEMMA TokenInvStays ==
    ASSUME AuthType, TokenInv, NEW p \in Procs,
           \A q \in Procs : q # p => proc'[q] = proc[q],
           proc[p].op \notin {"refresh", "logout"}, proc'[p].op \notin {"refresh", "logout"},
           session' = session, successors' = successors, raced \ {None} \subseteq raced'
    PROVE  TokenInv'
<1>1. RotatedTokenIsDead'
  BY DEF TokenInv, RotatedTokenIsDead
<1>2. \A q \in Procs : TokenHeld(q)'
  BY DEF TokenInv, TokenHeld, Dead
<1>3. ASSUME NEW t \in Tokens, t \notin raced' PROVE Spent(t)'
  <2>1. Spent(t)
    BY <1>3, TokensAreNumbers DEF TokenInv
  <2>2. \A q \in Procs : On(q, t)' => On(q, t) /\ proc'[q] = proc[q]
    BY DEF On
  <2> QED
    BY <2>1, <2>2 DEF Spent
<1> QED
  BY <1>1, <1>2, <1>3 DEF TokenInv

\* A call with a token begins.
LEMMA TokenCallInv ==
    ASSUME AuthType, TokenInv, NEW p \in Procs, NEW t \in Tokens, NEW op \in {"refresh", "logout"},
           TokenCall(p, op, t)
    PROVE  TokenInv'
<1>1. /\ proc[p].op = "none" /\ proc'[p].op = op /\ proc'[p].pc = "read" /\ proc'[p].on = t
      /\ \A q \in Procs : q # p => proc'[q] = proc[q]
      /\ session' = session /\ successors' = successors
  BY BeginFacts, TokensAreNumbers DEF TokenCall, Operations, Positions, rows
<1>2. RotatedTokenIsDead'
  BY <1>1 DEF TokenInv, RotatedTokenIsDead
<1>3. \A q \in Procs : TokenHeld(q)'
  BY <1>1 DEF TokenInv, TokenHeld, Dead, TokenCall
<1>4. ASSUME NEW u \in Tokens, u \notin raced' PROVE Spent(u)'
  <2>1. Spent(u)
    BY <1>4 DEF TokenCall, TokenInv
  <2>2. u = t => \A q \in Procs : ~On(q, t)
    BY <1>4 DEF TokenCall, InFlight, On
  <2>3. \A q \in Procs : On(q, u)' <=> (IF q = p THEN u = t ELSE On(q, u))
    BY <1>1 DEF On
  <2> QED
    BY <1>1, <2>1, <2>2, <2>3 DEF Spent
<1> QED
  BY <1>2, <1>3, <1>4 DEF TokenInv

\* The row is read and found usable, or the call is refused.
LEMMA ReadTokenInv ==
    ASSUME AuthType, TokenInv, NEW p \in Procs, ReadToken(p)
    PROVE  TokenInv'
<1> DEFINE t == proc[p].on
<1>1. /\ t \in Tokens /\ session' = session /\ successors' = successors /\ raced' = raced
      /\ proc[p].op \in {"refresh", "logout"}
  BY DEF ReadToken, rows, history, AuthType, HandlerOK
<1>2. /\ \A q \in Procs : q # p => proc'[q] = proc[q]
      /\ \/ proc'[p].op = "none"
         \/ /\ proc'[p].op = proc[p].op /\ proc'[p].on = t /\ proc'[p].pc = "save"
            /\ session[t].state = "live"
  BY HandlerSteps, IdleFacts DEF ReadToken, Usable, Positions
<1>3. RotatedTokenIsDead'
  BY <1>1 DEF TokenInv, RotatedTokenIsDead
<1>4. \A q \in Procs : TokenHeld(q)'
  BY <1>1, <1>2 DEF TokenInv, TokenHeld, Dead
<1>5. ASSUME NEW u \in Tokens, u \notin raced' PROVE Spent(u)'
  <2>1. Spent(u)
    BY <1>1, <1>5 DEF TokenInv
  <2>2. \A q \in Procs : On(q, u)' => On(q, u)
    BY <1>1, <1>2 DEF On
  <2>3. On(p, u)' => successors[u] = 0
    BY <1>1, <1>2, <2>1 DEF On, Spent
  <2> QED
    BY <1>1, <1>2, <2>1, <2>2, <2>3 DEF Spent
<1> QED
  BY <1>3, <1>4, <1>5 DEF TokenInv

\* The revoked copy is saved.
LEMMA SaveInv ==
    ASSUME AuthType, TokenInv, NEW p \in Procs, SaveRevoked(p)
    PROVE  TokenInv'
<1> DEFINE t == proc[p].on
<1>1. /\ t \in Tokens /\ raced' = raced /\ proc[p].op \in {"refresh", "logout"}
      /\ proc[p].pc = "save" /\ On(p, t)
  BY DEF SaveRevoked, AuthType, HandlerOK, On
<1>2. /\ session'[t].state = "revoked"
      /\ \A u \in Tokens : u # t => session'[u] = session[u]
      /\ \A u \in Tokens : session'[u].parent = session[u].parent
  BY <1>1 DEF SaveRevoked, AuthType, Sessions
<1>3. /\ \A q \in Procs : q # p => proc'[q] = proc[q]
      /\ \/ /\ proc'[p].op = "none" /\ successors' = [successors EXCEPT ![t] = @ + 1]
         \/ /\ proc'[p].op = proc[p].op /\ proc'[p].on = t /\ proc'[p].pc = "user"
            /\ successors' = successors
  BY HandlerSteps, IdleFacts DEF SaveRevoked, Positions
<1>4. RotatedTokenIsDead'
  BY <1>2 DEF TokenInv, RotatedTokenIsDead
<1>5. \A q \in Procs : TokenHeld(q)'
  <2> SUFFICES ASSUME NEW q \in Procs PROVE TokenHeld(q)'
    OBVIOUS
  <2>1. proc[q].op \in {"refresh", "logout"} => proc[q].on \in Tokens
    BY DEF AuthType, HandlerOK
  <2>2. TokenHeld(q)
    BY DEF TokenInv
  <2> QED
    BY <1>1, <1>2, <1>3, <2>1, <2>2 DEF TokenHeld, Dead
<1>6. ASSUME NEW u \in Tokens, u \notin raced' PROVE Spent(u)'
  <2>1. Spent(u) /\ successors \in [Tokens -> Nat]
    BY <1>1, <1>6 DEF TokenInv, AuthType
  <2>2. \A q \in Procs : On(q, u)' => On(q, u)
    BY <1>1, <1>3 DEF On
  <2>3. CASE u # t
    <3>1. successors'[u] = successors[u] /\ session'[u] = session[u]
      BY <1>1, <1>2, <1>3, <2>1, <2>3
    <3>2. \A q \in Procs : On(q, u)' => q # p /\ proc'[q] = proc[q]
      BY <1>1, <1>3, <2>3 DEF On
    <3> QED
      BY <2>1, <2>2, <3>1, <3>2 DEF Spent
  <2>4. CASE u = t
    <3>1. successors[u] = 0 /\ \A q \in Procs : On(q, u) => q = p
      BY <1>1, <2>1, <2>4 DEF Spent
    <3>2. successors'[u] \in {0, 1} /\ (On(p, u)' => successors'[u] = 0)
      BY <1>1, <1>3, <2>1, <2>4, <3>1 DEF On
    <3>3. \A q \in Procs : On(q, u)' => q = p
      BY <2>2, <3>1
    <3>4. session'[u].state = "revoked"
      BY <1>2, <2>4
    <3> QED
      BY <3>2, <3>3, <3>4 DEF Spent
  <2> QED
    BY <2>3, <2>4
<1> QED
  BY <1>4, <1>5, <1>6 DEF TokenInv

\* The user is looked up: the handler goes on or gives up.
LEMMA CheckUserInv ==
    ASSUME AuthType, TokenInv, NEW p \in Procs, CheckUser(p)
    PROVE  TokenInv'
<1>1. /\ session' = session /\ successors' = successors /\ raced' = raced
      /\ proc[p].pc = "user"
  BY DEF CheckUser, rows, history
<1>2. /\ \A q \in Procs : q # p => proc'[q] = proc[q]
      /\ \/ proc'[p].op = "none"
         \/ proc'[p].op = proc[p].op /\ proc'[p].on = proc[p].on /\ proc'[p].pc = "issue"
  BY HandlerSteps, IdleFacts DEF CheckUser, Positions
<1>3. RotatedTokenIsDead'
  BY <1>1 DEF TokenInv, RotatedTokenIsDead
<1>4. \A q \in Procs : TokenHeld(q)'
  BY <1>1, <1>2 DEF TokenInv, TokenHeld, Dead
<1>5. ASSUME NEW u \in Tokens, u \notin raced' PROVE Spent(u)'
  <2>1. Spent(u)
    BY <1>1, <1>5 DEF TokenInv
  <2>2. \A q \in Procs : On(q, u)' => On(q, u) /\ (proc'[q].pc # "read" => proc[q].pc # "read")
    BY <1>1, <1>2 DEF On
  <2> QED
    BY <1>1, <2>1, <2>2 DEF Spent
<1> QED
  BY <1>3, <1>4, <1>5 DEF TokenInv

\* A new token is issued: the one it replaces is dead and now spent.
LEMMA IssueInv ==
    ASSUME AuthType, TokenInv, NEW p \in Procs, IssueTokens(p)
    PROVE  TokenInv'
<1>1. PICK t \in Tokens :
        Fresh(t) /\ session' = [session EXCEPT ![t] = [state |-> "live", parent |-> proc[p].on]]
  BY DEF IssueTokens
<1>2. /\ session[t].state = "none"
      /\ session'[t].state = "live" /\ session'[t].parent = proc[p].on
      /\ \A u \in Tokens : u # t => session'[u] = session[u]
  BY <1>1 DEF Fresh, AuthType
<1>3. /\ proc'[p].op = "none" /\ \A q \in Procs : q # p => proc'[q] = proc[q]
      /\ raced' = raced /\ proc[p].pc = "issue" /\ HandlerOK(proc[p])
      /\ proc[p].op \in {"login", "devLogin", "refresh"}
  BY HandlerSteps, IdleFacts DEF IssueTokens, Positions, AuthType
<1>4. \/ proc[p].on = None /\ successors' = successors /\ proc[p].op # "refresh"
      \/ /\ proc[p].op = "refresh" /\ proc[p].on \in Tokens /\ Dead(proc[p].on)
         /\ successors' = [successors EXCEPT ![proc[p].on] = @ + 1]
  <2>1. CASE proc[p].op = "refresh"
    <3>1. proc[p].on \in Tokens /\ proc[p].on # None /\ TokenHeld(p)
      BY <1>3, <2>1, TokensAreNumbers DEF HandlerOK, TokenInv
    <3> QED
      BY <1>3, <2>1, <3>1 DEF TokenHeld, IssueTokens
  <2>2. CASE proc[p].op # "refresh"
    BY <1>3, <2>2 DEF HandlerOK, IssueTokens
  <2> QED
    BY <2>1, <2>2
<1>5. \A u \in Tokens : Dead(u) => u # t /\ Dead(u)'
  BY <1>2 DEF Dead
<1>6. RotatedTokenIsDead'
  <2> SUFFICES ASSUME NEW u \in Tokens, NEW v \in Tokens, session'[v].parent = u
               PROVE  Dead(u)'
    BY DEF RotatedTokenIsDead, Dead
  <2>1. CASE v = t
    BY <1>2, <1>4, <1>5, <2>1, TokensAreNumbers
  <2>2. CASE v # t
    BY <1>2, <1>5, <2>2 DEF TokenInv, RotatedTokenIsDead, Dead
  <2> QED
    BY <2>1, <2>2
<1>7. ASSUME NEW q \in Procs PROVE TokenHeld(q)'
  <2>1. CASE q = p
    BY <1>3, <2>1 DEF TokenHeld
  <2>2. CASE q # p
    <3>1. proc'[q] = proc[q] /\ TokenHeld(q) /\ HandlerOK(proc[q])
      BY <1>3, <2>2 DEF TokenInv, AuthType
    <3>2. CASE proc[q].op \in {"refresh", "logout"}
      <4>1. proc[q].on \in Tokens /\ proc[q].on # t
        BY <1>2, <3>1, <3>2 DEF HandlerOK, TokenHeld
      <4> QED
        BY <1>2, <3>1, <4>1 DEF TokenHeld, Dead
    <3>3. CASE proc[q].op \notin {"refresh", "logout"}
      BY <3>1, <3>3 DEF TokenHeld
    <3> QED
      BY <3>2, <3>3
  <2> QED
    BY <2>1, <2>2
<1>8. ASSUME NEW u \in Tokens, u \notin raced' PROVE Spent(u)'
  <2>1. Spent(u) /\ successors \in [Tokens -> Nat]
    BY <1>3, <1>8 DEF TokenInv, AuthType
  <2>2. \A q \in Procs : On(q, u)' => q # p /\ On(q, u) /\ proc'[q] = proc[q]
    BY <1>3 DEF On
  <2>3. CASE proc[p].op = "refresh" /\ proc[p].on = u
    <3>1. On(p, u) /\ proc[p].pc # "read"
      BY <1>3, <2>3 DEF On
    <3>2. successors[u] = 0 /\ \A q \in Procs : On(q, u) => q = p
      BY <2>1, <3>1 DEF Spent
    <3>3. successors'[u] = 1 /\ Dead(u)'
      BY <1>4, <1>5, <2>1, <2>3, <3>2, TokensAreNumbers
    <3>4. \A q \in Procs : ~On(q, u)'
      BY <2>2, <3>2
    <3> QED
      BY <3>3, <3>4 DEF Spent, Dead
  <2>4. CASE ~(proc[p].op = "refresh" /\ proc[p].on = u)
    <3>1. successors'[u] = successors[u]
      BY <1>4, <2>1, <2>4
    <3>2. session'[u].state \in {"none", "live"} => session[u].state \in {"none", "live"}
      BY <1>2
    <3> QED
      BY <2>1, <2>2, <3>1, <3>2 DEF Spent
  <2> QED
    BY <2>3, <2>4
<1> QED
  BY <1>6, <1>7, <1>8 DEF TokenInv

\* The deletes of the cleanup job, and the one UPDATE of logout-all.
LEMMA BulkInv ==
    ASSUME AuthType, TokenInv, LogoutAll \/ Cleanup
    PROVE  TokenInv'
<1>0. Next
  BY DEF Next
<1>1. proc' = proc /\ \A t \in Tokens : session'[t].parent = session[t].parent
  BY ZenonT(60) DEF LogoutAll, Cleanup, DeletedSession, AuthType, Sessions
<1>2. \A t \in Tokens : /\ Dead(t) => Dead(t)'
                        /\ session[t].state # "none" => session'[t].state # "none"
  BY <1>0, DeadStays
<1>3. RotatedTokenIsDead'
  BY <1>1, <1>2 DEF TokenInv, RotatedTokenIsDead, Dead
<1>4. ASSUME NEW q \in Procs PROVE TokenHeld(q)'
  <2>1. TokenHeld(q) /\ HandlerOK(proc[q])
    BY DEF TokenInv, AuthType
  <2> QED
    BY <1>1, <1>2, <2>1 DEF TokenHeld, HandlerOK, Dead
<1>5. ASSUME NEW u \in Tokens, u \notin raced' PROVE Spent(u)'
  <2>1. Spent(u) /\ \A q \in Procs : On(q, u)' <=> On(q, u)
    BY <1>1, <1>5 DEF LogoutAll, Cleanup, history, TokenInv, On
  <2>2. CASE LogoutAll
    <3>1. \A q \in Procs : ~On(q, u)
      BY <1>5, <2>2 DEF LogoutAll, InFlight, On
    <3>2. CASE session[u].state = "live"
      <4>1. successors'[u] = successors[u] + 1 /\ session'[u].state = "revoked" /\ successors[u] = 0
        BY <2>1, <2>2, <3>2 DEF LogoutAll, AuthType, Sessions, Spent
      <4>2. successors'[u] = 1
        BY <4>1
      <4> QED
        BY <2>1, <3>1, <4>1, <4>2 DEF Spent
    <3>3. CASE session[u].state # "live"
      <4>1. successors'[u] = successors[u] /\ session'[u] = session[u]
        BY <2>2, <3>3 DEF LogoutAll, AuthType
      <4> QED
        BY <2>1, <3>1, <4>1 DEF Spent
    <3> QED
      BY <3>2, <3>3
  <2>3. CASE Cleanup
    <3>1. successors' = successors
      BY <2>3 DEF Cleanup, history
    <3>2. session'[u].state \in {"none", "live"} => session[u].state \in {"none", "live"}
      BY <2>3 DEF Cleanup, DeletedSession
    <3> QED
      BY <1>1, <2>1, <3>1, <3>2 DEF Spent
  <2> QED
    BY <2>2, <2>3
<1> QED
  BY <1>3, <1>4, <1>5 DEF TokenInv

\* A handler that stops leaves the tokens as they are.
LEMMA StopTokens ==
    ASSUME AuthType, TokenInv, NEW p \in Procs, Stop(p)
    PROVE  TokenInv'
<1>1. /\ proc'[p].op = "none" /\ \A q \in Procs : q # p => proc'[q] = proc[q]
      /\ session' = session /\ successors' = successors /\ raced' = raced
  BY HandlerSteps, IdleFacts DEF Stop, Positions, rows, history
<1>2. RotatedTokenIsDead'
  BY <1>1 DEF TokenInv, RotatedTokenIsDead
<1>3. \A q \in Procs : TokenHeld(q)'
  BY <1>1 DEF TokenInv, TokenHeld, Dead
<1>4. ASSUME NEW t \in Tokens, t \notin raced' PROVE Spent(t)'
  <2>1. Spent(t)
    BY <1>1, <1>4 DEF TokenInv
  <2>2. \A q \in Procs : On(q, t)' => On(q, t) /\ proc'[q] = proc[q]
    BY <1>1 DEF On
  <2> QED
    BY <1>1, <2>1, <2>2 DEF Spent
<1> QED
  BY <1>2, <1>3, <1>4 DEF TokenInv

\* Every step keeps what is known of the tokens.
LEMMA TokenInvStep == AuthType /\ TokenInv /\ [Next]_vars => TokenInv'
<1> SUFFICES ASSUME AuthType, TokenInv, [Next]_vars PROVE TokenInv'
  OBVIOUS
<1>1. ASSUME UNCHANGED <<session, proc, successors, raced>> PROVE TokenInv'
  BY <1>1 DEF TokenInv, RotatedTokenIsDead, TokenHeld, Spent, On, Dead
<1>2. ASSUME NEW p \in Procs, Request(p) PROVE TokenInv'
  <2>1. CASE Login(p) \/ DevLogin(p)
    <3>1. /\ \A q \in Procs : q # p => proc'[q] = proc[q]
          /\ proc[p].op = "none" /\ proc'[p].op \in {"login", "devLogin"}
          /\ session' = session /\ successors' = successors /\ raced' = raced
      BY <2>1, BeginFacts DEF Login, DevLogin, Operations, Positions, None, rows
    <3> QED
      BY <3>1, TokenInvStays
  <2>2. ASSUME NEW c \in Codes, NEW op \in {"store", "consume"}, OtpCall(p, op, c) PROVE TokenInv'
    <3>1. /\ \A q \in Procs : q # p => proc'[q] = proc[q]
          /\ proc[p].op = "none" /\ proc'[p].op = op
          /\ session' = session /\ successors' = successors /\ raced \subseteq raced'
      BY <2>2, BeginFacts, TokensAreNumbers DEF OtpCall, Operations, Positions, rows
    <3> QED
      BY <3>1, TokenInvStays
  <2> QED
    BY <1>2, <2>1, <2>2, TokenCallInv DEF Request, AuthType
<1>3. ASSUME NEW p \in Procs,
             \/ DeleteCodes(p) \/ InsertCode(p) \/ MailCode(p) \/ ReadCode(p)
             \/ RejectCode(p) \/ AcceptCode(p) \/ GrantStepUp(p)
      PROVE  TokenInv'
  <2>1. /\ \A q \in Procs : q # p => proc'[q] = proc[q]
        /\ proc[p].op \in {"store", "consume"} /\ proc'[p].op \in {"store", "consume", "none"}
        /\ session' = session /\ successors' = successors /\ raced' = raced
    <3>1. CASE ReadCode(p) /\ ~Return(p)
      BY <3>1, ZenonT(60) DEF ReadCode, AuthType, Handlers, rows
    <3>2. CASE ~ReadCode(p) \/ Return(p)
      BY <1>3, <3>2, HandlerSteps, IdleFacts DEF DeleteCodes, InsertCode, MailCode, ReadCode, RejectCode,
           AcceptCode, GrantStepUp, Positions, rows, history
    <3> QED
      BY <3>1, <3>2
  <2> QED
    BY <2>1, TokenInvStays
<1>4. ASSUME NEW p \in Procs, Handle(p) PROVE TokenInv'
  BY <1>3, <1>4, ReadTokenInv, SaveInv, CheckUserInv, IssueInv DEF Handle
<1>5. CASE Outside
  BY <1>1, <1>5, BulkInv DEF Outside, Block, StartCleanup, Expire, rows, history
<1>6. CASE UNCHANGED vars
  BY <1>1, <1>6 DEF vars, rows, history
<1> QED
  BY <1>2, <1>4, <1>5, <1>6, StopTokens DEF Next, Outside

\* No token has been spent at the start.
LEMMA InitTokenInv == Init => TokenInv
BY IdleFacts, TokensAreNumbers DEF Init, TokenInv, RotatedTokenIsDead, TokenHeld, Spent, On, NoSession

\* In every behaviour a refresh token is dead before its successor exists, and
\* is spent once unless calls with it overlapped.
THEOREM TokensAlwaysRotate == Spec => []TokensRotate
<1>1. AuthType /\ TokenInv => TokensRotate
  BY DEF TokenInv, TokensRotate, TokenSpentOnce, Spent, AuthType
<1> QED
  BY <1>1, InitAuthType, AuthTypeStep, InitTokenInv, TokenInvStep, PTL DEF Spec

-----------------------------------------------------------------------------
(* One-time codes, while no two calls for the subject have overlapped.     *)

Busy(p) == proc[p].op \in {"store", "consume"}

NothingAfter(c) == \A d \in Codes : d > c => otp[d].state = "none"

\* A handler that stores a code: nothing is live between the delete and the
\* insert, and what it has inserted only expiry takes away.
Storing(p) ==
    proc[p].op = "store" =>
        LET c == proc[p].on
        IN /\ proc[p].pc \in {"read", "insert"} =>
                /\ otp[c].state = "none"
                /\ \A d \in Codes : d < c => otp[d].state # "none"
           /\ proc[p].pc = "insert" => \A d \in Codes : otp[d].state \notin {"stored", "used"}
           /\ proc[p].pc = "mail" =>
                /\ otp[c].state # "none" /\ NothingAfter(c)
                /\ <<"code", c>> \notin expired => otp[c].state = "stored"

\* A handler that consumes a code holds the newest, which has granted nothing.
Consuming(p) ==
    proc[p].op = "consume" /\ proc[p].pc \in {"save", "reject", "issue"} =>
        LET c == proc[p].on
        IN /\ NothingAfter(c) /\ stepUps[c] = 0 /\ otp[c].state # "none"
           /\ proc[p].pc = "issue" => otp[c].state \in {"used", "deleted"}

\* The newest code sent is stored until it expires or is accepted, or a newer
\* one is being stored, or a handler with it or a newer one stopped.
Lasts(c) ==
    /\ <<"code", c>> \notin expired /\ stepUps[c] = 0
    /\ c \notin cut /\ \A d \in known \cup unsent \cup cut : d <= c
    => \/ otp[c].state = "stored"
       \/ \E p \in Procs : /\ proc[p].op = "store" /\ proc[p].pc \in {"insert", "mail"}
                           /\ proc[p].on > c
       \/ \E p \in Procs : /\ proc[p].op = "consume" /\ proc[p].pc = "issue"
                           /\ proc[p].on = c

Orderly ==
    /\ \A p, q \in Procs : Busy(p) /\ Busy(q) => p = q
    /\ \A c, d \in Codes : d < c /\ otp[c].state # "none" => otp[d].state # "none"
    /\ \A c \in Codes : otp[c].state = "stored" => NothingAfter(c)
    /\ \A c \in Codes : /\ stepUps[c] <= 1
                        /\ otp[c].state \in {"none", "stored"} => stepUps[c] = 0
    /\ superseded = {}
    /\ \A c \in known \cup unsent : otp[c].state # "none"
    /\ \A p \in Procs : Storing(p) /\ Consuming(p)
    /\ \A c \in known : Lasts(c)

CodeInv == None \notin raced => Orderly

\* A step that touches no code, and no handler that works on one.
LEMMA OrderlyStays ==
    ASSUME Orderly, UNCHANGED <<otp, stepUps, superseded, mail>>, expired \subseteq expired',
           \A q \in Procs : Busy(q) \/ Busy(q)' => proc'[q] = proc[q]
    PROVE  Orderly'
<1>1. \A q \in Procs : Busy(q)' <=> Busy(q)
  BY DEF Busy
<1>2. \A q \in Procs : Storing(q)' /\ Consuming(q)'
  <2> SUFFICES ASSUME NEW q \in Procs PROVE Storing(q)' /\ Consuming(q)'
    OBVIOUS
  <2>1. Storing(q) /\ Consuming(q)
    BY DEF Orderly
  <2>2. CASE Busy(q)
    <3>1. proc'[q] = proc[q]
      BY <2>2
    <3> QED
      BY <2>1, <3>1 DEF Storing, Consuming, NothingAfter
  <2>3. CASE ~Busy(q)
    BY <1>1, <2>3 DEF Storing, Consuming, Busy
  <2> QED
    BY <2>2, <2>3
<1>3. ASSUME NEW c \in known' PROVE Lasts(c)'
  <2>1. Lasts(c)
    BY <1>3 DEF Orderly, mail
  <2>2. \A q \in Procs : proc[q].op \in {"store", "consume"} => proc'[q] = proc[q]
    BY DEF Busy
  <2> QED
    BY <2>1, <2>2 DEF Lasts, mail
<1> QED
  BY <1>1, <1>2, <1>3 DEF Orderly, NothingAfter, mail

\* A call begins when no other works on the subject's codes.
LEMMA OtpCallInv ==
    ASSUME AuthType, CodeInv, NEW p \in Procs, NEW c \in Codes, NEW op \in {"store", "consume"},
           OtpCall(p, op, c), op = "store" => NextCode(c)
    PROVE  CodeInv'
<1> SUFFICES ASSUME None \notin raced' PROVE Orderly'
  BY DEF CodeInv
<1>1. None \notin raced /\ \A q \in Procs : ~Busy(q)
  BY DEF OtpCall, InFlight, Busy
<1>2. Orderly
  BY <1>1 DEF CodeInv
<1>3. /\ proc'[p].op = op /\ proc'[p].pc = "read" /\ proc'[p].on = c
      /\ \A q \in Procs : q # p => proc'[q] = proc[q]
      /\ UNCHANGED <<otp, expired, stepUps, superseded, mail>>
  BY BeginFacts, TokensAreNumbers DEF OtpCall, Operations, Positions, rows
<1>4. \A q \in Procs : q # p => ~Busy(q)'
  BY <1>1, <1>3 DEF Busy
<1>5. \A q \in Procs : q # p => Storing(q)' /\ Consuming(q)'
  BY <1>4 DEF Storing, Consuming, Busy
<1>6. Storing(p)' /\ Consuming(p)'
  BY <1>3 DEF Storing, Consuming, NextCode
<1>7. ASSUME NEW d \in known' PROVE Lasts(d)'
  <2>1. Lasts(d)
    BY <1>2, <1>3, <1>7 DEF Orderly, mail
  <2>2. \A q \in Procs : proc[q].op \notin {"store", "consume"}
    BY <1>1 DEF Busy
  <2> QED
    BY <1>3, <2>1, <2>2 DEF Lasts, mail
<1> QED
  BY <1>2, <1>3, <1>4, <1>5, <1>6, <1>7 DEF Orderly, NothingAfter, mail

\* What a step of a handler that works on codes starts from.
LEMMA BusyFacts ==
    ASSUME AuthType, Orderly, NEW p \in Procs, Busy(p)
    PROVE  /\ Storing(p) /\ Consuming(p) /\ proc[p].on \in Codes /\ HandlerOK(proc[p])
           /\ \A q \in Procs : q # p => ~Busy(q)
BY DEF AuthType, Orderly, Busy, HandlerOK

\* The other handlers work on no code, before and after.
LEMMA OthersIdle ==
    ASSUME NEW p \in Procs, \A q \in Procs : q # p => ~Busy(q) /\ proc'[q] = proc[q]
    PROVE  /\ \A q \in Procs : q # p => Storing(q)' /\ Consuming(q)'
           /\ \A q, s \in Procs : Busy(q)' /\ Busy(s)' => q = s
           /\ \A q \in Procs : q # p => /\ proc[q].op \notin {"store", "consume"}
                                        /\ proc'[q].op \notin {"store", "consume"}
<1>1. \A q \in Procs : q # p => proc[q].op \notin {"store", "consume"}
                                /\ proc'[q].op \notin {"store", "consume"}
  BY DEF Busy
<1> QED
  BY <1>1 DEF Storing, Consuming, Busy

\* storeOtpCode deletes the subject's rows.
LEMMA DeleteInv ==
    ASSUME AuthType, Orderly, NEW p \in Procs, DeleteCodes(p)
    PROVE  Orderly'
<1>1. /\ proc[p].op = "store" /\ proc[p].pc = "read" /\ Busy(p)
      /\ UNCHANGED <<expired, stepUps, superseded, known, unsent, cut>>
  BY DEF DeleteCodes, Busy, history, mail
<1>2. /\ proc'[p].op = "store" /\ proc'[p].pc = "insert" /\ proc'[p].on = proc[p].on
      /\ \A q \in Procs : q # p => proc'[q] = proc[q]
  BY <1>1, HandlerSteps DEF DeleteCodes, Positions
<1>3. /\ proc[p].on \in Codes /\ Storing(p)
      /\ \A q \in Procs : q # p => ~Busy(q) /\ proc'[q] = proc[q]
  BY <1>1, <1>2, BusyFacts
<1>4. \A d \in Codes : otp'[d].state = IF otp[d].state \in {"stored", "used"} THEN "deleted"
                                       ELSE otp[d].state
  BY DEF DeleteCodes, AuthType, CodeRows
<1>5. \A d \in Codes : /\ otp'[d].state \notin {"stored", "used"}
                       /\ otp'[d].state = "none" <=> otp[d].state = "none"
  BY <1>4
<1>6. Storing(p)' /\ Consuming(p)'
  BY <1>1, <1>2, <1>3, <1>5 DEF Storing, Consuming
<1>7. ASSUME NEW c \in known' PROVE Lasts(c)'
  <2>1. c \in Codes /\ otp[c].state # "none"
    BY <1>1, <1>7 DEF AuthType, Orderly
  <2>2. otp[proc[p].on].state = "none" /\ c # proc[p].on /\ ~(proc[p].on < c)
    BY <1>1, <1>3, <2>1 DEF Storing, Orderly
  <2>3. proc'[p].on > c
    <3>1. c \in Nat /\ proc[p].on \in Nat
      BY <1>3, <2>1, TokensAreNumbers
    <3> QED
      BY <1>2, <2>2, <3>1
  <2> QED
    BY <1>2, <2>3 DEF Lasts
<1>8. \A c, d \in Codes : d < c /\ otp'[c].state # "none" => otp'[d].state # "none"
  BY <1>5 DEF Orderly
<1>9. \A c \in Codes : /\ stepUps'[c] <= 1
                       /\ otp'[c].state \in {"none", "stored"} => stepUps'[c] = 0
  BY <1>1, <1>5 DEF Orderly
<1>10. \A c \in known' \cup unsent' : otp'[c].state # "none"
  BY <1>1, <1>5 DEF Orderly, AuthType
<1> QED
  BY <1>1, <1>3, <1>5, <1>6, <1>7, <1>8, <1>9, <1>10, OthersIdle DEF Orderly

\* storeOtpCode inserts the new row.
LEMMA InsertInv ==
    ASSUME AuthType, Orderly, NEW p \in Procs, InsertCode(p)
    PROVE  Orderly'
<1>1. /\ proc[p].op = "store" /\ proc[p].pc = "insert" /\ Busy(p)
      /\ UNCHANGED <<expired, stepUps, superseded, known, unsent>>
  BY DEF InsertCode, Busy, history, mail
<1>2. /\ proc'[p].op = "store" /\ proc'[p].pc = "mail" /\ proc'[p].on = proc[p].on
      /\ \A q \in Procs : q # p => proc'[q] = proc[q]
  BY <1>1, HandlerSteps DEF InsertCode, Positions
<1>3. /\ proc[p].on \in Codes /\ Storing(p)
      /\ \A q \in Procs : q # p => ~Busy(q) /\ proc'[q] = proc[q]
  BY <1>1, <1>2, BusyFacts
<1> PICK n \in Codes : n = proc[p].on
  BY <1>3
<1>4. otp'[n].state = "stored" /\ \A d \in Codes : d # n => otp'[d] = otp[d]
  BY DEF InsertCode, AuthType, CodeRows
<1>5. /\ otp[n].state = "none"
      /\ \A d \in Codes : d < n => otp[d].state # "none"
      /\ \A d \in Codes : otp[d].state \notin {"stored", "used"}
  BY <1>1, <1>3 DEF Storing
<1>6. \A d \in Codes : d > n => otp[d].state = "none" /\ otp'[d].state = "none"
  BY <1>4, <1>5, TokensAreNumbers DEF Orderly
<1>7. Storing(p)' /\ Consuming(p)'
  BY <1>1, <1>2, <1>4, <1>6 DEF Storing, Consuming, NothingAfter
<1>8. ASSUME NEW c \in known' PROVE Lasts(c)'
  <2>1. c \in Codes /\ otp[c].state # "none"
    BY <1>1, <1>8 DEF AuthType, Orderly
  <2>2. proc'[p].on > c
    <3>1. c \in Nat /\ n \in Nat
      BY <2>1, TokensAreNumbers
    <3>2. c # n /\ ~(c > n)
      BY <1>5, <1>6, <2>1
    <3> QED
      BY <1>2, <3>1, <3>2
  <2> QED
    BY <1>2, <2>2 DEF Lasts
<1>9. \A c, d \in Codes : d < c /\ otp'[c].state # "none" => otp'[d].state # "none"
  BY <1>4, <1>5, <1>6 DEF Orderly
<1>10. \A c \in Codes : otp'[c].state = "stored" => NothingAfter(c)'
  BY <1>4, <1>5, <1>6 DEF NothingAfter
<1>11. \A c \in Codes : /\ stepUps'[c] <= 1
                        /\ otp'[c].state \in {"none", "stored"} => stepUps'[c] = 0
  BY <1>1, <1>4, <1>5 DEF Orderly
<1>12. \A c \in known' \cup unsent' : otp'[c].state # "none"
  BY <1>1, <1>4 DEF Orderly, AuthType
<1> QED
  BY <1>1, <1>3, <1>7, <1>8, <1>9, <1>10, <1>11, <1>12, OthersIdle DEF Orderly

\* The code's e-mail goes out or not.
LEMMA MailInv ==
    ASSUME AuthType, Orderly, NEW p \in Procs, MailCode(p)
    PROVE  Orderly'
<1>1. /\ proc[p].op = "store" /\ proc[p].pc = "mail" /\ Busy(p)
      /\ UNCHANGED <<otp, expired, stepUps, superseded, cut>>
  BY DEF MailCode, Busy, history, rows
<1>2. proc'[p].op = "none" /\ \A q \in Procs : q # p => proc'[q] = proc[q]
  BY HandlerSteps, IdleFacts DEF MailCode, Positions
<1>3. /\ proc[p].on \in Codes /\ Storing(p)
      /\ \A q \in Procs : q # p => ~Busy(q) /\ proc'[q] = proc[q]
  BY <1>1, <1>2, BusyFacts
<1> PICK n \in Codes : n = proc[p].on
  BY <1>3
<1>4. /\ known \subseteq known' /\ unsent \subseteq unsent'
      /\ known' \cup unsent' = known \cup unsent \cup {n} /\ known' \subseteq known \cup {n}
  BY DEF MailCode, SendEmailOtp
<1>5. otp[n].state # "none" /\ (<<"code", n>> \notin expired => otp[n].state = "stored")
  BY <1>1, <1>3 DEF Storing
<1>6. ASSUME NEW c \in known' PROVE Lasts(c)'
  <2>1. CASE c = n
    BY <1>1, <1>5, <2>1 DEF Lasts
  <2>2. CASE c # n
    <3> SUFFICES ASSUME <<"code", c>> \notin expired, stepUps[c] = 0,
                        c \notin cut, \A d \in known' \cup unsent' \cup cut : d <= c
                 PROVE  otp[c].state = "stored"
      BY <1>1 DEF Lasts
    <3>1. c \in Codes /\ Lasts(c) /\ n <= c /\ \A d \in known \cup unsent \cup cut : d <= c
      BY <1>4, <1>6, <2>2 DEF Orderly, AuthType
    <3>2. ~(proc[p].on > c)
      BY <3>1, TokensAreNumbers
    <3>3. \A q \in Procs : q # p => proc[q].op \notin {"store", "consume"}
      BY <1>3 DEF Busy
    <3> QED
      BY <1>1, <3>1, <3>2, <3>3 DEF Lasts
  <2> QED
    BY <2>1, <2>2
<1>7. Storing(p)' /\ Consuming(p)'
  BY <1>2 DEF Storing, Consuming
<1>8. \A c \in known' \cup unsent' : otp'[c].state # "none"
  BY <1>1, <1>4, <1>5 DEF Orderly
<1>9. \A c \in Codes : otp'[c].state = "stored" => NothingAfter(c)'
  BY <1>1 DEF Orderly, NothingAfter
<1> QED
  BY <1>1, <1>3, <1>6, <1>7, <1>8, <1>9, OthersIdle DEF Orderly

\* consumeOtpCode reads the newest row.
LEMMA ReadCodeInv ==
    ASSUME AuthType, Orderly, NEW p \in Procs, ReadCode(p)
    PROVE  Orderly'
<1>1. /\ proc[p].op = "consume" /\ proc[p].pc = "read" /\ Busy(p)
      /\ UNCHANGED <<otp, expired, stepUps, known, unsent, cut>>
  BY DEF ReadCode, Busy, rows, mail
<1>2. /\ \A q \in Procs : q # p => proc'[q] = proc[q]
      /\ \/ proc'[p].op = "none"
         \/ /\ proc'[p].op = "consume" /\ proc'[p].pc \in {"save", "reject"}
            /\ proc'[p].on \in Codes /\ otp[proc'[p].on].state = "stored"
  <2>1. CASE Return(p)
    BY <2>1, HandlerSteps, IdleFacts DEF Positions
  <2>2. CASE ~Return(p)
    <3>1. PICK n \in Codes :
             /\ Newest(n)
             /\ proc' = [proc EXCEPT ![p].pc = IF n = proc[p].on THEN "save" ELSE "reject",
                                     ![p].on = n, ![p].row = otp[n]]
      BY <2>2 DEF ReadCode
    <3> DEFINE g == [proc[p] EXCEPT !.pc = IF n = proc[p].on THEN "save" ELSE "reject",
                                    !.on = n, !.row = otp[n]]
    <3>2. proc' = [proc EXCEPT ![p] = g]
      BY <3>1 DEF AuthType
    <3>3. g.op = "consume" /\ g.pc \in {"save", "reject"} /\ g.on = n
      BY <1>1 DEF AuthType, Handlers
    <3> HIDE DEF g
    <3>4. otp[n].state = "stored"
      BY <3>1 DEF Newest, Candidates
    <3> QED
      BY <3>2, <3>3, <3>4, SMTT(60) DEF AuthType
  <2> QED
    BY <2>1, <2>2
<1>3. \A q \in Procs : q # p => ~Busy(q) /\ proc'[q] = proc[q]
  BY <1>1, <1>2, BusyFacts
<1>4. superseded' = {}
  <2>1. Newest(proc[p].on) => ~(\E d \in Codes : d > proc[p].on /\ otp[d].state # "none")
    BY DEF Newest, Candidates, Orderly, NothingAfter
  <2> QED
    BY <2>1 DEF ReadCode, Orderly
<1>5. Storing(p)' /\ Consuming(p)'
  BY <1>1, <1>2 DEF Storing, Consuming, NothingAfter, Orderly
<1>6. ASSUME NEW c \in known' PROVE Lasts(c)'
  <2>1. Lasts(c)
    BY <1>1, <1>6 DEF Orderly
  <2>2. \A q \in Procs : q # p => proc[q].op \notin {"store", "consume"}
    BY <1>3 DEF Busy
  <2> QED
    BY <1>1, <2>1, <2>2 DEF Lasts
<1>7. \A c \in Codes : otp'[c].state = "stored" => NothingAfter(c)'
  BY <1>1 DEF Orderly, NothingAfter
<1> QED
  BY <1>1, <1>3, <1>4, <1>5, <1>6, <1>7, OthersIdle, SMTT(60) DEF Orderly

\* The copy of the newest row is saved again, with one attempt more or as used.
LEMMA SaveCodeInv ==
    ASSUME AuthType, Orderly, NEW p \in Procs, RejectCode(p) \/ AcceptCode(p)
    PROVE  Orderly'
<1>1. /\ proc[p].op = "consume" /\ proc[p].pc \in {"reject", "save"} /\ Busy(p)
      /\ UNCHANGED <<expired, stepUps, superseded, known, unsent, cut>>
  BY DEF RejectCode, AcceptCode, Busy, history, mail
<1>2. /\ \A q \in Procs : q # p => proc'[q] = proc[q]
      /\ \/ RejectCode(p) /\ proc'[p].op = "none"
         \/ /\ AcceptCode(p) /\ proc'[p].op = "consume" /\ proc'[p].pc = "issue"
            /\ proc'[p].on = proc[p].on
  BY <1>1, HandlerSteps, IdleFacts DEF RejectCode, AcceptCode, Positions
<1>3. /\ proc[p].on \in Codes /\ Consuming(p) /\ HandlerOK(proc[p])
      /\ \A q \in Procs : q # p => ~Busy(q) /\ proc'[q] = proc[q]
  BY <1>1, <1>2, BusyFacts
<1> PICK n \in Codes : n = proc[p].on
  BY <1>3
<1>4. /\ otp'[n].state = IF RejectCode(p) THEN "stored" ELSE "used"
      /\ \A d \in Codes : d # n => otp'[d] = otp[d]
  <2>1. proc[p].row \in [state : {"none", "stored"}, attempts : Nat] /\ proc[p].row.state = "stored"
    BY <1>1, <1>3 DEF AuthType, Handlers, HandlerOK
  <2>2. CASE RejectCode(p)
    BY <2>1, <2>2 DEF RejectCode, AuthType
  <2>3. CASE AcceptCode(p) /\ ~RejectCode(p)
    BY <2>1, <2>3 DEF AcceptCode, AuthType
  <2> QED
    BY <2>2, <2>3
<1>5. NothingAfter(n) /\ stepUps[n] = 0 /\ otp[n].state # "none"
  BY <1>1, <1>3 DEF Consuming
<1>6. \A d \in Codes : otp'[d].state = "none" <=> otp[d].state = "none"
  BY <1>4, <1>5
<1>7. NothingAfter(n)'
  BY <1>5, <1>6 DEF NothingAfter
<1>8. \A c \in Codes : otp'[c].state = "stored" => NothingAfter(c)'
  <2> SUFFICES ASSUME NEW c \in Codes, otp'[c].state = "stored" PROVE NothingAfter(c)'
    OBVIOUS
  <2>1. CASE c = n
    BY <1>7, <2>1
  <2>2. CASE c # n
    <3>1. NothingAfter(c)
      BY <1>4, <2>2 DEF Orderly
    <3> QED
      BY <1>6, <3>1 DEF NothingAfter
  <2> QED
    BY <2>1, <2>2
<1>9. Storing(p)' /\ Consuming(p)'
  <2>1. CASE proc'[p].op = "none"
    BY <2>1 DEF Storing, Consuming
  <2>2. CASE AcceptCode(p) /\ proc'[p].op = "consume" /\ proc'[p].pc = "issue" /\ proc'[p].on = n
    <3>1. ~RejectCode(p)
      BY <2>2, <1>2 DEF RejectCode, AcceptCode
    <3>2. otp'[n].state = "used" /\ stepUps'[n] = 0
      BY <1>1, <1>4, <1>5, <3>1
    <3> QED
      BY <1>7, <2>2, <3>2 DEF Storing, Consuming
  <2> QED
    BY <1>2, <2>1, <2>2
<1>10. ASSUME NEW c \in known' PROVE Lasts(c)'
  <2>1. Lasts(c) /\ c \in Codes
    BY <1>1, <1>10 DEF Orderly, AuthType
  <2>2. \A q \in Procs : q # p => proc[q].op \notin {"store", "consume"}
    BY <1>3 DEF Busy
  <2>3. CASE c = n /\ RejectCode(p)
    BY <1>4, <2>3 DEF Lasts
  <2>4. CASE c = n /\ ~RejectCode(p)
    BY <1>2, <2>4 DEF Lasts
  <2>5. CASE c # n
    BY <1>1, <1>4, <2>1, <2>2, <2>5 DEF Lasts
  <2> QED
    BY <2>3, <2>4, <2>5
<1>11. \A c \in Codes : /\ stepUps'[c] <= 1
                        /\ otp'[c].state \in {"none", "stored"} => stepUps'[c] = 0
  BY <1>1, <1>4, <1>5 DEF Orderly
<1>12. \A c, d \in Codes : d < c /\ otp'[c].state # "none" => otp'[d].state # "none"
  BY <1>6 DEF Orderly
<1>13. \A c \in known' \cup unsent' : otp'[c].state # "none"
  BY <1>1, <1>6 DEF Orderly, AuthType
<1> QED
  BY <1>1, <1>3, <1>8, <1>9, <1>10, <1>11, <1>12, <1>13, OthersIdle DEF Orderly

\* The accepted code grants its step-up token.
LEMMA GrantInv ==
    ASSUME AuthType, Orderly, NEW p \in Procs, GrantStepUp(p)
    PROVE  Orderly'
<1>1. /\ proc[p].op = "consume" /\ proc[p].pc = "issue" /\ Busy(p)
      /\ UNCHANGED <<otp, expired, superseded, known, unsent, cut>>
  BY DEF GrantStepUp, Busy, rows, mail
<1>2. proc'[p].op = "none" /\ \A q \in Procs : q # p => proc'[q] = proc[q]
  BY HandlerSteps, IdleFacts DEF GrantStepUp, Positions
<1>3. /\ proc[p].on \in Codes /\ Consuming(p)
      /\ \A q \in Procs : q # p => ~Busy(q) /\ proc'[q] = proc[q]
  BY <1>1, <1>2, BusyFacts
<1> PICK n \in Codes : n = proc[p].on
  BY <1>3
<1>4. stepUps[n] = 0 /\ otp[n].state \in {"used", "deleted"}
  BY <1>1, <1>3 DEF Consuming
<1>5. stepUps'[n] = 1 /\ \A d \in Codes : d # n => stepUps'[d] = stepUps[d]
  BY <1>4 DEF GrantStepUp, AuthType
<1>6. Storing(p)' /\ Consuming(p)'
  BY <1>2 DEF Storing, Consuming
<1>7. ASSUME NEW c \in known' PROVE Lasts(c)'
  <2>1. Lasts(c) /\ c \in Codes
    BY <1>1, <1>7 DEF Orderly, AuthType
  <2>2. \A q \in Procs : q # p => proc[q].op \notin {"store", "consume"}
    BY <1>3 DEF Busy
  <2>3. CASE c = n
    BY <1>5, <2>3 DEF Lasts
  <2>4. CASE c # n
    BY <1>1, <1>5, <2>1, <2>2, <2>4 DEF Lasts
  <2> QED
    BY <2>3, <2>4
<1>8. \A c \in Codes : /\ stepUps'[c] <= 1
                       /\ otp'[c].state \in {"none", "stored"} => stepUps'[c] = 0
  BY <1>1, <1>4, <1>5 DEF Orderly
<1>9. \A c \in Codes : otp'[c].state = "stored" => NothingAfter(c)'
  BY <1>1 DEF Orderly, NothingAfter
<1> QED
  BY <1>1, <1>3, <1>6, <1>7, <1>8, <1>9, OthersIdle DEF Orderly

\* A handler stops: the code it was storing or using is one of cut.
LEMMA StopInv ==
    ASSUME AuthType, Orderly, NEW p \in Procs, Stop(p)
    PROVE  Orderly'
<1>1. /\ UNCHANGED <<otp, expired, stepUps, superseded, known, unsent>>
      /\ cut \subseteq cut'
      /\ \/ proc[p].op = "store" /\ proc[p].pc \in {"insert", "mail"}
         \/ proc[p].op = "consume" /\ proc[p].pc = "issue"
         => proc[p].on \in cut'
  BY DEF Stop, rows, history
<1>2. proc'[p].op = "none" /\ \A q \in Procs : q # p => proc'[q] = proc[q]
  BY HandlerSteps, IdleFacts DEF Stop, Positions
<1>3. \A q \in Procs : Storing(q)' /\ Consuming(q)'
  BY <1>1, <1>2 DEF Storing, Consuming, NothingAfter, Orderly
<1>4. ASSUME NEW c \in known' PROVE Lasts(c)'
  <2> SUFFICES ASSUME <<"code", c>> \notin expired, stepUps[c] = 0, c \notin cut',
                      \A d \in known \cup unsent \cup cut' : d <= c
               PROVE  (otp[c].state = "stored"
                       \/ (\E q \in Procs : /\ proc[q].op = "store" /\ proc[q].pc \in {"insert", "mail"}
                                            /\ proc[q].on > c)
                       \/ (\E q \in Procs : /\ proc[q].op = "consume" /\ proc[q].pc = "issue"
                                            /\ proc[q].on = c))'
    BY <1>1 DEF Lasts
  <2>1. Lasts(c) /\ c \in Codes
    BY <1>1, <1>4 DEF Orderly, AuthType
  <2>2. CASE otp[c].state = "stored"
    BY <1>1, <2>2
  <2>3. ASSUME NEW q \in Procs, proc[q].op = "store", proc[q].pc \in {"insert", "mail"},
               proc[q].on > c
        PROVE  q # p
    <3> SUFFICES ASSUME q = p PROVE FALSE
      OBVIOUS
    <3>1. proc[p].on \in cut' /\ proc[p].on \in Nat /\ c \in Nat
      BY <1>1, <2>1, <2>3, TokensAreNumbers DEF AuthType, Handlers
    <3> QED
      BY <2>3, <3>1
  <2>4. ASSUME NEW q \in Procs, proc[q].op = "consume", proc[q].pc = "issue", proc[q].on = c
        PROVE  q # p
    BY <1>1, <2>4
  <2> QED
    BY <1>1, <1>2, <2>1, <2>2, <2>3, <2>4 DEF Lasts
<1>5. \A q, t \in Procs : Busy(q)' /\ Busy(t)' => q = t
  BY <1>2 DEF Orderly, Busy
<1>6. \A c \in Codes : otp'[c].state = "stored" => NothingAfter(c)'
  BY <1>1 DEF Orderly, NothingAfter
<1> QED
  BY <1>1, <1>3, <1>4, <1>5, <1>6 DEF Orderly

\* The cleanup job deletes codes that have expired or been used.
LEMMA CleanupInv ==
    ASSUME AuthType, Orderly, Cleanup
    PROVE  Orderly'
<1>1. proc' = proc /\ UNCHANGED <<expired, stepUps, superseded, known, unsent, cut>>
  BY DEF Cleanup, history, mail
<1>2. \A c \in Codes :
        /\ otp'[c].state \in {otp[c].state, "deleted"}
        /\ otp'[c].state = "none" <=> otp[c].state = "none"
        /\ otp[c].state = "stored" /\ <<"code", c>> \notin expired => otp'[c].state = "stored"
        /\ otp[c].state \in {"used", "deleted"} => otp'[c].state \in {"used", "deleted"}
  BY DEF Cleanup, DeletedCode, AuthType, CodeRows
<1>3. \A c \in Codes : NothingAfter(c) => NothingAfter(c)'
  BY <1>2 DEF NothingAfter
<1>4. ASSUME NEW q \in Procs PROVE Storing(q)' /\ Consuming(q)'
  <2>1. Storing(q) /\ Consuming(q) /\ HandlerOK(proc[q])
    BY DEF Orderly, AuthType
  <2>2. CASE ~Busy(q)
    BY <1>1, <2>2 DEF Busy, Storing, Consuming
  <2>3. CASE Busy(q)
    <3>1. proc[q].on \in Codes
      BY <2>1, <2>3 DEF Busy, HandlerOK
    <3>2. Storing(q)'
      BY <1>1, <1>2, <1>3, <2>1, <3>1 DEF Storing
    <3>3. Consuming(q)'
      BY <1>1, <1>2, <1>3, <2>1, <3>1 DEF Consuming
    <3> QED
      BY <3>2, <3>3
  <2> QED
    BY <2>2, <2>3
<1>5. ASSUME NEW c \in known' PROVE Lasts(c)'
  <2>1. Lasts(c) /\ c \in Codes
    BY <1>1, <1>5 DEF Orderly, AuthType
  <2> QED
    BY <1>1, <1>2, <2>1 DEF Lasts
<1>6. \A c \in Codes : otp'[c].state = "stored" => NothingAfter(c)'
  BY <1>2, <1>3 DEF Orderly
<1>7. \A c \in Codes : /\ stepUps'[c] <= 1
                       /\ otp'[c].state \in {"none", "stored"} => stepUps'[c] = 0
  BY <1>1, <1>2 DEF Orderly
<1>8. \A c, d \in Codes : d < c /\ otp'[c].state # "none" => otp'[d].state # "none"
  BY <1>2 DEF Orderly
<1>9. \A c \in known' \cup unsent' : otp'[c].state # "none"
  BY <1>1, <1>2 DEF Orderly, AuthType
<1>10. \A p, q \in Procs : Busy(p)' /\ Busy(q)' => p = q
  BY <1>1 DEF Orderly, Busy
<1> QED
  BY <1>1, <1>4, <1>5, <1>6, <1>7, <1>8, <1>9, <1>10 DEF Orderly

\* Every step keeps what is known of the codes.
LEMMA CodeInvStep == AuthType /\ CodeInv /\ [Next]_vars => CodeInv'
<1> SUFFICES ASSUME AuthType, CodeInv, [Next]_vars, None \notin raced' PROVE Orderly'
  BY DEF CodeInv
<1>1. CASE \E p \in Procs, c \in Codes :
             (NextCode(c) /\ OtpCall(p, "store", c)) \/ OtpCall(p, "consume", c)
  BY <1>1, OtpCallInv DEF CodeInv
<1>2. ASSUME None \in raced
      PROVE  FALSE
  BY <1>2, ZenonT(60) DEF Next, Request, Login, DevLogin, TokenCall, OtpCall, Handle, ReadToken, SaveRevoked,
      CheckUser, IssueTokens, LogoutAll, DeleteCodes, InsertCode, MailCode, ReadCode, RejectCode,
      AcceptCode, GrantStepUp, Stop, Block, StartCleanup, Cleanup, Expire, vars, history
<1>3. Orderly
  BY <1>2 DEF CodeInv
<1>4. ASSUME NEW p \in Procs,
             \/ Login(p) \/ DevLogin(p)
             \/ \E t \in Tokens : TokenCall(p, "refresh", t) \/ TokenCall(p, "logout", t)
      PROVE  Orderly'
  <2>1. /\ proc[p].op = "none" /\ proc'[p].op \notin {"store", "consume"}
        /\ \A q \in Procs : q # p => proc'[q] = proc[q]
        /\ UNCHANGED <<otp, expired, stepUps, superseded, mail>>
    BY <1>4, BeginFacts, TokensAreNumbers DEF Login, DevLogin, TokenCall, Operations, Positions, rows
  <2> QED
    BY <1>3, <2>1, OrderlyStays DEF Busy
<1>5. ASSUME NEW p \in Procs, ReadToken(p) \/ SaveRevoked(p) \/ CheckUser(p) \/ IssueTokens(p)
      PROVE  Orderly'
  <2>1. /\ proc[p].op \notin {"store", "consume"} /\ proc'[p].op \notin {"store", "consume"}
        /\ \A q \in Procs : q # p => proc'[q] = proc[q]
    BY <1>5, HandlerSteps, IdleFacts DEF ReadToken, SaveRevoked, CheckUser, IssueTokens, Positions
  <2>2. UNCHANGED <<otp, expired, stepUps, superseded, mail>>
    BY <1>5 DEF ReadToken, SaveRevoked, CheckUser, IssueTokens, rows, history
  <2> QED
    BY <1>3, <2>1, <2>2, OrderlyStays DEF Busy
<1>6. ASSUME NEW p \in Procs, Handle(p) PROVE Orderly'
  BY <1>3, <1>5, <1>6, DeleteInv, InsertInv, MailInv, ReadCodeInv, SaveCodeInv, GrantInv DEF Handle
<1>7. ASSUME UNCHANGED <<otp, stepUps, superseded, mail, proc>>, expired \subseteq expired'
      PROVE  Orderly'
  BY <1>3, <1>7, OrderlyStays
<1>8. CASE Outside
  BY <1>3, <1>7, <1>8, CleanupInv
  DEF Outside, LogoutAll, Block, StartCleanup, Expire, rows, history
<1>9. CASE UNCHANGED vars
  BY <1>7, <1>9 DEF vars, rows, history
<1>10. ASSUME NEW p \in Procs, Request(p) PROVE Orderly'
  BY <1>1, <1>4, <1>10 DEF Request, AuthType
<1> QED
  BY <1>3, <1>6, <1>8, <1>9, <1>10, StopInv, SMTT(60) DEF Next, Outside

\* No code has been sent at the start.
LEMMA InitCodeInv == Init => CodeInv
BY IdleFacts DEF Init, CodeInv, Orderly, Busy, Storing, Consuming, Lasts, NoCode

\* In every behaviour without overlapping calls for a subject, a code grants one
\* step-up token at most and none once a newer was stored, and the newest code
\* sent works until it is used or expires, unless the handler that stored a
\* newer one, or used this one, stopped half way.
THEOREM CodesAlwaysWorkOnce == Spec => []CodesWorkOnce
<1>1. AuthType /\ CodeInv => CodesWorkOnce
  <2> SUFFICES ASSUME AuthType, CodeInv PROVE CodeWorksOnce /\ SentCodeWorks
    BY DEF CodesWorkOnce
  <2>1. CodeWorksOnce
    BY DEF CodeWorksOnce, CodeInv, Orderly
  <2>2. SentCodeWorks
    <3> SUFFICES ASSUME NEW c \in known, <<"code", c>> \notin expired, stepUps[c] = 0,
                        InFlight({"store", "consume"}) = {},
                        c \notin cut, \A d \in known \cup unsent \cup cut : d <= c,
                        None \notin raced
                 PROVE  Newest(c)
      BY DEF SentCodeWorks
    <3>1. Orderly /\ Lasts(c) /\ c \in Codes
      BY DEF CodeInv, Orderly, AuthType
    <3>2. \A p \in Procs : proc[p].op \notin {"store", "consume"}
      BY DEF InFlight
    <3>3. otp[c].state = "stored" /\ NothingAfter(c)
      BY <3>1, <3>2 DEF Lasts, Orderly
    <3>4. ASSUME NEW d \in Candidates PROVE d <= c
      <4>1. d \in Codes /\ otp[d].state = "stored"
        BY <3>4 DEF Candidates
      <4>2. ~(d > c)
        BY <3>3, <4>1 DEF NothingAfter
      <4>3. c \in Nat /\ d \in Nat
        BY <3>1, <4>1, TokensAreNumbers
      <4> QED
        BY <4>2, <4>3
    <3> QED
      BY <3>1, <3>3, <3>4 DEF Newest, Candidates
  <2> QED
    BY <2>1, <2>2
<1> QED
  BY <1>1, InitAuthType, AuthTypeStep, InitCodeInv, CodeInvStep, PTL DEF Spec

=============================================================================
