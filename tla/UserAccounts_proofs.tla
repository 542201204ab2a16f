------------------------ MODULE UserAccounts_proofs ------------------------
(***************************************************************************)
(* Proofs about UserAccounts, for any users, handlers, numbers and bounds: *)
(* acknowledged writes stand, a number names one user and leads to that    *)
(* user, and the two KYC tables agree, but for the histories the           *)
(* properties name.                                                        *)
(***************************************************************************)
EXTENDS UserAccounts, FiniteSetTheorems, TLAPS

Ops == {"none", "login", "profile", "pin", "kyc"}
Pcs == {"idle", "read", "check", "submit", "save"}

RowState == [born : Nat, phone : Phones, mail : BOOLEAN, pin : 0 .. MaxCalls,
             kyc : {"pending", "pending_review"}, status : {"active", "blocked"}]

ProcState == [op : Ops, pc : Pcs, user : Users \cup {Idle.user}, phone : Phones,
              id : Nat, copy : RowState]

\* A handler that is not idle has an operation on a user; a copy is of a row
\* that was read, and a row with a phone exists.
WellFormed(x) ==
    /\ x.pc = "idle" <=> x.op = "none"
    /\ x.pc # "idle" => x.user \in Users
    /\ x.pc = "check" => x.op = "profile"
    /\ x.pc = "submit" => x.op = "kyc"
    /\ x.op = "pin" => x.id \in 0 .. MaxCalls
    /\ x.op = "kyc" => x.id # 0
    /\ x.op = "profile" => x.phone # NoPhone
    /\ x.op \notin {"login", "profile"} => x.phone = NoPhone

AccountsType ==
    /\ user \in [Users -> RowState] /\ last \in [Users -> RowState]
    /\ profile \in [Users -> Nat]
    /\ proc \in [Procs -> ProcState]
    /\ calls \in 0 .. MaxCalls
    /\ \A p \in Procs : WellFormed(proc[p])
    /\ \A u \in Users : user[u].phone # NoPhone => Exists(u)

-----------------------------------------------------------------------------
(* What a step does to the handlers and the rows                           *)

\* Handlers other than p are left alone.
Others(p) == \A q \in Procs : q # p => proc'[q] = proc[q]

\* What a call may be about.
Request(op, phone, id) ==
    /\ op \in Ops \ {"none"} /\ phone \in Phones /\ id \in Nat
    /\ op = "pin" => id \in 0 .. MaxCalls
    /\ op = "kyc" => id # 0
    /\ op = "profile" => phone # NoPhone
    /\ op \notin {"login", "profile"} => phone = NoPhone

\* A row that is not there, and an idle handler.
LEMMA IdleType ==
    /\ NoRow \in RowState /\ NoPhone \in Phones /\ NoRow.phone = NoPhone
    /\ NoRow.kyc = "pending" /\ NoRow.born = 0
    /\ Idle \in ProcState /\ Idle.op = "none" /\ Idle.pc = "idle" /\ Idle.phone = NoPhone
    /\ Idle.copy = NoRow /\ WellFormed(Idle)
  <1>1. /\ NoRow \in RowState /\ NoPhone \in Phones /\ NoRow.phone = NoPhone
        /\ NoRow.kyc = "pending" /\ NoRow.born = 0
    <2>1. NoPhone \in Phones /\ 0 \in 0 .. MaxCalls
      BY UserAccountsAssumption DEF Phones
    <2> QED
      BY <2>1 DEF NoRow, RowState
  <1>2. /\ Idle.op = "none" /\ Idle.pc = "idle" /\ Idle.phone = NoPhone
        /\ Idle.copy = NoRow /\ Idle.id = 0
    BY DEF Idle
  <1>3. Idle \in ProcState
    <2>1. PICK w : w = CHOOSE u \in Users : TRUE
      OBVIOUS
    <2>2. Idle = [op |-> "none", pc |-> "idle", user |-> w, phone |-> NoPhone, id |-> 0,
                  copy |-> NoRow]
      BY <2>1 DEF Idle
    <2> HIDE DEF NoRow, NoPhone
    <2>3. Idle.user = w
      BY <2>2
    <2> QED
      BY <1>1, <2>2, <2>3 DEF ProcState, Ops, Pcs
  <1> QED
    BY <1>1, <1>2, <1>3 DEF WellFormed

\* A handler that ends.
LEMMA ReturnStep ==
    ASSUME AccountsType, NEW p \in Procs, Return(p)
    PROVE  /\ proc' \in [Procs -> ProcState] /\ Others(p) /\ proc'[p] = Idle
           /\ \A q \in Procs : WellFormed(proc'[q])
  <1>1. proc' = [proc EXCEPT ![p] = Idle]
    BY DEF Return
  <1> QED
    BY <1>1, IdleType DEF AccountsType, Others

\* A handler that goes on.
LEMMA StepStep ==
    ASSUME AccountsType, NEW p \in Procs, NEW pc \in Pcs \ {"idle"}, NEW copy \in RowState,
           Step(p, pc, copy), proc[p].pc # "idle",
           pc = "check" => proc[p].op = "profile", pc = "submit" => proc[p].op = "kyc"
    PROVE  /\ proc' \in [Procs -> ProcState] /\ Others(p)
           /\ proc'[p].op = proc[p].op /\ proc'[p].user = proc[p].user
           /\ proc'[p].phone = proc[p].phone /\ proc'[p].id = proc[p].id
           /\ proc'[p].pc = pc /\ proc'[p].copy = copy
           /\ \A q \in Procs : WellFormed(proc'[q])
  <1> DEFINE new == [proc[p] EXCEPT !.pc = pc, !.copy = copy]
  <1>1. proc[p] \in ProcState /\ WellFormed(proc[p]) /\ proc \in [Procs -> ProcState]
    BY DEF AccountsType
  <1>2. /\ new \in ProcState
        /\ new.op = proc[p].op /\ new.user = proc[p].user /\ new.phone = proc[p].phone
        /\ new.id = proc[p].id /\ new.pc = pc /\ new.copy = copy
    BY <1>1 DEF ProcState
  <1>3. proc' = [proc EXCEPT ![p] = new]
    BY DEF Step
  <1> HIDE DEF new
  <1>4. WellFormed(new)
    BY <1>1, <1>2 DEF WellFormed
  <1>5. proc' \in [Procs -> ProcState] /\ Others(p) /\ proc'[p] = new
    BY <1>1, <1>2, <1>3 DEF Others
  <1>6. \A q \in Procs : WellFormed(proc'[q])
    BY <1>4, <1>5 DEF AccountsType, Others
  <1> QED
    BY <1>2, <1>5, <1>6

\* A call that begins.
LEMMA BeginStep ==
    ASSUME AccountsType, NEW p \in Procs, NEW u \in Users, NEW op, NEW phone, NEW id,
           Request(op, phone, id), Begin(p, op, u, phone, id)
    PROVE  /\ proc' \in [Procs -> ProcState] /\ Others(p)
           /\ proc[p].op = "none"
           /\ proc'[p].op = op /\ proc'[p].user = u /\ proc'[p].phone = phone
           /\ proc'[p].pc = "read" /\ proc'[p].copy = NoRow
           /\ \A q \in Procs : WellFormed(proc'[q])
           /\ calls' \in 0 .. MaxCalls
  <1> DEFINE new == [op |-> op, pc |-> "read", user |-> u, phone |-> phone, id |-> id,
                     copy |-> NoRow]
  <1>1. /\ new \in ProcState
        /\ new.op = op /\ new.user = u /\ new.phone = phone
        /\ new.id = id /\ new.pc = "read" /\ new.copy = NoRow
    <2> HIDE DEF NoRow
    <2> QED
      BY IdleType DEF ProcState, Request, Pcs
  <1>2. proc' = [proc EXCEPT ![p] = new] /\ proc[p].pc = "idle"
    BY DEF Begin
  <1>3. calls' \in 0 .. MaxCalls
    <2>1. calls \in 0 .. MaxCalls /\ calls < MaxCalls /\ calls' = calls + 1
      BY DEF Begin, AccountsType
    <2> QED
      BY <2>1, UserAccountsAssumption
  <1> HIDE DEF new
  <1>4. WellFormed(new)
    BY <1>1 DEF WellFormed, Request
  <1>5. proc' \in [Procs -> ProcState] /\ Others(p) /\ proc'[p] = new
    BY <1>1, <1>2 DEF Others, AccountsType
  <1>6. \A q \in Procs : WellFormed(proc'[q])
    BY <1>4, <1>5 DEF AccountsType, Others
  <1>7. proc[p].op = "none"
    BY <1>2 DEF AccountsType, WellFormed
  <1> QED
    BY <1>1, <1>3, <1>5, <1>6, <1>7

\* What the operation of a handler makes of a row.
LEMMA SetFacts ==
    ASSUME NEW x \in ProcState, WellFormed(x), x.op # "none", NEW r \in RowState
    PROVE  /\ Set(x, r) \in RowState
           /\ Set(x, r).born = r.born /\ Set(x, r).status = r.status
           /\ Set(x, r).kyc = IF x.op = "kyc" THEN "pending_review" ELSE r.kyc
           /\ Set(x, r).phone = IF x.phone # NoPhone THEN x.phone ELSE r.phone
  <1>1. /\ x.op \in {"login", "profile", "pin", "kyc"} /\ x.phone \in Phones
        /\ x.op = "pin" => x.id \in 0 .. MaxCalls
        /\ x.op = "profile" => x.phone # NoPhone
        /\ x.op \notin {"login", "profile"} => x.phone = NoPhone
    BY DEF ProcState, Ops, WellFormed
  <1>2. CASE x.op = "login"
    BY <1>1, <1>2 DEF Set, RowState
  <1>3. CASE x.op = "profile"
    BY <1>1, <1>3 DEF Set, RowState
  <1>4. CASE x.op = "pin"
    BY <1>1, <1>4 DEF Set, RowState
  <1>5. CASE x.op = "kyc"
    BY <1>1, <1>5 DEF Set, RowState
  <1> QED
    BY <1>1, <1>2, <1>3, <1>4, <1>5

\* A row that is saved is there.
LEMMA BornFacts ==
    ASSUME NEW r \in RowState
    PROVE  /\ Born(r) \in RowState /\ Born(r).born > 0
           /\ Born(r).phone = r.phone /\ Born(r).kyc = r.kyc /\ Born(r).status = r.status
           /\ Born(r).pin = r.pin
  <1> DEFINE n == Cardinality({v \in Users : Exists(v)})
  <1>1. n \in Nat
    <2>1. IsFiniteSet({v \in Users : Exists(v)})
      BY UserAccountsAssumption, FS_Subset
    <2> QED
      BY <2>1, FS_CardinalityType
  <1>2. Born(r) = IF r.born > 0 THEN r ELSE [r EXCEPT !.born = n + 1]
    BY DEF Born
  <1> HIDE DEF n
  <1> QED
    BY <1>1, <1>2 DEF RowState

\* Operations do not set when a row was born.
LEMMA BornSet ==
    ASSUME NEW x \in ProcState, WellFormed(x), x.op # "none", NEW r \in RowState
    PROVE  Born(Set(x, r)) = Set(x, Born(r))
  <1> DEFINE n == Cardinality({v \in Users : Exists(v)})
  <1>1. \A z : Born(z) = IF z.born > 0 THEN z ELSE [z EXCEPT !.born = n + 1]
    BY DEF Born
  <1> HIDE DEF n
  <1>2. Set(x, r).born = r.born
    BY SetFacts
  <1>3. CASE r.born > 0
    BY <1>1, <1>2, <1>3
  <1>4. CASE ~(r.born > 0)
    <2>1. Born(r) = [r EXCEPT !.born = n + 1]
      BY <1>1, <1>4
    <2>2. Born(Set(x, r)) = [Set(x, r) EXCEPT !.born = n + 1]
      BY <1>1, <1>2, <1>4
    <2>3. x.op \in {"login", "profile", "pin", "kyc"}
      BY DEF ProcState, Ops
    <2>4. [Set(x, r) EXCEPT !.born = n + 1] = Set(x, [r EXCEPT !.born = n + 1])
      <3>1. CASE x.op = "login"
        BY <3>1 DEF Set, RowState
      <3>2. CASE x.op = "profile"
        BY <3>2 DEF Set, RowState
      <3>3. CASE x.op = "pin"
        BY <3>3 DEF Set, RowState
      <3>4. CASE x.op = "kyc"
        BY <3>4 DEF Set, RowState
      <3> QED
        BY <2>3, <3>1, <3>2, <3>3, <3>4
    <2> QED
      BY <2>1, <2>2, <2>4
  <1> QED
    BY <1>3, <1>4

\* A save of a handler's copy, refused or not.
LEMMA SaveStep ==
    ASSUME AccountsType, NEW p \in Procs, SaveUser(p), NEW x, x = proc[p], NEW u, u = x.user,
           NEW row, row = Set(x, x.copy)
    PROVE  /\ u \in Users /\ x.op # "none" /\ x.pc = "save" /\ x \in ProcState /\ WellFormed(x)
           /\ row \in RowState /\ Return(p) /\ profile' = profile /\ raced' = raced
           /\ calls' = calls
           /\ \/ /\ Taken(u, row.phone) \/ (Exists(u) /\ row.born = 0)
                 /\ user' = user /\ last' = last /\ halfDone' = halfDone
                 /\ unchecked' = unchecked
              \/ /\ ~Taken(u, row.phone)
                 /\ user' = [user EXCEPT ![u] = Born(row)]
                 /\ last' = [last EXCEPT ![u] = Set(x, Born([last[u] EXCEPT !.born = row.born]))]
                 /\ halfDone' = IF x.op = "kyc" THEN halfDone \ {u} ELSE halfDone
                 /\ unchecked \subseteq unchecked'
                 /\ PutsBack(x.op, u, row.phone) => row.phone[1] \in unchecked'
  <1>1. x.pc = "save"
    BY DEF SaveUser
  <1>2. x \in ProcState /\ WellFormed(x) /\ x.op # "none" /\ u \in Users
    BY <1>1 DEF AccountsType, WellFormed
  <1>3. row \in RowState
    BY <1>2, SetFacts DEF ProcState
  <1>4. u \in DOMAIN last
    BY <1>2 DEF AccountsType
  <1>5. Return(p) /\ profile' = profile /\ raced' = raced /\ calls' = calls
    BY DEF SaveUser
  <1>6. IF Taken(u, row.phone) \/ (Exists(u) /\ row.born = 0)
        THEN UNCHANGED <<user, last, halfDone, unchecked>>
        ELSE /\ user' = [user EXCEPT ![u] = Born(row)]
             /\ last' = [last EXCEPT ![u] = Set(x, Born([@ EXCEPT !.born = row.born]))]
             /\ halfDone' = IF x.op = "kyc" THEN halfDone \ {u} ELSE halfDone
             /\ unchecked' = IF PutsBack(x.op, u, row.phone)
                             THEN unchecked \cup {row.phone[1]} ELSE unchecked
    BY Zenon DEF SaveUser
  <1> QED
    BY <1>1, <1>2, <1>3, <1>5, <1>6

\* A phone is none or a number in a format.
LEMMA PhoneFacts ==
    ASSUME NEW phone \in Phones, phone # NoPhone
    PROVE  /\ phone[1] \in Numbers /\ phone[2] \in Formats /\ phone = <<phone[1], phone[2]>>
           /\ phone[1] # NoPhone[1]
           /\ \A f \in Formats : <<phone[1], f>> \in Phones /\ <<phone[1], f>> # NoPhone
  <1>1. phone[1] \in Numbers /\ phone[2] \in Formats /\ phone = <<phone[1], phone[2]>>
    BY DEF Phones
  <1>2. phone[1] # NoPhone[1]
    BY <1>1, NoPhoneAssumption
  <1>3. \A f \in Formats : <<phone[1], f>> \in Phones
    BY <1>1 DEF Phones
  <1>4. \A f \in Formats : <<phone[1], f>> # NoPhone
    BY <1>2
  <1> QED
    BY <1>1, <1>2, <1>3, <1>4

\* The steps there are.
LEMMA StepsThereAre ==
    ASSUME AccountsType, [Next]_vars
    PROVE  \/ \E p \in Procs, u \in Users : \E op, phone, id :
                 Request(op, phone, id) /\ Begin(p, op, u, phone, id)
           \/ \E p \in Procs :
                 ReadUser(p) \/ CheckPhone(p) \/ SaveProfile(p) \/ SaveUser(p) \/ Crash(p)
           \/ \E u \in Users : Block(u)
           \/ UNCHANGED vars
  <1> DEFINE Begins == \E p \in Procs, u \in Users : \E op, phone, id :
                          Request(op, phone, id) /\ Begin(p, op, u, phone, id)
  <1>1. ASSUME NEW p \in Procs, NEW u \in Users, NEW phone \in Phones, Login(p, u, phone)
        PROVE  Begins
    <2>1. Request("login", phone, 0)
      BY DEF Request, Ops
    <2> QED
      BY <1>1, <2>1 DEF Login
  <1>2. ASSUME NEW p \in Procs, NEW u \in Users, NEW phone \in Phones, UpdateProfile(p, u, phone)
        PROVE  Begins
    <2>1. PICK stored : stored = NormalizePhoneForStore(phone)
      OBVIOUS
    <2>2. phone # NoPhone /\ Begin(p, "profile", u, stored, 0)
      BY <1>2, <2>1 DEF UpdateProfile
    <2>3. stored \in Phones /\ stored # NoPhone
      <3>1. "0" \in Formats
        BY DEF Formats
      <3> QED
        BY <2>1, <2>2, <3>1, PhoneFacts DEF NormalizePhoneForStore
    <2>4. Request("profile", stored, 0)
      BY <2>3 DEF Request, Ops
    <2> QED
      BY <2>2, <2>4
  <1>3. ASSUME NEW p \in Procs, NEW u \in Users, SetPin(p, u) PROVE Begins
    <2>1. calls \in 0 .. MaxCalls /\ calls < MaxCalls /\ Begin(p, "pin", u, NoPhone, calls + 1)
      BY <1>3 DEF SetPin, Begin, AccountsType
    <2>2. calls + 1 \in 0 .. MaxCalls /\ calls + 1 \in Nat
      BY <2>1, UserAccountsAssumption
    <2>3. Request("pin", NoPhone, calls + 1)
      BY <2>2, IdleType DEF Request, Ops
    <2> QED
      BY <2>1, <2>3
  <1>4. ASSUME NEW p \in Procs, NEW u \in Users, NEW id \in 1 .. 2, SubmitKyc(p, u, id)
        PROVE  Begins
    <2>1. Request("kyc", NoPhone, id)
      BY IdleType DEF Request, Ops
    <2> QED
      BY <1>4, <2>1 DEF SubmitKyc
  <1> HIDE DEF Begins
  <1>5. Begins \/ (\E p \in Procs :
                      ReadUser(p) \/ CheckPhone(p) \/ SaveProfile(p) \/ SaveUser(p) \/ Crash(p))
        \/ (\E u \in Users : Block(u)) \/ UNCHANGED vars
    BY <1>1, <1>2, <1>3, <1>4 DEF Next
  <1> QED
    BY <1>5 DEF Begins

\* The row is read: the handler goes on with a copy of it, or ends.
LEMMA ReadStep ==
    ASSUME AccountsType, NEW p \in Procs, ReadUser(p)
    PROVE  /\ proc' \in [Procs -> ProcState] /\ Others(p)
           /\ \A q \in Procs : WellFormed(proc'[q])
           /\ proc[p].user \in Users /\ proc[p].op # "none" /\ proc[p].pc = "read"
           /\ \/ proc'[p] = Idle
              \/ /\ proc'[p].op = proc[p].op /\ proc'[p].user = proc[p].user
                 /\ proc'[p].phone = proc[p].phone
                 /\ proc'[p].pc \in {"check", "submit", "save"}
                 /\ proc'[p].pc = "save" => proc[p].op \notin {"profile", "kyc"}
                 /\ proc'[p].copy = user[proc[p].user]
  <1>1. proc[p].pc = "read" /\ proc[p] \in ProcState /\ WellFormed(proc[p])
    BY DEF ReadUser, AccountsType
  <1>2. proc[p].user \in Users /\ proc[p].op # "none"
    BY <1>1 DEF WellFormed
  <1>3. CASE Return(p)
    BY <1>1, <1>2, <1>3, ReturnStep
  <1>4. CASE ~Return(p)
    <2>1. PICK pc : pc = CASE proc[p].op = "profile" -> "check"
                           [] proc[p].op = "kyc" -> "submit"
                           [] OTHER -> "save"
      OBVIOUS
    <2>2. Step(p, pc, user[proc[p].user])
      BY <1>4, <2>1 DEF ReadUser
    <2>3. /\ pc \in Pcs \ {"idle"} /\ pc \in {"check", "submit", "save"}
          /\ pc = "check" => proc[p].op = "profile"
          /\ pc = "submit" => proc[p].op = "kyc"
          /\ pc = "save" => proc[p].op \notin {"profile", "kyc"}
      BY <2>1 DEF Pcs
    <2>4. user[proc[p].user] \in RowState
      BY <1>2 DEF AccountsType
    <2> QED
      BY <1>1, <1>2, <2>2, <2>3, <2>4, StepStep
  <1> QED
    BY <1>3, <1>4

\* The look-up and the profile's save: the handler goes on or ends.
LEMMA MiddleStep ==
    ASSUME AccountsType, NEW p \in Procs, CheckPhone(p) \/ SaveProfile(p)
    PROVE  /\ proc' \in [Procs -> ProcState] /\ Others(p)
           /\ \A q \in Procs : WellFormed(proc'[q])
           /\ proc[p].user \in Users /\ proc[p].op # "none" /\ proc[p].pc # "save"
           /\ \/ proc'[p] = Idle
              \/ /\ proc'[p].op = proc[p].op /\ proc'[p].user = proc[p].user
                 /\ proc'[p].phone = proc[p].phone
                 /\ proc'[p].pc = "save" /\ proc'[p].copy = proc[p].copy
           /\ user' = user /\ last' = last /\ calls' = calls
           /\ raced' = raced /\ unchecked' = unchecked /\ halfDone' = halfDone
  <1>1. proc[p].pc \in {"check", "submit"} /\ proc[p] \in ProcState /\ WellFormed(proc[p])
    BY DEF CheckPhone, SaveProfile, AccountsType
  <1>2. proc[p].user \in Users /\ proc[p].op # "none" /\ proc[p].copy \in RowState
    BY <1>1 DEF WellFormed, ProcState
  <1>3. /\ user' = user /\ last' = last /\ calls' = calls
        /\ raced' = raced /\ unchecked' = unchecked /\ halfDone' = halfDone
    BY DEF CheckPhone, SaveProfile
  <1>4. CASE Return(p)
    BY <1>1, <1>2, <1>3, <1>4, ReturnStep
  <1>5. CASE ~Return(p)
    <2>1. Step(p, "save", proc[p].copy)
      BY <1>5 DEF CheckPhone, SaveProfile
    <2>2. "save" \in Pcs \ {"idle"}
      BY DEF Pcs
    <2> QED
      BY <1>1, <1>2, <1>3, <2>1, <2>2, StepStep
  <1> QED
    BY <1>4, <1>5

\* Every step keeps the types.
LEMMA TypeStep == ASSUME AccountsType, [Next]_vars PROVE AccountsType'
  <1>1. ASSUME NEW p \in Procs, NEW u \in Users, NEW op, NEW phone, NEW id,
               Request(op, phone, id), Begin(p, op, u, phone, id)
        PROVE  AccountsType'
    <2>1. user' = user /\ last' = last /\ profile' = profile
      BY <1>1 DEF Begin
    <2>2. /\ proc' \in [Procs -> ProcState] /\ calls' \in 0 .. MaxCalls
          /\ \A q \in Procs : WellFormed(proc'[q])
      BY <1>1, BeginStep
    <2> QED
      BY <2>1, <2>2 DEF AccountsType, Exists
  <1>2. ASSUME NEW p \in Procs, ReadUser(p) PROVE AccountsType'
    <2>1. user' = user /\ last' = last /\ profile' = profile /\ calls' = calls
      BY <1>2 DEF ReadUser
    <2>2. proc' \in [Procs -> ProcState] /\ \A q \in Procs : WellFormed(proc'[q])
      BY <1>2, ReadStep
    <2> QED
      BY <2>1, <2>2 DEF AccountsType, Exists
  <1>3. ASSUME NEW p \in Procs, CheckPhone(p) \/ SaveProfile(p) PROVE AccountsType'
    <2>1. /\ user' = user /\ last' = last /\ calls' = calls
          /\ proc' \in [Procs -> ProcState] /\ \A q \in Procs : WellFormed(proc'[q])
      BY <1>3, MiddleStep
    <2>2. profile' \in [Users -> Nat]
      <3>1. proc[p].id \in Nat
        BY DEF AccountsType, ProcState
      <3>2. profile' = profile \/ profile' = [profile EXCEPT ![proc[p].user] = proc[p].id]
        BY <1>3 DEF CheckPhone, SaveProfile
      <3> QED
        BY <3>1, <3>2 DEF AccountsType
    <2> QED
      BY <2>1, <2>2 DEF AccountsType, Exists
  <1>4. ASSUME NEW p \in Procs, SaveUser(p) PROVE AccountsType'
    <2>1. PICK x, u, row : x = proc[p] /\ u = x.user /\ row = Set(x, x.copy)
      OBVIOUS
    <2>2. /\ u \in Users /\ x.op # "none" /\ x \in ProcState /\ WellFormed(x)
          /\ row \in RowState /\ Return(p) /\ profile' = profile /\ calls' = calls
          /\ \/ user' = user /\ last' = last
             \/ /\ user' = [user EXCEPT ![u] = Born(row)]
                /\ last' = [last EXCEPT ![u] = Set(x, Born([last[u] EXCEPT !.born = row.born]))]
      BY <1>4, <2>1, SaveStep
    <2>3. proc' \in [Procs -> ProcState] /\ \A q \in Procs : WellFormed(proc'[q])
      BY <2>2, ReturnStep
    <2>4. CASE user' = user /\ last' = last
      BY <2>2, <2>3, <2>4 DEF AccountsType, Exists
    <2>5. CASE /\ user' = [user EXCEPT ![u] = Born(row)]
               /\ last' = [last EXCEPT ![u] = Set(x, Born([last[u] EXCEPT !.born = row.born]))]
      <3>1. Born(row) \in RowState /\ Born(row).born > 0
        BY <2>2, BornFacts
      <3>2. [last[u] EXCEPT !.born = row.born] \in RowState
        BY <2>2 DEF AccountsType, RowState
      <3>3. Set(x, Born([last[u] EXCEPT !.born = row.born])) \in RowState
        BY <2>2, <3>2, BornFacts, SetFacts
      <3>4. user' \in [Users -> RowState] /\ last' \in [Users -> RowState]
        BY <2>5, <3>1, <3>3 DEF AccountsType
      <3>5. \A v \in Users : user'[v].phone # NoPhone => user'[v].born > 0
        BY <2>2, <2>5, <3>1 DEF AccountsType, Exists
      <3> QED
        BY <2>2, <2>3, <3>4, <3>5 DEF AccountsType, Exists
    <2> QED
      BY <2>2, <2>4, <2>5
  <1>5. ASSUME NEW p \in Procs, Crash(p) PROVE AccountsType'
    <2>1. user' = user /\ last' = last /\ profile' = profile /\ calls' = calls /\ Return(p)
      BY <1>5 DEF Crash
    <2>2. proc' \in [Procs -> ProcState] /\ \A q \in Procs : WellFormed(proc'[q])
      BY <2>1, ReturnStep
    <2> QED
      BY <2>1, <2>2 DEF AccountsType, Exists
  <1>6. ASSUME NEW u \in Users, Block(u) PROVE AccountsType'
    <2>1. /\ user' = [user EXCEPT ![u].status = "blocked"]
          /\ last' = [last EXCEPT ![u].status = "blocked"]
          /\ profile' = profile /\ proc' = proc /\ calls' = calls
      BY <1>6 DEF Block
    <2>2. user' \in [Users -> RowState] /\ last' \in [Users -> RowState]
      BY <2>1 DEF AccountsType, RowState
    <2>3. \A v \in Users : user'[v].phone = user[v].phone /\ user'[v].born = user[v].born
      BY <2>1 DEF AccountsType, RowState
    <2> QED
      BY <2>1, <2>2, <2>3 DEF AccountsType, Exists
  <1>7. ASSUME UNCHANGED vars PROVE AccountsType'
    BY <1>7 DEF vars, AccountsType, Exists
  <1> QED
    BY <1>1, <1>2, <1>3, <1>4, <1>5, <1>6, <1>7, StepsThereAre

\* The types hold at the start.
LEMMA InitType == Init => AccountsType
  <1> SUFFICES ASSUME Init PROVE AccountsType
    OBVIOUS
  <1>1. /\ user = [u \in Users |-> NoRow] /\ last = [u \in Users |-> NoRow]
        /\ profile = [u \in Users |-> 0] /\ proc = [p \in Procs |-> Idle] /\ calls = 0
    BY DEF Init
  <1>2. 0 \in 0 .. MaxCalls
    BY UserAccountsAssumption
  <1> HIDE DEF NoRow, Idle
  <1> QED
    BY <1>1, <1>2, IdleType DEF AccountsType

-----------------------------------------------------------------------------
(* Acknowledged writes                                                     *)

\* Operations under way on one user's row.
On(p, u) == proc[p].op # "none" /\ proc[p].user = u

\* While no two operations on a row overlap, the row is what the acknowledged
\* writes made of it, and the only operation's copy is the row.
Undisturbed(u) ==
    /\ user[u] = last[u]
    /\ \A p, q \in Procs : On(p, u) /\ On(q, u) => p = q
    /\ \A p \in Procs : On(p, u) /\ proc[p].pc # "read" => proc[p].copy = user[u]

AckInv == AccountsType /\ \A u \in Users \ raced : Undisturbed(u)

\* Overlapping operations on a row are noted.
LEMMA RacedStep ==
    ASSUME NEW u, raced' = raced \cup {u : q \in {q \in InFlight : proc[q].user = u}}
    PROVE  /\ raced \subseteq raced'
           /\ u \notin raced' => \A q \in Procs : ~On(q, u)
  BY DEF InFlight, On

\* A step of one handler that leaves the rows alone.
LEMMA UndisturbedFrame ==
    ASSUME NEW p \in Procs, Others(p), user' = user, last' = last, NEW u, Undisturbed(u),
           On(p, u)' => \/ On(p, u)
                        \/ \A q \in Procs : ~On(q, u),
           On(p, u)' /\ proc'[p].pc # "read" => proc'[p].copy = user[u]
    PROVE  Undisturbed(u)'
  <1>1. \A q \in Procs : q # p => (On(q, u)' <=> On(q, u)) /\ proc'[q] = proc[q]
    BY DEF Others, On
  <1>2. user'[u] = last'[u]
    BY DEF Undisturbed
  <1>3. ASSUME NEW q \in Procs, NEW s \in Procs, On(q, u)', On(s, u)' PROVE q = s
    BY <1>1, <1>3 DEF Undisturbed
  <1>4. ASSUME NEW q \in Procs, On(q, u)', proc'[q].pc # "read" PROVE proc'[q].copy = user'[u]
    BY <1>1, <1>4 DEF Undisturbed
  <1> QED
    BY <1>2, <1>3, <1>4, Zenon DEF Undisturbed

\* An idle handler is on no row.
LEMMA IdleOn == ASSUME NEW p, NEW u, proc'[p] = Idle PROVE ~On(p, u)'
  BY IdleType DEF On

\* Every step keeps what holds of undisturbed rows.
LEMMA AckStep == ASSUME AckInv, [Next]_vars PROVE AckInv'
  <1>0. AccountsType /\ AccountsType' /\ \A u \in Users \ raced : Undisturbed(u)
    BY TypeStep DEF AckInv
  <1> DEFINE Rest == \A u \in Users \ raced : Undisturbed(u)
  <1> SUFFICES Rest'
    BY <1>0 DEF AckInv
  <1>1. ASSUME NEW p \in Procs, NEW u \in Users, NEW op, NEW phone, NEW id,
               Request(op, phone, id), Begin(p, op, u, phone, id)
        PROVE  Rest'
    <2> SUFFICES ASSUME NEW v \in Users, v \notin raced' PROVE Undisturbed(v)'
      OBVIOUS
    <2>1. /\ Others(p) /\ proc'[p].user = u /\ proc'[p].pc = "read"
      BY <1>0, <1>1, BeginStep
    <2>2. user' = user /\ last' = last
      BY <1>1 DEF Begin
    <2>3. raced \subseteq raced' /\ (u \notin raced' => \A q \in Procs : ~On(q, u))
      BY <1>1, RacedStep DEF Begin
    <2>4. On(p, v)' => v = u
      BY <2>1 DEF On
    <2>5. Undisturbed(v)
      BY <1>0, <2>3
    <2> QED
      BY <2>1, <2>2, <2>3, <2>4, <2>5, UndisturbedFrame
  <1>2. ASSUME NEW p \in Procs, ReadUser(p) PROVE Rest'
    <2> SUFFICES ASSUME NEW v \in Users, v \notin raced' PROVE Undisturbed(v)'
      OBVIOUS
    <2>1. user' = user /\ last' = last /\ raced' = raced
      BY <1>2 DEF ReadUser
    <2>2. /\ Others(p) /\ proc[p].op # "none"
          /\ \/ proc'[p] = Idle
             \/ proc'[p].user = proc[p].user /\ proc'[p].copy = user[proc[p].user]
      BY <1>0, <1>2, ReadStep
    <2>3. On(p, v)' => On(p, v) /\ proc'[p].copy = user[v]
      BY <2>2, IdleOn DEF On
    <2>4. Undisturbed(v)
      BY <1>0, <2>1
    <2> QED
      BY <2>1, <2>2, <2>3, <2>4, UndisturbedFrame
  <1>3. ASSUME NEW p \in Procs, CheckPhone(p) \/ SaveProfile(p) PROVE Rest'
    <2> SUFFICES ASSUME NEW v \in Users, v \notin raced' PROVE Undisturbed(v)'
      OBVIOUS
    <2>1. /\ user' = user /\ last' = last /\ raced' = raced
          /\ Others(p) /\ proc[p].op # "none"
          /\ proc'[p] = Idle \/ (proc'[p].user = proc[p].user /\ proc'[p].copy = proc[p].copy)
      BY <1>0, <1>3, MiddleStep
    <2>2. proc[p].pc # "read"
      BY <1>3 DEF CheckPhone, SaveProfile
    <2>3. Undisturbed(v)
      BY <1>0, <2>1
    <2>4. On(p, v)' => On(p, v) /\ proc'[p].copy = user[v]
      BY <2>1, <2>2, <2>3, IdleOn DEF On, Undisturbed
    <2> QED
      BY <2>1, <2>3, <2>4, UndisturbedFrame
  <1>4. ASSUME NEW p \in Procs, SaveUser(p) PROVE Rest'
    <2> SUFFICES ASSUME NEW v \in Users, v \notin raced' PROVE Undisturbed(v)'
      OBVIOUS
    <2>1. PICK x, u, row : x = proc[p] /\ u = x.user /\ row = Set(x, x.copy)
      OBVIOUS
    <2>2. /\ u \in Users /\ x.op # "none" /\ x.pc = "save" /\ x \in ProcState /\ WellFormed(x)
          /\ row \in RowState /\ Return(p) /\ raced' = raced
          /\ \/ user' = user /\ last' = last
             \/ /\ user' = [user EXCEPT ![u] = Born(row)]
                /\ last' = [last EXCEPT ![u] = Set(x, Born([last[u] EXCEPT !.born = row.born]))]
      BY <1>0, <1>4, <2>1, SaveStep
    <2>3. Others(p) /\ ~On(p, v)' /\ Undisturbed(v)
      BY <1>0, <2>2, ReturnStep, IdleOn
    <2>4. CASE user' = user /\ last' = last
      BY <2>3, <2>4, UndisturbedFrame
    <2>5. CASE /\ user' = [user EXCEPT ![u] = Born(row)]
               /\ last' = [last EXCEPT ![u] = Set(x, Born([last[u] EXCEPT !.born = row.born]))]
      <3>1. user'[v] = last'[v]
        <4>1. CASE v = u
          <5>1. On(p, u) /\ x.copy = user[u] /\ user[u] = last[u]
            BY <2>1, <2>2, <2>3, <4>1 DEF On, Undisturbed
          <5>2. user[u] \in RowState /\ row.born = user[u].born
            BY <1>0, <2>1, <2>2, <5>1, SetFacts DEF AccountsType
          <5>3. [last[u] EXCEPT !.born = row.born] = user[u]
            BY <5>1, <5>2 DEF RowState
          <5>4. Born(row) = Set(x, Born(user[u]))
            BY <2>1, <2>2, <5>1, <5>2, BornSet
          <5>5. user'[u] = Born(row) /\ last'[u] = Set(x, Born([last[u] EXCEPT !.born = row.born]))
            BY <1>0, <2>2, <2>5 DEF AccountsType
          <5> QED
            BY <4>1, <5>3, <5>4, <5>5
        <4>2. CASE v # u
          BY <1>0, <2>3, <2>5, <4>2 DEF AccountsType, Undisturbed
        <4> QED
          BY <4>1, <4>2
      <3>2. ASSUME NEW q \in Procs, On(q, v)'
            PROVE  On(q, v) /\ q # p /\ proc'[q] = proc[q]
        BY <2>3, <3>2 DEF On, Others
      <3>3. ASSUME NEW q \in Procs, On(q, v)', proc'[q].pc # "read" PROVE proc'[q].copy = user'[v]
        <4>1. On(q, v) /\ q # p /\ proc'[q] = proc[q] /\ proc[q].copy = user[v]
          BY <2>3, <3>2, <3>3 DEF Undisturbed
        <4>2. v # u
          BY <2>1, <2>2, <2>3, <4>1 DEF On, Undisturbed
        <4> QED
          BY <1>0, <2>5, <4>1, <4>2 DEF AccountsType
      <3>4. \A q, s \in Procs : On(q, v)' /\ On(s, v)' => q = s
        BY <2>3, <3>2 DEF Undisturbed
      <3> QED
        BY <3>1, <3>3, <3>4, Zenon DEF Undisturbed
    <2> QED
      BY <2>2, <2>4, <2>5
  <1>5. ASSUME NEW p \in Procs, Crash(p) PROVE Rest'
    <2> SUFFICES ASSUME NEW v \in Users, v \notin raced' PROVE Undisturbed(v)'
      OBVIOUS
    <2>1. user' = user /\ last' = last /\ raced' = raced /\ Return(p)
      BY <1>5 DEF Crash
    <2>2. Others(p) /\ ~On(p, v)' /\ Undisturbed(v)
      BY <1>0, <2>1, ReturnStep, IdleOn
    <2> QED
      BY <2>1, <2>2, UndisturbedFrame
  <1>6. ASSUME NEW u \in Users, Block(u) PROVE Rest'
    <2> SUFFICES ASSUME NEW v \in Users, v \notin raced' PROVE Undisturbed(v)'
      OBVIOUS
    <2>1. /\ user' = [user EXCEPT ![u].status = "blocked"]
          /\ last' = [last EXCEPT ![u].status = "blocked"]
          /\ proc' = proc
      BY <1>6 DEF Block
    <2>2. raced \subseteq raced' /\ (u \notin raced' => \A q \in Procs : ~On(q, u))
      BY <1>6, RacedStep DEF Block
    <2>3. Undisturbed(v)
      BY <1>0, <2>2
    <2>4. \A q \in Procs : On(q, v)' <=> On(q, v)
      BY <2>1 DEF On
    <2>5. user'[v] = last'[v]
      BY <1>0, <2>1, <2>3 DEF AccountsType, Undisturbed
    <2>6. ASSUME NEW q \in Procs, On(q, v) PROVE user'[v] = user[v]
      <3>1. v # u
        BY <2>2, <2>6
      <3> QED
        BY <1>0, <2>1, <3>1 DEF AccountsType
    <2>7. \A q \in Procs : On(q, v)' /\ proc'[q].pc # "read" => proc'[q].copy = user'[v]
      BY <2>1, <2>3, <2>4, <2>6 DEF Undisturbed
    <2> QED
      BY <2>3, <2>4, <2>5, <2>7, Zenon DEF Undisturbed
  <1>7. ASSUME UNCHANGED vars PROVE Rest'
    BY <1>0, <1>7 DEF vars, Undisturbed, On
  <1> HIDE DEF Rest
  <1> QED
    BY <1>0, <1>1, <1>2, <1>3, <1>4, <1>5, <1>6, <1>7, StepsThereAre

\* Nobody has called at the start.
LEMMA InitAck == Init => AckInv
  <1> SUFFICES ASSUME Init PROVE \A u \in Users : Undisturbed(u)
    BY InitType DEF AckInv
  <1> HIDE DEF Idle
  <1>1. user = last /\ \A p \in Procs : proc[p] = Idle
    BY DEF Init
  <1>2. \A p \in Procs : \A u : ~On(p, u)
    BY <1>1, IdleType DEF On
  <1> QED
    BY <1>1, <1>2 DEF Undisturbed

\* A PIN, phone, KYC state or block that was acknowledged is what the service
\* answers by until the next write of that column, unless operations on the
\* user's row overlapped.
THEOREM AcknowledgedWritesAlwaysStand == Spec => []AcknowledgedWritesStand
  <1>1. AckInv => AcknowledgedWritesStand
    <2> SUFFICES ASSUME AckInv, NEW u \in Users \ raced, Exists(u)
                 PROVE  /\ GetProfile(u) = ToProfile(last[u])
                        /\ {id \in 0 .. MaxCalls : VerifyPin(u, id)} = {last[u].pin} \ {0}
                        /\ VerifyInternalToken(u) <=> last[u].status = "active"
      BY DEF AcknowledgedWritesStand
    <2>1. user[u] = last[u] /\ last[u].pin \in 0 .. MaxCalls
      BY DEF AckInv, Undisturbed, AccountsType, RowState
    <2>2. GetProfile(u) = ToProfile(last[u])
      BY <2>1 DEF GetProfile
    <2>3. {id \in 0 .. MaxCalls : VerifyPin(u, id)} = {last[u].pin} \ {0}
      BY <2>1 DEF VerifyPin, VerifyPinHash
    <2>4. VerifyInternalToken(u) <=> last[u].status = "active"
      BY <2>1 DEF VerifyInternalToken, Active
    <2> QED
      BY <2>2, <2>3, <2>4
  <1> QED
    BY <1>1, InitAck, AckStep, PTL DEF Spec

-----------------------------------------------------------------------------
(* Numbers                                                                 *)

Has(v, n) == user[v].phone # NoPhone /\ user[v].phone[1] = n
Carries(p, n) == proc[p].op # "none" /\ proc[p].phone # NoPhone /\ proc[p].phone[1] = n

\* A number that never came in unchecked has one owner and one operation that
\* brings it, which once it has looked gives it to nobody but its owner.
Known(n) ==
    /\ \A u, v \in Users : Has(u, n) /\ Has(v, n) => u = v
    /\ \A p, q \in Procs : Carries(p, n) /\ Carries(q, n) => p = q
    /\ \A p \in Procs : Carries(p, n) =>
          /\ proc[p].op = "profile"
          /\ proc[p].pc = "save" => \A v \in Users : Has(v, n) => v = proc[p].user

NumberInv == AccountsType /\ \A n \in Numbers \ unchecked : Known(n)

\* A step of one handler that leaves the rows alone.
LEMMA KnownFrame ==
    ASSUME NEW p \in Procs, Others(p), user' = user, NEW n, Known(n),
           Carries(p, n)' =>
              /\ Carries(p, n) \/ \A q \in Procs : ~Carries(q, n)
              /\ proc'[p].op = "profile"
              /\ proc'[p].pc = "save" => \A v \in Users : Has(v, n) => v = proc'[p].user
    PROVE  Known(n)'
  <1>1. \A q \in Procs : q # p => (Carries(q, n)' <=> Carries(q, n)) /\ proc'[q] = proc[q]
    BY DEF Others, Carries
  <1>2. \A v : Has(v, n)' <=> Has(v, n)
    BY DEF Has
  <1>3. \A q, s \in Procs : Carries(q, n)' /\ Carries(s, n)' => q = s
    BY <1>1 DEF Known
  <1>4. ASSUME NEW q \in Procs, Carries(q, n)'
        PROVE  /\ proc'[q].op = "profile"
               /\ proc'[q].pc = "save" => \A v \in Users : Has(v, n) => v = proc'[q].user
    <2>1. CASE q = p
      BY <1>4, <2>1
    <2>2. CASE q # p
      BY <1>1, <1>4, <2>2 DEF Known
    <2> QED
      BY <2>1, <2>2
  <1>5. \A u, v \in Users : Has(u, n)' /\ Has(v, n)' => u = v
    BY <1>2 DEF Known
  <1> QED
    BY <1>2, <1>3, <1>4, <1>5, Zenon DEF Known

\* An idle handler brings no number.
LEMMA IdleCarries == ASSUME NEW p, NEW n, proc'[p] = Idle PROVE ~Carries(p, n)'
  BY IdleType DEF Carries

\* findByPhone finds the only owner, whatever the format asked for.
LEMMA OwnerIsFound ==
    ASSUME AccountsType, NEW phone, phone[1] \in Numbers, Known(phone[1]),
           NEW u \in Users, Has(u, phone[1])
    PROVE  FindByPhone(phone) = {u}
  <1> DEFINE variants == {<<phone[1], f>> : f \in Formats}
             owners == {v \in Users : Exists(v) /\ user[v].phone \in variants}
  <1>1. u \in owners
    <2>1. user[u].phone \in Phones /\ user[u].phone # NoPhone /\ user[u].phone[1] = phone[1]
      BY DEF AccountsType, RowState, Has
    <2>2. user[u].phone \in variants
      <3>1. /\ user[u].phone[2] \in Formats
            /\ user[u].phone = <<user[u].phone[1], user[u].phone[2]>>
        BY <2>1, PhoneFacts
      <3> QED
        BY <2>1, <3>1
    <2> QED
      BY <2>1, <2>2 DEF AccountsType
  <1>2. ASSUME NEW v \in owners PROVE v = u
    <2>1. PICK f \in Formats : user[v].phone = <<phone[1], f>>
      BY <1>2
    <2>2. user[v].phone[1] = phone[1] /\ phone[1] # NoPhone[1]
      BY <2>1, NoPhoneAssumption
    <2>3. Has(v, phone[1])
      BY <2>2 DEF Has
    <2> QED
      BY <1>2, <2>3 DEF Known
  <1>3. owners = {u}
    BY <1>1, <1>2
  <1>4. FindByPhone(phone) = {v \in owners : \A w \in owners : user[w].born <= user[v].born}
    BY DEF FindByPhone
  <1>5. user[u].born \in Nat
    BY DEF AccountsType, RowState
  <1> HIDE DEF owners
  <1> QED
    BY <1>3, <1>4, <1>5

\* Every step keeps what holds of checked numbers.
LEMMA NumberStep == ASSUME NumberInv, [Next]_vars PROVE NumberInv'
  <1>0. AccountsType /\ AccountsType' /\ \A n \in Numbers \ unchecked : Known(n)
    BY TypeStep DEF NumberInv
  <1> DEFINE Rest == \A n \in Numbers \ unchecked : Known(n)
  <1> SUFFICES Rest'
    BY <1>0 DEF NumberInv
  <1>1. ASSUME NEW p \in Procs, NEW u \in Users, NEW op, NEW phone, NEW id,
               Request(op, phone, id), Begin(p, op, u, phone, id)
        PROVE  Rest'
    <2> SUFFICES ASSUME NEW n \in Numbers, n \notin unchecked' PROVE Known(n)'
      OBVIOUS
    <2>1. Others(p) /\ proc'[p].phone = phone /\ proc'[p].op = op /\ proc'[p].pc = "read"
      BY <1>0, <1>1, BeginStep
    <2>2. user' = user /\ unchecked \subseteq unchecked'
      BY <1>1 DEF Begin
    <2>3. ASSUME phone # NoPhone, phone[1] = n
          PROVE  op = "profile" /\ \A q \in Procs : ~Carries(q, n)
      <3>1. op # "login"
        BY <1>1, <2>3 DEF Begin
      <3>2. op = "profile"
        BY <1>1, <2>3, <3>1 DEF Request
      <3>3. ASSUME NEW q \in Procs, Carries(q, n) PROVE FALSE
        <4>1. q \in InFlight /\ proc[q].phone[1] = phone[1]
          BY <2>3, <3>3 DEF Carries, InFlight
        <4> QED
          BY <1>1, <2>3, <4>1 DEF Begin
      <3> QED
        BY <3>2, <3>3
    <2>4. Known(n)
      BY <1>0, <2>2
    <2>5. Carries(p, n)' => phone # NoPhone /\ phone[1] = n
      BY <2>1 DEF Carries
    <2> QED
      BY <2>1, <2>2, <2>3, <2>4, <2>5, KnownFrame
  <1>2. ASSUME NEW p \in Procs, ReadUser(p) PROVE Rest'
    <2> SUFFICES ASSUME NEW n \in Numbers, n \notin unchecked' PROVE Known(n)'
      OBVIOUS
    <2>1. user' = user /\ unchecked' = unchecked
      BY <1>2 DEF ReadUser
    <2>2. /\ Others(p) /\ proc[p].op # "none"
          /\ \/ proc'[p] = Idle
             \/ /\ proc'[p].op = proc[p].op /\ proc'[p].phone = proc[p].phone
                /\ proc'[p].pc = "save" => proc[p].op \notin {"profile", "kyc"}
      BY <1>0, <1>2, ReadStep
    <2>3. Known(n)
      BY <1>0, <2>1
    <2>4. Carries(p, n)' => /\ Carries(p, n) /\ proc'[p].op = "profile" /\ proc'[p].pc # "save"
      BY <2>2, <2>3, IdleCarries DEF Carries, Known
    <2> QED
      BY <2>1, <2>2, <2>3, <2>4, KnownFrame
  <1>3. ASSUME NEW p \in Procs, CheckPhone(p) \/ SaveProfile(p) PROVE Rest'
    <2> SUFFICES ASSUME NEW n \in Numbers, n \notin unchecked' PROVE Known(n)'
      OBVIOUS
    <2>1. /\ user' = user /\ unchecked' = unchecked
          /\ Others(p) /\ proc[p].op # "none"
          /\ \/ proc'[p] = Idle
             \/ /\ proc'[p].op = proc[p].op /\ proc'[p].phone = proc[p].phone
                /\ proc'[p].user = proc[p].user
      BY <1>0, <1>3, MiddleStep
    <2>2. Known(n)
      BY <1>0, <2>1
    <2>3. ASSUME Carries(p, n)'
          PROVE  /\ Carries(p, n) /\ proc'[p].op = "profile"
                 /\ \A v \in Users : Has(v, n) => v = proc'[p].user
      <3>1. proc'[p] # Idle
        BY <2>3, IdleCarries
      <3>2. /\ Carries(p, n) /\ proc[p].op = "profile" /\ proc'[p].op = "profile"
            /\ proc'[p].user = proc[p].user
        BY <2>1, <2>2, <2>3, <3>1 DEF Carries, Known
      <3>3. ~SaveProfile(p)
        BY <1>0, <3>2 DEF SaveProfile, AccountsType, WellFormed
      <3>4. FindByPhone(proc[p].phone) \subseteq {proc[p].user}
        <4>1. ~Return(p)
          BY <1>0, <3>1, ReturnStep
        <4> QED
          BY <1>3, <3>3, <4>1 DEF CheckPhone
      <3>5. ASSUME NEW v \in Users, Has(v, n) PROVE v = proc[p].user
        <4>1. FindByPhone(proc[p].phone) = {v}
          BY <1>0, <2>2, <3>2, <3>5, OwnerIsFound DEF Carries
        <4> QED
          BY <3>4, <4>1
      <3> QED
        BY <3>2, <3>5
    <2> QED
      BY <2>1, <2>2, <2>3, KnownFrame
  <1>4. ASSUME NEW p \in Procs, SaveUser(p) PROVE Rest'
    <2> SUFFICES ASSUME NEW n \in Numbers, n \notin unchecked' PROVE Known(n)'
      OBVIOUS
    <2>1. PICK x, u, row : x = proc[p] /\ u = x.user /\ row = Set(x, x.copy)
      OBVIOUS
    <2>2. /\ u \in Users /\ x.op # "none" /\ x.pc = "save" /\ x \in ProcState /\ WellFormed(x)
          /\ row \in RowState /\ Return(p)
          /\ \/ user' = user /\ unchecked' = unchecked
             \/ /\ user' = [user EXCEPT ![u] = Born(row)]
                /\ unchecked \subseteq unchecked'
                /\ PutsBack(x.op, u, row.phone) => row.phone[1] \in unchecked'
      <3>1. AccountsType
        BY <1>0
      <3>2. /\ u \in Users /\ x.op # "none" /\ x.pc = "save" /\ x \in ProcState /\ WellFormed(x)
            /\ row \in RowState /\ Return(p)
        BY <1>4, <2>1, <3>1, SaveStep
      <3>3. \/ user' = user /\ unchecked' = unchecked
            \/ /\ user' = [user EXCEPT ![u] = Born(row)]
               /\ unchecked \subseteq unchecked'
               /\ PutsBack(x.op, u, row.phone) => row.phone[1] \in unchecked'
        BY <1>4, <2>1 DEF SaveUser
      <3> QED
        BY <3>2, <3>3
    <2>3. Others(p) /\ ~Carries(p, n)' /\ Known(n)
      BY <1>0, <2>2, ReturnStep, IdleCarries
    <2>4. CASE user' = user /\ unchecked' = unchecked
      BY <2>3, <2>4, KnownFrame
    <2>5. CASE /\ user' = [user EXCEPT ![u] = Born(row)]
               /\ unchecked \subseteq unchecked'
               /\ PutsBack(x.op, u, row.phone) => row.phone[1] \in unchecked'
      <3>1. user'[u].phone = row.phone /\ \A v \in Users : v # u => user'[v] = user[v]
        BY <1>0, <2>2, <2>5, BornFacts DEF AccountsType
      <3>2. \A v \in Users : v # u => (Has(v, n)' <=> Has(v, n))
        BY <3>1 DEF Has
      <3>3. Has(u, n)' => Has(u, n) \/ Carries(p, n)
        <4> SUFFICES ASSUME row.phone # NoPhone, row.phone[1] = n PROVE Has(u, n) \/ Carries(p, n)
          BY <3>1 DEF Has
        <4>1. ~PutsBack(x.op, u, row.phone)
          BY <2>5
        <4>2. CASE row.phone = user[u].phone
          BY <4>2 DEF Has
        <4>3. CASE x.op = "profile"
          <5>1. x.phone # NoPhone /\ x.copy \in RowState
            BY <2>2, <4>3 DEF WellFormed, ProcState
          <5>2. row.phone = x.phone
            BY <2>1, <2>2, <5>1, SetFacts
          <5> QED
            BY <2>1, <2>2, <5>1, <5>2 DEF Carries
        <4> QED
          BY <4>1, <4>2, <4>3 DEF PutsBack
      <3>4. Carries(p, n) => \A v \in Users : Has(v, n) => v = u
        BY <2>1, <2>2, <2>3 DEF Known
      <3>5. \A v, w \in Users : Has(v, n)' /\ Has(w, n)' => v = w
        BY <2>2, <2>3, <3>2, <3>3, <3>4 DEF Known
      <3>6. \A q \in Procs : Carries(q, n)' => q # p /\ Carries(q, n) /\ proc'[q] = proc[q]
        BY <2>3 DEF Others, Carries
      <3>7. \A q, s \in Procs : Carries(q, n)' /\ Carries(s, n)' => q = s
        BY <2>3, <3>6 DEF Known
      <3>8. ASSUME NEW q \in Procs, Carries(q, n)'
            PROVE  /\ proc'[q].op = "profile"
                   /\ proc'[q].pc = "save" => \A v \in Users : Has(v, n)' => v = proc'[q].user
        <4>1. ~Carries(p, n) /\ Carries(q, n) /\ proc'[q] = proc[q]
          BY <2>3, <3>6, <3>8 DEF Known
        <4>2. \A v \in Users : Has(v, n)' => Has(v, n)
          BY <2>2, <3>2, <3>3, <4>1
        <4> QED
          BY <2>3, <4>1, <4>2 DEF Known
      <3> QED
        BY <3>5, <3>7, <3>8, Zenon DEF Known
    <2> QED
      BY <2>2, <2>4, <2>5
  <1>5. ASSUME NEW p \in Procs, Crash(p) PROVE Rest'
    <2> SUFFICES ASSUME NEW n \in Numbers, n \notin unchecked' PROVE Known(n)'
      OBVIOUS
    <2>1. user' = user /\ unchecked' = unchecked /\ Return(p)
      BY <1>5 DEF Crash
    <2>2. Others(p) /\ ~Carries(p, n)' /\ Known(n)
      BY <1>0, <2>1, ReturnStep, IdleCarries
    <2> QED
      BY <2>1, <2>2, KnownFrame
  <1>6. ASSUME NEW u \in Users, Block(u) PROVE Rest'
    <2>1. /\ user' = [user EXCEPT ![u].status = "blocked"]
          /\ proc' = proc /\ unchecked' = unchecked
      BY <1>6 DEF Block
    <2>2. \A v \in Users : user'[v].phone = user[v].phone
      BY <1>0, <2>1 DEF AccountsType, RowState
    <2>3. ASSUME NEW n
          PROVE  /\ \A v \in Users : Has(v, n)' <=> Has(v, n)
                 /\ \A q \in Procs : Carries(q, n)' <=> Carries(q, n)
      BY <2>1, <2>2 DEF Has, Carries
    <2> QED
      BY <1>0, <2>1, <2>3 DEF Known
  <1>7. ASSUME UNCHANGED vars PROVE Rest'
    BY <1>0, <1>7 DEF vars, Known, Has, Carries
  <1> HIDE DEF Rest
  <1> QED
    BY <1>0, <1>1, <1>2, <1>3, <1>4, <1>5, <1>6, <1>7, StepsThereAre

\* No row has a phone at the start.
LEMMA InitNumber == Init => NumberInv
  <1> SUFFICES ASSUME Init PROVE \A n : Known(n)
    BY InitType DEF NumberInv
  <1> HIDE DEF Idle, NoRow
  <1>1. (\A u \in Users : user[u] = NoRow) /\ \A p \in Procs : proc[p] = Idle
    BY DEF Init
  <1>2. \A n : (\A u \in Users : ~Has(u, n)) /\ \A p \in Procs : ~Carries(p, n)
    BY <1>1, IdleType DEF Has, Carries
  <1> QED
    BY <1>2 DEF Known

\* A number names one user, in whatever formats it is stored and asked for, and
\* leads sign-in, sign-up and payers to that user, unless it came in without a
\* look-up.
THEOREM NumbersAlwaysIdentify == Spec => []NumbersIdentify
  <1>1. NumberInv => NumberNamesOneUser
    <2> SUFFICES ASSUME NumberInv, NEW u \in Users, NEW v \in Users,
                        u # v, user[u].phone # NoPhone, user[u].phone[1] = user[v].phone[1],
                        user[u].phone[1] \notin unchecked
                 PROVE  FALSE
      BY DEF NumberNamesOneUser
    <2>1. user[u].phone \in Phones /\ user[u].phone[1] # NoPhone[1] /\ user[u].phone[1] \in Numbers
      BY PhoneFacts DEF NumberInv, AccountsType, RowState
    <2>2. Has(u, user[u].phone[1]) /\ Has(v, user[u].phone[1])
      BY <2>1 DEF Has
    <2> QED
      BY <2>1, <2>2 DEF NumberInv, Known
  <1>2. NumberInv => NumberLeadsToItsUser
    <2> SUFFICES ASSUME NumberInv, NEW u \in Users, NEW payer \in Users, NEW f \in Formats,
                        IssueQrTransferToken(u), u # payer, user[u].phone[1] \notin unchecked,
                        NEW written, written = <<user[u].phone[1], f>>
                 PROVE  /\ ResolveRecipientByPhone(written, payer) = ResolveQrTransferToken(u)
                        /\ ResolveLoginIdentifier(written) = {v \in {u} : user[v].mail}
                        /\ ~SignUpAvailable(written)
      BY DEF NumberLeadsToItsUser
    <2>1. /\ AccountsType /\ user[u].phone \in Phones /\ user[u].phone # NoPhone
          /\ written[1] = user[u].phone[1] /\ SignUpPhone(written)[1] = user[u].phone[1]
      BY DEF NumberInv, AccountsType, RowState, IssueQrTransferToken, SignUpPhone
    <2>2. user[u].phone[1] \in Numbers /\ Known(user[u].phone[1]) /\ Has(u, user[u].phone[1])
      BY <2>1, PhoneFacts DEF NumberInv, Has
    <2>3. FindByPhone(written) = {u} /\ FindByPhone(SignUpPhone(written)) = {u}
      BY <2>1, <2>2, OwnerIsFound
    <2> QED
      BY <2>3 DEF ResolveRecipientByPhone, ResolveQrTransferToken, ResolveLoginIdentifier,
                  SignUpAvailable
  <1>3. NumberInv => NumbersIdentify
    BY <1>1, <1>2 DEF NumbersIdentify
  <1> QED
    BY <1>3, InitNumber, NumberStep, PTL DEF Spec

-----------------------------------------------------------------------------
(* KYC                                                                     *)

\* A submission between its two saves.
Between(p, u) == proc[p].op = "kyc" /\ proc[p].user = u /\ proc[p].pc = "save"

\* No two rows have one phone string: the unique index.
PhonesDiffer ==
    \A u, v \in Users : u # v /\ user[u].phone # NoPhone => user[u].phone # user[v].phone

\* A copy in review, and a submission between its saves, have a profile.
Copied(p) ==
    proc[p].op # "none" =>
        /\ proc[p].copy.kyc = "pending_review" => profile[proc[p].user] # 0
        /\ proc[p].op = "kyc" /\ proc[p].pc = "save" => profile[proc[p].user] # 0

Agree(u) ==
    profile[u] # 0 => user[u].kyc = "pending_review" \/ \E p \in Procs : Between(p, u)

KycInv ==
    /\ AckInv /\ PhonesDiffer /\ ReviewHasProfile
    /\ \A p \in Procs : Copied(p)
    /\ \A u \in Users \ (raced \cup halfDone) : Agree(u)

\* A step of one handler that leaves the rows alone, and profiles but for a new
\* one of the user it is about.
LEMMA KycFrame ==
    ASSUME KycInv, NEW p \in Procs, Others(p), user' = user,
           \A u \in Users : profile[u] # 0 => profile'[u] # 0,
           \A u \in Users : profile'[u] # profile[u] => Between(p, u)',
           Copied(p)', AccountsType',
           raced \subseteq raced', halfDone \subseteq halfDone',
           \A u \in Users \ (raced' \cup halfDone') : Between(p, u) => Between(p, u)'
    PROVE  /\ PhonesDiffer' /\ ReviewHasProfile' /\ \A q \in Procs : Copied(q)'
           /\ \A u \in Users \ (raced' \cup halfDone') : Agree(u)'
  <1>1. PhonesDiffer' /\ ReviewHasProfile'
    BY DEF KycInv, PhonesDiffer, ReviewHasProfile
  <1>2. ASSUME NEW q \in Procs PROVE Copied(q)'
    <2>1. CASE q = p
      BY <2>1
    <2>2. CASE q # p
      <3>1. proc'[q] = proc[q] /\ Copied(q)
        BY <2>2 DEF Others, KycInv
      <3>2. proc[q].op # "none" => proc[q].user \in Users
        BY DEF KycInv, AckInv, AccountsType, WellFormed
      <3> QED
        BY <3>1, <3>2 DEF Copied
    <2> QED
      BY <2>1, <2>2
  <1>3. ASSUME NEW u \in Users, u \notin raced' \cup halfDone' PROVE Agree(u)'
    <2>1. Agree(u)
      BY <1>3 DEF KycInv
    <2>2. \A q \in Procs : Between(q, u) => Between(q, u)'
      BY <1>3 DEF Others, Between
    <2>3. CASE profile'[u] # profile[u]
      BY <2>3, Zenon DEF Agree
    <2>4. CASE profile'[u] = profile[u]
      BY <2>1, <2>2, <2>4, Zenon DEF Agree
    <2> QED
      BY <2>3, <2>4
  <1> QED
    BY <1>1, <1>2, <1>3

\* The save of the user's row.
LEMMA SaveKyc ==
    ASSUME KycInv, NEW p \in Procs, SaveUser(p)
    PROVE  /\ PhonesDiffer' /\ ReviewHasProfile' /\ \A q \in Procs : Copied(q)'
           /\ \A u \in Users \ (raced' \cup halfDone') : Agree(u)'
  <1>0. /\ AccountsType /\ PhonesDiffer /\ ReviewHasProfile
        /\ \A q \in Procs : Copied(q)
    BY DEF KycInv, AckInv
  <1>1. PICK x, u, row : x = proc[p] /\ u = x.user /\ row = Set(x, x.copy)
    OBVIOUS
  <1>2. /\ u \in Users /\ x.op # "none" /\ x.pc = "save" /\ x \in ProcState /\ WellFormed(x)
        /\ row \in RowState /\ Return(p) /\ profile' = profile /\ raced' = raced
    BY <1>0, <1>1, SaveStep
  <1>3. \/ /\ Taken(u, row.phone) \/ (Exists(u) /\ row.born = 0)
           /\ user' = user /\ halfDone' = halfDone
        \/ /\ ~Taken(u, row.phone)
           /\ user' = [user EXCEPT ![u] = Born(row)]
           /\ halfDone' = IF x.op = "kyc" THEN halfDone \ {u} ELSE halfDone
    BY <1>1, Zenon DEF SaveUser
  <1>4. Others(p) /\ proc'[p] = Idle
    BY <1>0, <1>2, ReturnStep
  <1>5. \A q \in Procs : Copied(q)'
    <2> SUFFICES ASSUME NEW q \in Procs PROVE Copied(q)'
      OBVIOUS
    <2>1. CASE q = p
      BY <1>4, <2>1, IdleType DEF Copied
    <2>2. CASE q # p
      BY <1>0, <1>2, <1>4, <2>2 DEF Others, Copied
    <2> QED
      BY <2>1, <2>2
  <1>6. /\ row.kyc = IF x.op = "kyc" THEN "pending_review" ELSE x.copy.kyc
        /\ row.born = x.copy.born
        /\ x.op = "kyc" => row.phone = x.copy.phone
    <2>1. x.copy \in RowState /\ (x.op = "kyc" => x.phone = NoPhone)
      BY <1>2 DEF ProcState, WellFormed
    <2> QED
      BY <1>1, <1>2, <2>1, SetFacts
  <1>7. u \notin raced => x.copy = user[u] /\ \A q \in Procs : On(q, u) => q = p
    BY <1>1, <1>2 DEF KycInv, AckInv, Undisturbed, On
  <1>8. \A q \in Procs, v \in Users : v # u \/ x.op # "kyc" => (Between(q, v) => Between(q, v)')
    <2> SUFFICES ASSUME NEW q \in Procs, NEW v \in Users, v # u \/ x.op # "kyc", Between(q, v)
                 PROVE  Between(q, v)'
      OBVIOUS
    <2>1. q # p
      BY <1>1 DEF Between
    <2> QED
      BY <1>4, <2>1 DEF Others, Between
  <1>9. CASE /\ Taken(u, row.phone) \/ (Exists(u) /\ row.born = 0)
             /\ user' = user /\ halfDone' = halfDone
    <2>1. PhonesDiffer' /\ ReviewHasProfile'
      BY <1>0, <1>2, <1>9 DEF PhonesDiffer, ReviewHasProfile
    <2>2. ASSUME NEW v \in Users, v \notin raced' \cup halfDone' PROVE Agree(v)'
      <3>1. Agree(v)
        BY <1>2, <1>9, <2>2 DEF KycInv
      <3>2. v # u \/ x.op # "kyc"
        <4> SUFFICES ASSUME v = u, x.op = "kyc" PROVE FALSE
          OBVIOUS
        <4>1. row.phone = user[u].phone /\ row.born = user[u].born
          BY <1>2, <1>6, <1>7, <2>2
        <4>2. ~Taken(u, row.phone)
          BY <1>0, <1>2, <4>1 DEF Taken, PhonesDiffer
        <4>3. ~(Exists(u) /\ row.born = 0)
          BY <4>1 DEF Exists
        <4> QED
          BY <1>9, <4>2, <4>3
      <3>3. \A q \in Procs : Between(q, v) => Between(q, v)'
        BY <1>8, <3>2
      <3> QED
        BY <1>2, <1>9, <3>1, <3>3, Zenon DEF Agree
    <2> QED
      BY <1>5, <2>1, <2>2
  <1>10. CASE /\ ~Taken(u, row.phone)
              /\ user' = [user EXCEPT ![u] = Born(row)]
              /\ halfDone' = IF x.op = "kyc" THEN halfDone \ {u} ELSE halfDone
    <2>1. /\ user'[u].phone = row.phone /\ user'[u].kyc = row.kyc
          /\ \A v \in Users : v # u => user'[v] = user[v]
      BY <1>0, <1>2, <1>10, BornFacts DEF AccountsType
    <2>2. PhonesDiffer'
      <3> SUFFICES ASSUME NEW v \in Users, NEW w \in Users, v # w, user'[v].phone # NoPhone,
                          user'[v].phone = user'[w].phone
                   PROVE  FALSE
        BY DEF PhonesDiffer
      <3>1. CASE v = u
        BY <1>10, <2>1, <3>1 DEF Taken
      <3>2. CASE w = u
        BY <1>10, <2>1, <3>2 DEF Taken
      <3>3. CASE v # u /\ w # u
        BY <1>0, <2>1, <3>3 DEF PhonesDiffer
      <3> QED
        BY <3>1, <3>2, <3>3
    <2>3. ReviewHasProfile'
      <3> SUFFICES ASSUME NEW v \in Users, user'[v].kyc = "pending_review" PROVE profile[v] # 0
        BY <1>2 DEF ReviewHasProfile
      <3>1. CASE v = u
        BY <1>0, <1>1, <1>2, <1>6, <2>1, <3>1 DEF Copied
      <3>2. CASE v # u
        BY <1>0, <2>1, <3>2 DEF ReviewHasProfile
      <3> QED
        BY <3>1, <3>2
    <2>4. ASSUME NEW v \in Users, v \notin raced' \cup halfDone' PROVE Agree(v)'
      <3>1. CASE v = u /\ x.op = "kyc"
        BY <1>6, <2>1, <3>1 DEF Agree
      <3>2. CASE v # u \/ x.op # "kyc"
        <4>1. Agree(v)
          BY <1>2, <1>10, <2>4, <3>2 DEF KycInv
        <4>2. user'[v].kyc = user[v].kyc
          BY <1>2, <1>6, <1>7, <2>1, <2>4, <3>2
        <4>3. \A q \in Procs : Between(q, v) => Between(q, v)'
          BY <1>8, <3>2
        <4> QED
          BY <1>2, <4>1, <4>2, <4>3, Zenon DEF Agree
      <3> QED
        BY <3>1, <3>2
    <2> QED
      BY <1>5, <2>2, <2>3, <2>4
  <1> QED
    BY <1>3, <1>9, <1>10

\* Every step keeps what holds of KYC.
LEMMA KycStep == ASSUME KycInv, [Next]_vars PROVE KycInv'
  <1>0. AccountsType /\ AccountsType' /\ AckInv'
    BY AckStep, TypeStep DEF KycInv, AckInv
  <1> DEFINE Rest == /\ PhonesDiffer /\ ReviewHasProfile /\ \A q \in Procs : Copied(q)
                     /\ \A u \in Users \ (raced \cup halfDone) : Agree(u)
  <1> SUFFICES Rest'
    BY <1>0, Zenon DEF KycInv
  <1>1. ASSUME NEW p \in Procs, NEW u \in Users, NEW op, NEW phone, NEW id,
               Request(op, phone, id), Begin(p, op, u, phone, id)
        PROVE  Rest'
    <2>1. /\ Others(p) /\ proc[p].op = "none" /\ proc'[p].pc = "read" /\ proc'[p].copy = NoRow
      BY <1>0, <1>1, BeginStep
    <2>2. user' = user /\ profile' = profile /\ halfDone' = halfDone /\ raced \subseteq raced'
      BY <1>1 DEF Begin
    <2>3. Copied(p)' /\ \A v : ~Between(p, v)
      BY <2>1, IdleType DEF Copied, Between
    <2> QED
      BY <1>0, <2>1, <2>2, <2>3, KycFrame
  <1>2. ASSUME NEW p \in Procs, ReadUser(p) PROVE Rest'
    <2>1. user' = user /\ profile' = profile /\ halfDone' = halfDone /\ raced' = raced
      BY <1>2 DEF ReadUser
    <2>2. /\ Others(p) /\ proc[p].pc = "read" /\ proc[p].user \in Users
          /\ \/ proc'[p] = Idle
             \/ /\ proc'[p].op = proc[p].op /\ proc'[p].user = proc[p].user
                /\ proc'[p].pc = "save" => proc[p].op \notin {"profile", "kyc"}
                /\ proc'[p].copy = user[proc[p].user]
      BY <1>0, <1>2, ReadStep
    <2>3. Copied(p)'
      <3>1. CASE proc'[p] = Idle
        BY <3>1, IdleType DEF Copied
      <3>2. CASE proc'[p] # Idle
        BY <2>1, <2>2, <3>2 DEF Copied, KycInv, ReviewHasProfile
      <3> QED
        BY <3>1, <3>2
    <2>4. \A v : ~Between(p, v)
      BY <2>2 DEF Between
    <2> QED
      BY <1>0, <2>1, <2>2, <2>3, <2>4, KycFrame
  <1>3. ASSUME NEW p \in Procs, CheckPhone(p) PROVE Rest'
    <2>1. /\ user' = user /\ raced' = raced /\ halfDone' = halfDone
          /\ Others(p) /\ proc[p].op # "none" /\ proc[p].pc # "save"
          /\ \/ proc'[p] = Idle
             \/ /\ proc'[p].op = proc[p].op /\ proc'[p].user = proc[p].user
                /\ proc'[p].copy = proc[p].copy
      BY <1>0, <1>3, MiddleStep
    <2>2. profile' = profile /\ proc[p].op = "profile"
      BY <1>0, <1>3 DEF CheckPhone, AccountsType, WellFormed
    <2>3. Copied(p)'
      <3>1. CASE proc'[p] = Idle
        BY <3>1, IdleType DEF Copied
      <3>2. CASE proc'[p] # Idle
        BY <2>1, <2>2, <3>2 DEF Copied, KycInv
      <3> QED
        BY <3>1, <3>2
    <2>4. \A v : ~Between(p, v)
      BY <2>1 DEF Between
    <2> QED
      BY <1>0, <2>1, <2>2, <2>3, <2>4, KycFrame
  <1>4. ASSUME NEW p \in Procs, SaveProfile(p) PROVE Rest'
    <2>1. /\ user' = user /\ raced' = raced /\ halfDone' = halfDone
          /\ Others(p) /\ proc[p].op # "none" /\ proc[p].pc # "save" /\ proc[p].user \in Users
          /\ \/ proc'[p] = Idle
             \/ /\ proc'[p].op = proc[p].op /\ proc'[p].user = proc[p].user
                /\ proc'[p].pc = "save" /\ proc'[p].copy = proc[p].copy
      BY <1>0, <1>4, MiddleStep
    <2>2. proc[p].op = "kyc" /\ proc[p].id # 0
      BY <1>0, <1>4 DEF SaveProfile, AccountsType, WellFormed
    <2>3. \A v : ~Between(p, v)
      BY <2>1 DEF Between
    <2>4. CASE proc'[p] = Idle
      <3>1. Copied(p)'
        BY <2>4, IdleType DEF Copied
      <3>2. profile' = profile
        <4>1. ~Step(p, "save", proc[p].copy)
          <5> SUFFICES ASSUME Step(p, "save", proc[p].copy) PROVE FALSE
            OBVIOUS
          <5>1. proc'[p].pc = "save"
            BY <1>0 DEF Step, AccountsType, ProcState
          <5> QED
            BY <2>4, <5>1, IdleType
        <4> QED
          BY <1>4, <4>1 DEF SaveProfile
      <3> QED
        BY <1>0, <2>1, <2>3, <3>1, <3>2, KycFrame
    <2>5. CASE proc'[p] # Idle
      <3>1. Between(p, proc[p].user)' /\ proc'[p].user = proc[p].user
        BY <2>1, <2>2, <2>5 DEF Between
      <3>2. profile' = [profile EXCEPT ![proc[p].user] = proc[p].id]
        <4>1. ~Return(p)
          BY <1>0, <2>5, ReturnStep
        <4> QED
          BY <1>4, <4>1 DEF SaveProfile
      <3>3. /\ profile'[proc[p].user] # 0
            /\ \A v \in Users : v # proc[p].user => profile'[v] = profile[v]
        BY <1>0, <2>1, <2>2, <3>2 DEF AccountsType
      <3>4. Copied(p)'
        BY <3>1, <3>3 DEF Copied
      <3>5. \A v \in Users : profile[v] # 0 => profile'[v] # 0
        BY <3>3
      <3>6. \A v \in Users : profile'[v] # profile[v] => Between(p, v)'
        BY <3>1, <3>3
      <3> QED
        BY <1>0, <2>1, <2>3, <3>4, <3>5, <3>6, KycFrame
    <2> QED
      BY <2>4, <2>5
  <1>5. ASSUME NEW p \in Procs, SaveUser(p) PROVE Rest'
    BY <1>5, SaveKyc
  <1>6. ASSUME NEW p \in Procs, Crash(p) PROVE Rest'
    <2>1. /\ user' = user /\ profile' = profile /\ raced' = raced /\ Return(p)
          /\ halfDone \subseteq halfDone'
      BY <1>6 DEF Crash
    <2>2. Others(p) /\ proc'[p] = Idle
      BY <1>0, <2>1, ReturnStep
    <2>3. Copied(p)'
      BY <2>2, IdleType DEF Copied
    <2>4. \A v : Between(p, v) => v \in halfDone'
      BY <1>6 DEF Crash, Between
    <2> QED
      BY <1>0, <2>1, <2>2, <2>3, <2>4, KycFrame
  <1>7. ASSUME NEW u \in Users, Block(u) PROVE Rest'
    <2>1. /\ user' = [user EXCEPT ![u].status = "blocked"]
          /\ proc' = proc /\ profile' = profile /\ halfDone' = halfDone /\ raced \subseteq raced'
      BY <1>7 DEF Block
    <2>2. \A v \in Users : user'[v].phone = user[v].phone /\ user'[v].kyc = user[v].kyc
      BY <1>0, <2>1 DEF AccountsType, RowState
    <2>3. PhonesDiffer' /\ ReviewHasProfile' /\ \A q \in Procs : Copied(q)'
      BY <2>1, <2>2 DEF KycInv, PhonesDiffer, ReviewHasProfile, Copied
    <2>4. ASSUME NEW v \in Users, v \notin raced' \cup halfDone' PROVE Agree(v)'
      <3>1. Agree(v)
        BY <2>1, <2>4 DEF KycInv
      <3> QED
        BY <2>1, <2>2, <3>1 DEF Agree, Between
    <2> QED
      BY <2>3, <2>4
  <1>8. ASSUME UNCHANGED vars PROVE Rest'
    BY <1>8 DEF vars, KycInv, PhonesDiffer, ReviewHasProfile, Copied, Agree, Between
  <1> HIDE DEF Rest
  <1> QED
    BY <1>0, <1>1, <1>2, <1>3, <1>4, <1>5, <1>6, <1>7, <1>8, StepsThereAre

\* No user and no profile at the start.
LEMMA InitKyc == Init => KycInv
  <1> SUFFICES ASSUME Init
               PROVE  /\ PhonesDiffer /\ ReviewHasProfile /\ \A p \in Procs : Copied(p)
                      /\ \A u \in Users : Agree(u)
    BY InitAck DEF KycInv
  <1> HIDE DEF Idle, NoRow
  <1>1. /\ \A u \in Users : user[u] = NoRow /\ profile[u] = 0
        /\ \A p \in Procs : proc[p] = Idle
    BY DEF Init
  <1> QED
    BY <1>1, IdleType DEF PhonesDiffer, ReviewHasProfile, Copied, Agree

\* The two tables tell one story of a user's KYC: no review without a profile,
\* and the KYC page agrees with the profile page except between a submission's
\* two saves, after a crash there and after overlapping operations.
THEOREM KycAlwaysConsistent == Spec => []KycIsConsistent
  <1>1. KycInv => KycIsConsistent
    <2> SUFFICES ASSUME KycInv PROVE ReviewHasProfile /\ KycViewsAgree
      BY DEF KycIsConsistent
    <2>1. ASSUME NEW u \in Users \ (raced \cup halfDone)
          PROVE  \/ GetKycProfile(u) = GetProfile(u).kyc
                 \/ \E p \in Procs : proc[p].op = "kyc" /\ proc[p].user = u /\ proc[p].pc = "save"
      BY DEF KycInv, Agree, Between, GetKycProfile, GetProfile, ToProfile
    <2> QED
      BY <2>1 DEF KycInv, KycViewsAgree
  <1> QED
    BY <1>1, InitKyc, KycStep, PTL DEF Spec

=============================================================================
