------------------------ MODULE AccessRequests_proofs ------------------------
(* What holds of access requests however many are served at the same time. *)
EXTENDS AccessRequests, TLAPS

-----------------------------------------------------------------------------
(* Types.  A request being served writes to rows that are there: so the    *)
(* invariant says what each of its steps has found, and that no row is     *)
(* ever lost again.                                                        *)

Decisions == {"approve", "deny", "withdraw"}

Fits(r) ==
    /\ r.pc \in {"member?", "asked?"} => r.op = "raise"
    /\ r.pc = "active?" => r.op = "approve"
    /\ r.pc = "open?" => r.op = "leave"
    /\ r.op = "raise" => r.user \in Users /\ r.group \in Groups
    /\ r.op = "leave" => r.user \in Users /\ \A i \in r.open : ask[i].state # "none"
    /\ r.op \in Decisions => r.user \in Users /\ r.ask \in Asks /\ ask[r.ask].state # "none"

TypeInv == TypeOK /\ \A s \in Slots : Fits(req[s])

LEMMA TypeInit == Init => TypeInv
<1> SUFFICES ASSUME Init PROVE TypeInv
    OBVIOUS
<1>1. TypeOK
    BY DEF Init, TypeOK, NoAsk, NoReq, Request, Req, Open
<1>2. \A s \in Slots : Fits(req[s])
    BY DEF Init, Fits, NoReq, Request, Decisions
<1> QED
    BY <1>1, <1>2 DEF TypeInv

(* The rows a request may leave behind.                                    *)
RowsStay ==
    /\ ask' \in [Asks -> Ask \cup {NoAsk}]
    /\ \A i \in Asks : ask[i].state # "none" => ask'[i].state # "none"
    /\ \A i \in Asks : ask'[i].state = "pending" => ask'[i].decider = None

(* A step of one request.                                                  *)
LEMMA TypeServe ==
    ASSUME TypeInv, NEW s \in Slots, NEW r \in Req, req' = [req EXCEPT ![s] = r],
           RowsStay, Fits(r)', active' \in [Users -> BOOLEAN],
           member' \in [Users \X Groups -> {"manual", "scim", "rule", "request", None}]
    PROVE  TypeInv'
<1>1. req \in [Slots -> Req] /\ req' \in [Slots -> Req]
    BY DEF TypeInv, TypeOK
<1>2. TypeOK'
    BY <1>1 DEF TypeOK, RowsStay, Open
<1>3. ASSUME NEW u \in Slots PROVE Fits(req[u])'
    <2>1. CASE u = s
        <3>1. req'[u] = r
            BY <1>1, <2>1
        <3> QED
            BY <3>1 DEF Fits
    <2>2. CASE u # s
        <3>1. req'[u] = req[u] /\ req[u] \in Req /\ Fits(req[u])
            BY <1>1, <2>2 DEF TypeInv
        <3>2. req[u].open \subseteq Asks
            BY <3>1 DEF Req
        <3> QED
            BY <3>1, <3>2 DEF Fits, RowsStay
    <2> QED
        BY <2>1, <2>2
<1> QED
    BY <1>2, <1>3 DEF TypeInv

(* The requests that begin, go on and end.                                 *)
LEMMA Requests ==
    ASSUME TypeInv, NEW s \in Slots
    PROVE  /\ req[s] \in Req /\ Fits(req[s])
           /\ NoReq \in Req /\ Fits(NoReq)
           /\ ask' = ask => RowsStay
<1>1. req[s] \in Req /\ Fits(req[s])
    BY DEF TypeInv, TypeOK
<1>2. NoReq \in Req /\ Fits(NoReq)
    BY DEF NoReq, Request, Req, Fits, Decisions
<1>3. ask' = ask => RowsStay
    BY DEF TypeInv, TypeOK, RowsStay, Open
<1> QED
    BY <1>1, <1>2, <1>3

LEMMA TypeBegin ==
    ASSUME TypeInv, NEW s \in Slots, NEW r \in Req, Fits(r), Begin(s, r),
           UNCHANGED <<active, member, ask, may>>
    PROVE  TypeInv'
<1>1. req' = [req EXCEPT ![s] = r] /\ RowsStay /\ Fits(r)'
    BY Requests DEF Begin, Fits
<1> QED
    BY <1>1, TypeServe DEF TypeInv, TypeOK

LEMMA TypeEnd ==
    ASSUME TypeInv, NEW s \in Slots, End(s), RowsStay, active' \in [Users -> BOOLEAN],
           member' \in [Users \X Groups -> {"manual", "scim", "rule", "request", None}]
    PROVE  TypeInv'
<1>1. req' = [req EXCEPT ![s] = NoReq] /\ NoReq \in Req
    BY Requests DEF End
<1>2. Fits(NoReq)'
    BY DEF NoReq, Request, Fits, Decisions
<1> QED
    BY <1>1, <1>2, TypeServe

LEMMA TypeGoOn ==
    ASSUME TypeInv, NEW s \in Slots, NEW pc \in {"asked?", "write"}, GoOn(s, pc),
           req[s].op = "raise" \/ pc = "write",
           UNCHANGED <<active, member, ask, may>>
    PROVE  TypeInv'
<1>0. PICK r : r = [req[s] EXCEPT !.pc = pc]
    OBVIOUS
<1>1. req[s] \in Req /\ Fits(req[s]) /\ RowsStay
    BY Requests
<1>2. req' = [req EXCEPT ![s] = r]
    BY <1>0 DEF GoOn
<1>3. /\ r \in Req /\ r.pc = pc /\ r.op = req[s].op /\ r.user = req[s].user
      /\ r.ask = req[s].ask /\ r.group = req[s].group /\ r.open = req[s].open
    BY <1>0, <1>1 DEF Req
<1>4. Fits(r)'
    BY <1>1, <1>3 DEF Fits
<1>5. /\ active' \in [Users -> BOOLEAN]
      /\ member' \in [Users \X Groups -> {"manual", "scim", "rule", "request", None}]
    BY DEF TypeInv, TypeOK
<1> QED
    BY <1>1, <1>2, <1>3, <1>4, <1>5, TypeServe

(* What the answers make of a row.                                         *)
LEMMA Answered ==
    ASSUME TypeInv, NEW s \in Slots, NEW state \in {"approved", "denied", "withdrawn"},
           req[s].op \in Decisions, Answer(s, state)
    PROVE  /\ RowsStay
           /\ req[s].ask \in Asks /\ ask[req[s].ask] \in Ask
           /\ ask' = [ask EXCEPT ![req[s].ask] =
                [state |-> state, by |-> ask[req[s].ask].by, group |-> ask[req[s].ask].group,
                 decider |-> req[s].user]]
<1> DEFINE i == req[s].ask
<1>1. i \in Asks /\ req[s].user \in Users /\ ask[i].state # "none"
    BY Requests DEF Fits
<1>2. ask \in [Asks -> Ask \cup {NoAsk}]
    BY DEF TypeInv, TypeOK
<1>3. ask[i] \in Ask
    BY <1>1, <1>2 DEF NoAsk
<1> DEFINE row == [state |-> state, by |-> ask[i].by, group |-> ask[i].group, decider |-> req[s].user]
<1>4. ask' = [ask EXCEPT ![i] = row]
    BY DEF Answer
<1>5. row \in Ask /\ row.state = state
    BY <1>1, <1>3 DEF Ask, Decided
<1> HIDE DEF row
<1>6. \A j \in Asks : ask'[j] = IF j = i THEN row ELSE ask[j]
    BY <1>2, <1>4
<1>7. \A j \in Asks : ask[j].state = "pending" => ask[j].decider = None
    BY DEF TypeInv, TypeOK, Open
<1>8. ask' \in [Asks -> Ask \cup {NoAsk}]
    BY <1>1, <1>2, <1>4, <1>5
<1>9. RowsStay
    BY <1>5, <1>6, <1>7, <1>8 DEF RowsStay
<1> QED
    BY <1>1, <1>3, <1>4, <1>9 DEF row

(* What raising and leaving make of the rows.                              *)
LEMMA Raised ==
    ASSUME TypeInv, NEW s \in Slots, Raise(s)
    PROVE  RowsStay
<1>1. ask \in [Asks -> Ask \cup {NoAsk}] /\ req[s].user \in Users /\ req[s].group \in Groups
    BY Requests DEF TypeInv, TypeOK, Raise, Fits
<1>2. CASE ask' = ask
    BY <1>2, Requests
<1>3. ASSUME NEW i \in Asks, ask[i].state = "none",
             ask' = [ask EXCEPT ![i] = [state |-> "pending", by |-> req[s].user,
                                        group |-> req[s].group, decider |-> None]]
      PROVE  RowsStay
    <2> DEFINE row == [state |-> "pending", by |-> req[s].user, group |-> req[s].group, decider |-> None]
    <2>1. row \in Ask /\ row.state = "pending" /\ row.decider = None
        BY <1>1 DEF Ask
    <2>2. ask' = [ask EXCEPT ![i] = row]
        BY <1>3
    <2> HIDE DEF row
    <2>3. \A j \in Asks : ask'[j] = IF j = i THEN row ELSE ask[j]
        BY <1>1, <2>2
    <2>4. \A j \in Asks : ask[j].state = "pending" => ask[j].decider = None
        BY DEF TypeInv, TypeOK, Open
    <2>5. ask' \in [Asks -> Ask \cup {NoAsk}]
        BY <1>1, <2>1, <2>2
    <2> QED
        BY <2>1, <2>3, <2>4, <2>5 DEF RowsStay
<1> QED
    BY <1>2, <1>3 DEF Raise

LEMMA Left ==
    ASSUME TypeInv, NEW s \in Slots, Leave(s)
    PROVE  /\ RowsStay
           /\ \A i \in Asks : ask'[i] = ask[i] \/ ask'[i].state = "cancelled"
<1>1. ask \in [Asks -> Ask \cup {NoAsk}] /\ \A i \in req[s].open : ask[i].state # "none"
    BY Requests DEF TypeInv, TypeOK, Leave, Fits
<1>2. \A i \in Asks : ask'[i] = IF i \in req[s].open THEN [ask[i] EXCEPT !.state = "cancelled"]
                                ELSE ask[i]
    BY DEF Leave
<1>3. ASSUME NEW i \in Asks, i \in req[s].open
      PROVE  ask'[i] \in Ask /\ ask'[i].state = "cancelled"
    <2>1. ask[i] \in Ask
        BY <1>1, <1>3 DEF NoAsk
    <2> QED
        BY <1>2, <1>3, <2>1 DEF Ask, Decided
<1>4. \A i \in Asks : ask[i].state = "pending" => ask[i].decider = None
    BY DEF TypeInv, TypeOK, Open
<1>5. ask' \in [Asks -> Ask \cup {NoAsk}]
    <2>1. \A i \in Asks : ask'[i] \in Ask \cup {NoAsk}
        BY <1>1, <1>2, <1>3
    <2>2. ask' = [i \in Asks |-> ask'[i]]
        BY DEF Leave
    <2> QED
        BY <2>1, <2>2
<1> QED
    BY <1>1, <1>2, <1>3, <1>4, <1>5 DEF RowsStay

LEMMA TypeNext == TypeInv /\ [Next]_vars => TypeInv'
<1> SUFFICES ASSUME TypeInv, [Next]_vars PROVE TypeInv'
    OBVIOUS
<1>t. /\ active \in [Users -> BOOLEAN]
      /\ member \in [Users \X Groups -> {"manual", "scim", "rule", "request", None}]
    BY DEF TypeInv, TypeOK
<1>1. CASE UNCHANGED vars
    BY <1>1 DEF vars, TypeInv, TypeOK, Fits, Open
<1>2. ASSUME NEW s \in Slots, NEW u \in Users, NEW g \in Groups, BeginRaise(s, u, g)
      PROVE  TypeInv'
    <2>1. Request("raise", "member?", u, None, g) \in Req
        BY DEF Request, Req
    <2>2. Fits(Request("raise", "member?", u, None, g))
        BY DEF Request, Fits, Decisions
    <2> QED
        BY <1>2, <2>1, <2>2, TypeBegin DEF BeginRaise
<1>3. ASSUME NEW s \in Slots, NEW u \in Users, BeginLeave(s, u) PROVE TypeInv'
    <2>1. Request("leave", "open?", u, None, None) \in Req
        BY DEF Request, Req
    <2>2. Fits(Request("leave", "open?", u, None, None))
        BY DEF Request, Fits, Decisions
    <2> QED
        BY <1>3, <2>1, <2>2, TypeBegin DEF BeginLeave
<1>4. ASSUME NEW s \in Slots, NEW op \in Decisions, NEW a \in Users, NEW i \in Asks,
             BeginDecision(s, op, a, i)
      PROVE  TypeInv'
    <2> DEFINE pc == IF op = "approve" THEN "active?" ELSE "write"
    <2>1. ask[i].state # "none"
        BY <1>4 DEF BeginDecision, Open
    <2>2. pc \in {"active?", "write"} /\ (pc = "active?" => op = "approve")
        OBVIOUS
    <2>3. Begin(s, Request(op, pc, a, i, None)) /\ UNCHANGED <<active, member, ask, may>>
        BY <1>4 DEF BeginDecision
    <2> HIDE DEF pc
    <2>4. Request(op, pc, a, i, None) \in Req
        BY <2>2 DEF Request, Req, Decisions
    <2>5. Fits(Request(op, pc, a, i, None))
        BY <2>1, <2>2 DEF Request, Fits, Decisions
    <2> QED
        BY <2>3, <2>4, <2>5, TypeBegin
<1>5. ASSUME NEW s \in Slots, SeeMembership(s) \/ SeeOpenAsk(s) \/ SeeRequester(s)
      PROVE  TypeInv'
    <2>1. UNCHANGED <<active, member, ask, may>>
        BY <1>5 DEF SeeMembership, SeeOpenAsk, SeeRequester
    <2>2. End(s) \/ (GoOn(s, "asked?") /\ req[s].pc = "member?") \/ GoOn(s, "write")
        BY <1>5 DEF SeeMembership, SeeOpenAsk, SeeRequester
    <2>3. req[s].pc = "member?" => req[s].op = "raise"
        BY Requests DEF Fits
    <2> QED
        BY <1>t, <2>1, <2>2, <2>3, Requests, TypeEnd, TypeGoOn
<1>6. ASSUME NEW s \in Slots, SeeOpenAsks(s) PROVE TypeInv'
    <2> DEFINE open == {i \in Asks : Open(i) /\ ask[i].by = req[s].user}
    <2>0. PICK r : r = [op |-> "leave", pc |-> "write", user |-> req[s].user, ask |-> None,
                        group |-> None, open |-> open]
        OBVIOUS
    <2>1. req' = [req EXCEPT ![s] = r] /\ UNCHANGED <<active, member, ask, may>>
        <3>1. [Request("leave", "write", req[s].user, None, None) EXCEPT !.open = open] = r
            <4> HIDE DEF open
            <4> QED
                BY <2>0 DEF Request
        <3> QED
            BY <1>6, <3>1 DEF SeeOpenAsks
    <2>2. req[s].user \in Users /\ \A i \in open : ask[i].state # "none"
        BY <1>6, Requests DEF SeeOpenAsks, Fits, Open
    <2>3. r \in Req
        BY <2>0, <2>2 DEF Req
    <2>4. Fits(r)'
        BY <2>0, <2>1, <2>2 DEF Fits, Decisions
    <2> QED
        BY <1>t, <2>1, <2>3, <2>4, Requests, TypeServe
<1>7. ASSUME NEW s \in Slots, Raise(s) PROVE TypeInv'
    BY <1>t, <1>7, Raised, TypeEnd DEF Raise
<1>8. ASSUME NEW s \in Slots, Approve(s) PROVE TypeInv'
    <2>1. End(s) /\ UNCHANGED active /\ req[s].op = "approve" /\ req[s].op \in Decisions
        BY <1>8 DEF Approve, Decisions
    <2>2. CASE UNCHANGED <<ask, member>>
        BY <1>t, <2>1, <2>2, Requests, TypeEnd
    <2>3. CASE ~(UNCHANGED <<ask, member>>)
        <3>1. /\ Answer(s, "approved")
              /\ member' = [member EXCEPT ![<<ask[req[s].ask].by, ask[req[s].ask].group>>] = "request"]
            BY <1>8, <2>3 DEF Approve
        <3>2. RowsStay
            BY <2>1, <3>1, Answered
        <3>3. member' \in [Users \X Groups -> {"manual", "scim", "rule", "request", None}]
            BY <1>t, <3>1
        <3> QED
            BY <1>t, <2>1, <3>2, <3>3, TypeEnd
    <2> QED
        BY <2>2, <2>3
<1>9. ASSUME NEW s \in Slots, Close(s) PROVE TypeInv'
    <2>1. End(s) /\ UNCHANGED <<active, member>> /\ req[s].op \in Decisions
        BY <1>9 DEF Close, Deny, Withdraw, Closed, Decisions
    <2>2. RowsStay
        BY <1>9, <2>1, Answered DEF Close, Deny, Withdraw, Closed
    <2> QED
        BY <1>t, <2>1, <2>2, TypeEnd
<1>10. ASSUME NEW s \in Slots, Leave(s) PROVE TypeInv'
    <2>1. active' \in [Users -> BOOLEAN] /\ End(s) /\ UNCHANGED member
        BY <1>t, <1>10 DEF Leave
    <2> QED
        BY <1>t, <1>10, <2>1, Left, TypeEnd
<1>11. ASSUME NEW s \in Slots, Drop(s) PROVE TypeInv'
    BY <1>t, <1>11, Requests, TypeEnd DEF Drop
<1>12. CASE Elsewhere
    <2>1. UNCHANGED <<ask, req, may>>
        BY <1>12 DEF Elsewhere, SwitchOff, SwitchOn, Add, Remove
    <2>2. active' \in [Users -> BOOLEAN]
        BY <1>t, <1>12 DEF Elsewhere, SwitchOff, SwitchOn, Add, Remove
    <2>3. member' \in [Users \X Groups -> {"manual", "scim", "rule", "request", None}]
        BY <1>t, <1>12 DEF Elsewhere, SwitchOff, SwitchOn, Add, Remove
    <2> QED
        BY <2>1, <2>2, <2>3 DEF TypeInv, TypeOK, Fits, Open
<1> QED
    BY <1>1, <1>2, <1>3, <1>4, <1>5, <1>6, <1>7, <1>8, <1>9, <1>10, <1>11, <1>12
    DEF Next, Receive, Serve, Decisions

(* The tables and the requests being served keep their shape (TypeOK).     *)
THEOREM TypeCorrect == Spec => []TypeOK
<1>1. TypeInv => TypeOK
    BY DEF TypeInv
<1> QED
    BY <1>1, TypeInit, TypeNext, PTL DEF Spec

-----------------------------------------------------------------------------
(* What becomes of the rows.                                               *)

LEMMA Changes ==
    ASSUME [Next]_vars
    PROVE  \/ UNCHANGED ask
           \/ \E s \in Slots : Raise(s)
           \/ \E s \in Slots : Approve(s) /\ ~(UNCHANGED ask)
           \/ \E s \in Slots : Close(s)
           \/ \E s \in Slots : Leave(s)
BY DEF vars, Next, Receive, Serve, Elsewhere, BeginRaise, BeginDecision, BeginLeave,
       SeeMembership, SeeOpenAsk, SeeRequester, SeeOpenAsks, Drop, SwitchOff, SwitchOn, Add, Remove

(* A row that is open was open before, or has just been inserted.          *)
LEMMA OpenBefore ==
    ASSUME TypeInv, [Next]_vars
    PROVE  \/ \A i \in Asks : Open(i)' => Open(i) /\ ask'[i] = ask[i]
           \/ \E s \in Slots : Raise(s)
<1>1. CASE UNCHANGED ask
    BY <1>1 DEF Open
<1>2. ASSUME NEW s \in Slots, NEW state \in {"approved", "denied", "withdrawn"},
             req[s].op \in Decisions, Answer(s, state)
      PROVE  \A i \in Asks : Open(i)' => Open(i) /\ ask'[i] = ask[i]
    <2> DEFINE row == [state |-> state, by |-> ask[req[s].ask].by,
                       group |-> ask[req[s].ask].group, decider |-> req[s].user]
    <2>1. ask' = [ask EXCEPT ![req[s].ask] = row]
        BY <1>2, Answered
    <2>2. row.state # "pending"
        OBVIOUS
    <2>3. ask \in [Asks -> Ask \cup {NoAsk}]
        BY DEF TypeInv, TypeOK
    <2> HIDE DEF row
    <2>4. \A i \in Asks : ask'[i] = ask[i] \/ ask'[i] = row
        BY <2>1, <2>3
    <2> QED
        BY <2>2, <2>4 DEF Open
<1>3. ASSUME NEW s \in Slots, Approve(s), ~(UNCHANGED ask)
      PROVE  \A i \in Asks : Open(i)' => Open(i) /\ ask'[i] = ask[i]
    BY <1>2, <1>3 DEF Approve, Decisions
<1>4. ASSUME NEW s \in Slots, Close(s)
      PROVE  \A i \in Asks : Open(i)' => Open(i) /\ ask'[i] = ask[i]
    BY <1>2, <1>4 DEF Close, Deny, Withdraw, Closed, Decisions
<1>5. ASSUME NEW s \in Slots, Leave(s)
      PROVE  \A i \in Asks : Open(i)' => Open(i) /\ ask'[i] = ask[i]
    BY <1>5, Left DEF Open
<1> QED
    BY <1>1, <1>3, <1>4, <1>5, Changes

(* However many requests are served at once, nobody has two open requests  *)
(* for one group (one_open_request_per_person_and_group).                  *)
THEOREM OneOpenAskAlways == Spec => []OneOpenAsk
<1>1. Init => OneOpenAsk
    BY DEF Init, OneOpenAsk, Open, NoAsk
<1>2. TypeInv /\ OneOpenAsk /\ [Next]_vars => OneOpenAsk'
    <2> SUFFICES ASSUME TypeInv, OneOpenAsk, [Next]_vars PROVE OneOpenAsk'
        OBVIOUS
    <2>1. CASE \A i \in Asks : Open(i)' => Open(i) /\ ask'[i] = ask[i]
        BY <2>1 DEF OneOpenAsk
    <2>2. ASSUME NEW s \in Slots, Raise(s) PROVE OneOpenAsk'
        <3>1. CASE UNCHANGED ask
            BY <3>1 DEF OneOpenAsk, Open
        <3>2. CASE ~(UNCHANGED ask)
            <4> DEFINE row == [state |-> "pending", by |-> req[s].user,
                               group |-> req[s].group, decider |-> None]
            <4>1. PICK k \in Asks : ask' = [ask EXCEPT ![k] = row]
                BY <2>2, <3>2 DEF Raise
            <4>2. OpenFor(req[s].user, req[s].group) = {}
                BY <2>2, <3>2 DEF Raise
            <4>3. row.by = req[s].user /\ row.group = req[s].group
                OBVIOUS
            <4>4. ask \in [Asks -> Ask \cup {NoAsk}]
                BY DEF TypeInv, TypeOK
            <4> HIDE DEF row
            <4>5. \A i \in Asks : ask'[i] = IF i = k THEN row ELSE ask[i]
                BY <4>1, <4>4
            <4>6. \A i \in Asks : i # k /\ Open(i)' =>
                      Open(i) /\ ~(ask[i].by = row.by /\ ask[i].group = row.group)
                BY <4>2, <4>3, <4>5 DEF Open, OpenFor
            <4> QED
                BY <4>5, <4>6 DEF OneOpenAsk, Open
        <3> QED
            BY <3>1, <3>2
    <2> QED
        BY <2>1, <2>2, OpenBefore
<1> QED
    BY <1>1, <1>2, TypeInit, TypeNext, PTL DEF Spec

-----------------------------------------------------------------------------
(* A membership once given stays while nobody takes any away.              *)
LEMMA MembersStay ==
    ASSUME TypeInv, [Next]_vars, "removal" \notin may
    PROVE  \A p \in Users \X Groups : member[p] # None => member'[p] # None
<1>0. member \in [Users \X Groups -> {"manual", "scim", "rule", "request", None}]
    BY DEF TypeInv, TypeOK
<1>n. None \notin {"manual", "scim", "rule", "request"}
    BY NoneAssumption
<1>1. CASE UNCHANGED member
    BY <1>1
<1>2. ASSUME NEW s \in Slots, Approve(s)
      PROVE  \A p \in Users \X Groups : member[p] # None => member'[p] # None
    BY <1>0, <1>n, <1>2 DEF Approve
<1>3. ASSUME NEW u \in Users, NEW g \in Groups, NEW source \in {"manual", "scim", "rule"},
             Add(u, g, source)
      PROVE  \A p \in Users \X Groups : member[p] # None => member'[p] # None
    BY <1>0, <1>n, <1>3 DEF Add
<1> QED
    BY <1>1, <1>2, <1>3
    DEF vars, Next, Receive, Serve, Elsewhere, BeginRaise, BeginDecision, BeginLeave, Raise,
        SeeMembership, SeeOpenAsk, SeeRequester, SeeOpenAsks, Close, Deny, Withdraw, Closed, Leave, Drop, SwitchOff,
        SwitchOn, Remove

LEMMA ApprovalsKeep ==
    ASSUME TypeInv, ApprovedHasAccess, [Next]_vars
    PROVE  ApprovedHasAccess'
<1> SUFFICES ASSUME "removal" \notin may', NEW i \in Asks, ask'[i].state = "approved"
             PROVE  member'[<<ask'[i].by, ask'[i].group>>] # None
    BY DEF ApprovedHasAccess
<1>1. "removal" \notin may
    BY DEF vars, Next, Receive, Serve, Elsewhere, BeginRaise, BeginDecision, BeginLeave, Raise,
           SeeMembership, SeeOpenAsk, SeeRequester, SeeOpenAsks, Approve, Close, Deny, Withdraw, Closed, Leave, Drop,
           SwitchOff, SwitchOn, Add, Remove
<1>2. ask \in [Asks -> Ask \cup {NoAsk}]
    BY DEF TypeInv, TypeOK
<1>3. CASE ask'[i] = ask[i]
    <2>1. ask[i] \in Ask
        BY <1>2, <1>3 DEF NoAsk
    <2>2. <<ask[i].by, ask[i].group>> \in Users \X Groups
        BY <2>1 DEF Ask
    <2>3. member[<<ask[i].by, ask[i].group>>] # None
        BY <1>1, <1>3 DEF ApprovedHasAccess
    <2> QED
        BY <1>1, <1>3, <2>2, <2>3, MembersStay
<1>4. ASSUME NEW s \in Slots, Approve(s), ask'[i] # ask[i]
      PROVE  member'[<<ask'[i].by, ask'[i].group>>] # None
    <2> DEFINE a == ask[req[s].ask]
    <2>1. /\ Answer(s, "approved") /\ req[s].op \in Decisions
          /\ member' = [member EXCEPT ![<<a.by, a.group>>] = "request"]
        BY <1>4 DEF Approve, Decisions
    <2>2. /\ req[s].ask \in Asks /\ a \in Ask
          /\ ask' = [ask EXCEPT ![req[s].ask] =
                [state |-> "approved", by |-> a.by, group |-> a.group, decider |-> req[s].user]]
        BY <2>1, Answered
    <2>3. i = req[s].ask /\ ask'[i].by = a.by /\ ask'[i].group = a.group
        BY <1>2, <1>4, <2>2
    <2>4. <<a.by, a.group>> \in Users \X Groups
        BY <2>2 DEF Ask
    <2>5. member'[<<a.by, a.group>>] = "request"
        BY <2>1, <2>4 DEF TypeInv, TypeOK
    <2> QED
        BY <2>3, <2>5, NoneAssumption
<1>5. ASSUME NEW s \in Slots, Raise(s) PROVE ask'[i] = ask[i]
    <2>1. CASE UNCHANGED ask
        BY <2>1
    <2>2. ASSUME NEW k \in Asks,
                 ask' = [ask EXCEPT ![k] = [state |-> "pending", by |-> req[s].user,
                                            group |-> req[s].group, decider |-> None]]
          PROVE  ask'[i] = ask[i]
        BY <1>2, <2>2
    <2> QED
        BY <1>5, <2>1, <2>2 DEF Raise
<1>6. ASSUME NEW s \in Slots, Close(s) PROVE ask'[i] = ask[i]
    <2>1. PICK state \in {"denied", "withdrawn"} : Answer(s, state) /\ req[s].op \in Decisions
        BY <1>6 DEF Close, Deny, Withdraw, Closed, Decisions
    <2>2. ask' = [ask EXCEPT ![req[s].ask] =
                [state |-> state, by |-> ask[req[s].ask].by, group |-> ask[req[s].ask].group,
                 decider |-> req[s].user]]
        BY <2>1, Answered
    <2> QED
        BY <1>2, <2>1, <2>2
<1>7. ASSUME NEW s \in Slots, Leave(s) PROVE ask'[i] = ask[i]
    BY <1>7, Left
<1> QED
    BY <1>3, <1>4, <1>5, <1>6, <1>7, Changes

(* While nobody is taken out of groups, a request that says approved has   *)
(* its membership, whatever races with the approval (approve).             *)
THEOREM ApprovedHasAccessAlways == Spec => []ApprovedHasAccess
<1>1. Init => ApprovedHasAccess
    BY DEF Init, ApprovedHasAccess, NoAsk
<1>2. TypeInv /\ ApprovedHasAccess /\ [Next]_vars => ApprovedHasAccess'
    BY ApprovalsKeep
<1> QED
    BY <1>1, <1>2, TypeInit, TypeNext, PTL DEF Spec

-----------------------------------------------------------------------------
(* Requests one at a time: nothing is done behind the back of the one that *)
(* is being served, so what it has read is still so when it writes.        *)

Prepared(r) ==
    /\ r.pc = "idle" => r.op = "none"
    /\ r.op = "raise" => active[r.user]
    /\ r.op \in Decisions => Open(r.ask)
    /\ r.op = "approve" /\ r.pc = "write" => active[ask[r.ask].by]
    /\ r.op = "leave" /\ r.pc = "write" => r.open = {i \in Asks : Open(i) /\ ask[i].by = r.user}

SerialInv ==
    Serially =>
        /\ \A s \in Slots : Prepared(req[s])
        /\ \A s, t \in Slots : req[s].pc # "idle" /\ req[t].pc # "idle" => s = t

LEMMA MayStays == [Next]_vars => may' = may
BY DEF vars, Next, Receive, Serve, Elsewhere, BeginRaise, BeginDecision, BeginLeave, Raise,
       SeeMembership, SeeOpenAsk, SeeRequester, SeeOpenAsks, Approve, Close, Deny, Withdraw, Closed,
       Leave, Drop, SwitchOff, SwitchOn, Add, Remove

(* The step of the one request there is.                                   *)
LEMMA SerialServe ==
    ASSUME TypeInv, SerialInv, Serially, NEW s \in Slots, NEW r, req' = [req EXCEPT ![s] = r],
           req[s].pc # "idle" \/ Alone, Prepared(r)'
    PROVE  /\ \A t \in Slots : Prepared(req[t])'
           /\ \A t, u \in Slots : req'[t].pc # "idle" /\ req'[u].pc # "idle" => t = u
<1>1. req \in [Slots -> Req]
    BY DEF TypeInv, TypeOK
<1>2. \A t \in Slots : t # s => req[t].pc = "idle" /\ req[t].op = "none" /\ req'[t] = req[t]
    BY <1>1 DEF SerialInv, Prepared, Alone, Serially
<1>3. req'[s] = r
    BY <1>1
<1>4. \A t \in Slots : Prepared(req[t])'
    <2>1. Prepared(req[s])'
        BY <1>3 DEF Prepared
    <2>2. ASSUME NEW t \in Slots, t # s PROVE Prepared(req[t])'
        <3>1. req'[t].pc = "idle" /\ req'[t].op = "none"
            BY <1>2, <2>2
        <3> QED
            BY <3>1 DEF Prepared, Decisions
    <2> QED
        BY <2>1, <2>2
<1> QED
    BY <1>2, <1>4

LEMMA SerialBegin ==
    ASSUME TypeInv, SerialInv, Serially, NEW s \in Slots, NEW r, Begin(s, r), Prepared(r)'
    PROVE  /\ \A t \in Slots : Prepared(req[t])'
           /\ \A t, u \in Slots : req'[t].pc # "idle" /\ req'[u].pc # "idle" => t = u
BY SerialServe DEF Begin

LEMMA SerialEnd ==
    ASSUME TypeInv, SerialInv, Serially, NEW s \in Slots, req[s].pc # "idle", End(s)
    PROVE  /\ \A t \in Slots : Prepared(req[t])'
           /\ \A t, u \in Slots : req'[t].pc # "idle" /\ req'[u].pc # "idle" => t = u
<1>1. Prepared(NoReq)'
    BY DEF Prepared, NoReq, Request, Decisions
<1> QED
    BY <1>1, SerialServe DEF End

LEMMA SerialGoOn ==
    ASSUME TypeInv, SerialInv, Serially, NEW s \in Slots, req[s].pc # "idle",
           NEW pc \in {"asked?", "write"}, GoOn(s, pc), UNCHANGED <<active, member, ask, may>>,
           req[s].op # "leave",
           req[s].op = "approve" => active[ask[req[s].ask].by]
    PROVE  /\ \A t \in Slots : Prepared(req[t])'
           /\ \A t, u \in Slots : req'[t].pc # "idle" /\ req'[u].pc # "idle" => t = u
<1>0. PICK r : r = [req[s] EXCEPT !.pc = pc]
    OBVIOUS
<1>1. req[s] \in Req /\ Prepared(req[s])
    BY Requests DEF SerialInv
<1>2. req' = [req EXCEPT ![s] = r]
    BY <1>0 DEF GoOn
<1>3. /\ r.pc = pc /\ r.op = req[s].op /\ r.user = req[s].user /\ r.ask = req[s].ask
    BY <1>0, <1>1 DEF Req
<1>4. Prepared(r)'
    BY <1>1, <1>3 DEF Prepared, Open
<1> QED
    BY <1>2, <1>4, SerialServe

LEMMA SerialStep == TypeInv /\ SerialInv /\ [Next]_vars => SerialInv'
<1> SUFFICES ASSUME TypeInv, SerialInv, [Next]_vars, Serially
             PROVE  /\ \A t \in Slots : Prepared(req[t])'
                    /\ \A t, u \in Slots : req'[t].pc # "idle" /\ req'[u].pc # "idle" => t = u
    BY MayStays DEF SerialInv, Serially
<1>1. CASE UNCHANGED vars
    BY <1>1 DEF vars, SerialInv, Prepared, Open
<1>2. ASSUME NEW s \in Slots, NEW u \in Users, NEW g \in Groups, BeginRaise(s, u, g)
      PROVE  Prepared(Request("raise", "member?", u, None, g))'
    BY <1>2 DEF BeginRaise, Prepared, Request, Decisions
<1>3. ASSUME NEW s \in Slots, NEW u \in Users, BeginLeave(s, u)
      PROVE  Prepared(Request("leave", "open?", u, None, None))'
    BY <1>3 DEF Prepared, Request, Decisions
<1>4. ASSUME NEW s \in Slots, NEW op \in Decisions, NEW a \in Users, NEW i \in Asks,
             BeginDecision(s, op, a, i)
      PROVE  Prepared(Request(op, IF op = "approve" THEN "active?" ELSE "write", a, i, None))'
    BY <1>4 DEF BeginDecision, Prepared, Request, Decisions, Open
<1>5. ASSUME NEW s \in Slots, Receive(s)
      PROVE  /\ \A t \in Slots : Prepared(req[t])'
             /\ \A t, u \in Slots : req'[t].pc # "idle" /\ req'[u].pc # "idle" => t = u
    <2>1. ASSUME NEW u \in Users, NEW g \in Groups, BeginRaise(s, u, g)
          PROVE  /\ \A t \in Slots : Prepared(req[t])'
                 /\ \A t, v \in Slots : req'[t].pc # "idle" /\ req'[v].pc # "idle" => t = v
        BY <1>2, <2>1, SerialBegin DEF BeginRaise
    <2>2. ASSUME NEW u \in Users, BeginLeave(s, u)
          PROVE  /\ \A t \in Slots : Prepared(req[t])'
                 /\ \A t, v \in Slots : req'[t].pc # "idle" /\ req'[v].pc # "idle" => t = v
        BY <1>3, <2>2, SerialBegin DEF BeginLeave
    <2>3. ASSUME NEW op \in Decisions, NEW a \in Users, NEW i \in Asks, BeginDecision(s, op, a, i)
          PROVE  /\ \A t \in Slots : Prepared(req[t])'
                 /\ \A t, v \in Slots : req'[t].pc # "idle" /\ req'[v].pc # "idle" => t = v
        <3> DEFINE r == Request(op, IF op = "approve" THEN "active?" ELSE "write", a, i, None)
        <3>1. Prepared(r)' /\ Begin(s, r)
            BY <1>4, <2>3 DEF BeginDecision
        <3> QED
            BY <3>1, SerialBegin
    <2> QED
        BY <1>5, <2>1, <2>2, <2>3 DEF Receive, Decisions
<1>6. ASSUME NEW s \in Slots, Serve(s)
      PROVE  /\ \A t \in Slots : Prepared(req[t])'
             /\ \A t, u \in Slots : req'[t].pc # "idle" /\ req'[u].pc # "idle" => t = u
    <2>0. req[s] \in Req /\ Fits(req[s]) /\ req[s].pc # "idle"
        BY <1>6, Requests
        DEF Serve, SeeMembership, SeeOpenAsk, Raise, SeeRequester, Approve, Close, Deny, Withdraw,
            Closed, SeeOpenAsks, Leave, Drop
    <2>1. CASE End(s)
        BY <2>0, <2>1, SerialEnd
    <2>2. CASE SeeOpenAsks(s)
        <3> DEFINE open == {i \in Asks : Open(i) /\ ask[i].by = req[s].user}
        <3>0. PICK r : r = [op |-> "leave", pc |-> "write", user |-> req[s].user, ask |-> None,
                            group |-> None, open |-> open]
            OBVIOUS
        <3>1. [Request("leave", "write", req[s].user, None, None) EXCEPT !.open = open] = r
            <4> HIDE DEF open
            <4> QED
                BY <3>0 DEF Request
        <3>2. req' = [req EXCEPT ![s] = r] /\ UNCHANGED <<active, member, ask, may>>
            BY <2>2, <3>1 DEF SeeOpenAsks
        <3>3. Prepared(r)'
            BY <3>0, <3>2 DEF Prepared, Decisions, Open
        <3> QED
            BY <2>0, <3>2, <3>3, SerialServe
    <2>3. CASE SeeMembership(s) \/ SeeOpenAsk(s) \/ SeeRequester(s)
        <3>1. UNCHANGED <<active, member, ask, may>>
            BY <2>3 DEF SeeMembership, SeeOpenAsk, SeeRequester
        <3>2. CASE GoOn(s, "asked?") \/ GoOn(s, "write")
            <4>1. req[s].op # "leave"
                BY <2>0, <2>3 DEF SeeMembership, SeeOpenAsk, SeeRequester, Fits
            <4>2. ~End(s) => (req[s].op = "approve" => active[ask[req[s].ask].by])
                BY <2>0, <2>3 DEF SeeMembership, SeeOpenAsk, SeeRequester, Fits
            <4> QED
                BY <2>0, <2>1, <3>1, <3>2, <4>1, <4>2, SerialGoOn
        <3> QED
            BY <2>1, <2>3, <3>2 DEF SeeMembership, SeeOpenAsk, SeeRequester
    <2> QED
        BY <1>6, <2>1, <2>2, <2>3
        DEF Serve, Raise, Approve, Close, Deny, Withdraw, Closed, Leave, Drop
<1>7. CASE Elsewhere
    <2>1. UNCHANGED req /\ Alone
        BY <1>7 DEF Elsewhere, SwitchOff, SwitchOn, Add, Remove
    <2>2. \A t \in Slots : req[t].pc = "idle" /\ req[t].op = "none"
        BY <2>1 DEF Alone, Serially, SerialInv, Prepared
    <2> QED
        BY <2>1, <2>2 DEF Prepared, Decisions
<1> QED
    BY <1>1, <1>5, <1>6, <1>7 DEF Next

(* What an answer, and a departure, find of the rows they write.           *)
LEMMA AnswersOpenRows ==
    ASSUME TypeInv, SerialInv, Serially, NEW s \in Slots,
           NEW state \in {"approved", "denied", "withdrawn"},
           req[s].op \in Decisions, Answer(s, state)
    PROVE  /\ Open(req[s].ask) /\ req[s].ask \in Asks
           /\ \A i \in Asks : i # req[s].ask => ask'[i] = ask[i]
           /\ ask'[req[s].ask].state = state
<1>1. Open(req[s].ask)
    BY DEF SerialInv, Prepared
<1>2. /\ req[s].ask \in Asks
      /\ ask' = [ask EXCEPT ![req[s].ask] =
            [state |-> state, by |-> ask[req[s].ask].by, group |-> ask[req[s].ask].group,
             decider |-> req[s].user]]
    BY Answered
<1>3. ask \in [Asks -> Ask \cup {NoAsk}]
    BY DEF TypeInv, TypeOK
<1> QED
    BY <1>1, <1>2, <1>3

LEMMA FinalStep ==
    ASSUME TypeInv, SerialInv, Serially, [Next]_vars, NEW i \in Asks
    PROVE  /\ ask[i].state \in Decided => ask'[i] = ask[i]
           /\ ask'[i].state = "approved" /\ Open(i) => active[ask[i].by]
<1>0. ask \in [Asks -> Ask \cup {NoAsk}]
    BY DEF TypeInv, TypeOK
<1>1. CASE UNCHANGED ask
    BY <1>1 DEF Open
<1>2. ASSUME NEW s \in Slots, Raise(s), ~(UNCHANGED ask)
      PROVE  /\ ask[i].state \in Decided => ask'[i] = ask[i]
             /\ ask'[i].state = "approved" /\ Open(i) => active[ask[i].by]
    <2> DEFINE row == [state |-> "pending", by |-> req[s].user,
                       group |-> req[s].group, decider |-> None]
    <2>1. PICK k \in Asks : ask[k].state = "none" /\ ask' = [ask EXCEPT ![k] = row]
        BY <1>2 DEF Raise
    <2>2. row.state = "pending"
        OBVIOUS
    <2> HIDE DEF row
    <2>3. ask'[i] = IF i = k THEN row ELSE ask[i]
        BY <1>0, <2>1
    <2> QED
        BY <2>1, <2>2, <2>3 DEF Decided, Open
<1>3. ASSUME NEW s \in Slots, Approve(s), ~(UNCHANGED ask)
      PROVE  /\ ask[i].state \in Decided => ask'[i] = ask[i]
             /\ ask'[i].state = "approved" /\ Open(i) => active[ask[i].by]
    <2>1. Answer(s, "approved") /\ req[s].op \in Decisions
          /\ req[s].op = "approve" /\ req[s].pc = "write"
        BY <1>3 DEF Approve, Decisions
    <2>2. active[ask[req[s].ask].by]
        BY <2>1 DEF SerialInv, Prepared
    <2>3. /\ Open(req[s].ask) /\ \A j \in Asks : j # req[s].ask => ask'[j] = ask[j]
        BY <2>1, AnswersOpenRows
    <2> QED
        BY <2>2, <2>3 DEF Decided, Open
<1>4. ASSUME NEW s \in Slots, Close(s)
      PROVE  /\ ask[i].state \in Decided => ask'[i] = ask[i]
             /\ ask'[i].state = "approved" /\ Open(i) => active[ask[i].by]
    <2>1. PICK state \in {"denied", "withdrawn"} : Answer(s, state) /\ req[s].op \in Decisions
        BY <1>4 DEF Close, Deny, Withdraw, Closed, Decisions
    <2>2. /\ Open(req[s].ask) /\ \A j \in Asks : j # req[s].ask => ask'[j] = ask[j]
          /\ ask'[req[s].ask].state = state
        BY <2>1, AnswersOpenRows
    <2> QED
        BY <2>1, <2>2 DEF Decided, Open
<1>5. ASSUME NEW s \in Slots, Leave(s)
      PROVE  /\ ask[i].state \in Decided => ask'[i] = ask[i]
             /\ ask'[i].state = "approved" /\ Open(i) => active[ask[i].by]
    <2>1. req[s].open = {j \in Asks : Open(j) /\ ask[j].by = req[s].user}
        BY <1>5 DEF SerialInv, Prepared, Leave
    <2>2. i \notin req[s].open => ask'[i] = ask[i]
        BY <1>5 DEF Leave
    <2>3. ask'[i] = ask[i] \/ ask'[i].state = "cancelled"
        BY <1>5, Left
    <2> QED
        BY <2>1, <2>2, <2>3 DEF Open, Decided
<1> QED
    BY <1>1, <1>2, <1>3, <1>4, <1>5, Changes

LEMMA SerialInit == Init => SerialInv
BY DEF Init, SerialInv, Prepared, NoReq, Request, Decisions

(* A decision is final, and nobody is approved after they were switched    *)
(* off, as long as requests come one at a time.                            *)
THEOREM DecisionsAlwaysStand == Spec => DecisionsStand
<1>1. TypeInv /\ SerialInv /\ [Next]_vars =>
          [Serially => \A i \in Asks : ask[i].state \in Decided => ask'[i] = ask[i]]_vars
    BY FinalStep
<1>2. TypeInv /\ SerialInv /\ [Next]_vars =>
          [Serially => \A i \in Asks : ask'[i].state = "approved" /\ Open(i)
                                           => active[ask[i].by]]_vars
    BY FinalStep
<1>3. TypeInv /\ SerialInv /\ [Next]_vars => TypeInv' /\ SerialInv'
    BY TypeNext, SerialStep
<1> QED
    BY <1>1, <1>2, <1>3, TypeInit, SerialInit, PTL
    DEF Spec, DecisionsStand, DecisionIsFinal, NoApprovalForTheInactive

-----------------------------------------------------------------------------
LEMMA ApprovedStep ==
    ASSUME TypeInv, SerialInv, RequestedAccessWasApproved, [Next]_vars
    PROVE  RequestedAccessWasApproved'
<1> SUFFICES ASSUME Serially, NEW u \in Users, NEW g \in Groups, member'[<<u, g>>] = "request"
             PROVE  \E i \in Asks : /\ ask'[i].by = u /\ ask'[i].group = g
                                    /\ ask'[i].state = "approved"
    BY MayStays DEF RequestedAccessWasApproved, Serially
<1>0. member \in [Users \X Groups -> {"manual", "scim", "rule", "request", None}]
    BY DEF TypeInv, TypeOK
<1>1. CASE member[<<u, g>>] = "request"
    <2>1. PICK i \in Asks : ask[i].by = u /\ ask[i].group = g /\ ask[i].state = "approved"
        BY <1>1 DEF RequestedAccessWasApproved
    <2> QED
        BY <2>1, FinalStep DEF Decided
<1>2. ASSUME NEW s \in Slots, Approve(s), ~(UNCHANGED member)
      PROVE  member[<<u, g>>] = "request" \/
             \E i \in Asks : /\ ask'[i].by = u /\ ask'[i].group = g
                             /\ ask'[i].state = "approved"
    <2> DEFINE a == ask[req[s].ask]
    <2>1. /\ Answer(s, "approved") /\ req[s].op \in Decisions
          /\ member' = [member EXCEPT ![<<a.by, a.group>>] = "request"]
        BY <1>2 DEF Approve, Decisions
    <2>2. /\ req[s].ask \in Asks /\ a \in Ask
          /\ ask' = [ask EXCEPT ![req[s].ask] =
                [state |-> "approved", by |-> a.by, group |-> a.group, decider |-> req[s].user]]
        BY <2>1, Answered
    <2>3. ask'[req[s].ask].by = a.by /\ ask'[req[s].ask].group = a.group
          /\ ask'[req[s].ask].state = "approved"
        BY <2>2 DEF TypeInv, TypeOK
    <2>4. CASE <<u, g>> = <<a.by, a.group>>
        BY <2>2, <2>3, <2>4
    <2>5. CASE <<u, g>> # <<a.by, a.group>>
        <3>1. member'[<<u, g>>] = member[<<u, g>>]
            BY <1>0, <2>1, <2>5
        <3> QED
            BY <3>1
    <2> QED
        BY <2>4, <2>5
<1>3. ASSUME NEW v \in Users, NEW h \in Groups, NEW source \in {"manual", "scim", "rule", None},
             member' = [member EXCEPT ![<<v, h>>] = source]
      PROVE  member[<<u, g>>] = "request"
    BY <1>0, <1>3, NoneAssumption
<1>4. \/ UNCHANGED member
      \/ \E s \in Slots : Approve(s)
      \/ \E v \in Users, h \in Groups, source \in {"manual", "scim", "rule", None} :
             member' = [member EXCEPT ![<<v, h>>] = source]
    BY DEF vars, Next, Receive, Serve, Elsewhere, BeginRaise, BeginDecision, BeginLeave, Raise,
           SeeMembership, SeeOpenAsk, SeeRequester, SeeOpenAsks, Close, Deny, Withdraw, Closed,
           Leave, Drop, SwitchOff, SwitchOn, Add, Remove
<1> QED
    BY <1>1, <1>2, <1>3, <1>4

LEMMA LeaverStep ==
    ASSUME TypeInv, SerialInv, LeaverHasNoOpenAsk, [Next]_vars
    PROVE  LeaverHasNoOpenAsk'
<1> SUFFICES ASSUME Serially, "console" \notin may, NEW i \in Asks, Open(i)'
             PROVE  active'[ask'[i].by]
    BY MayStays DEF LeaverHasNoOpenAsk, Serially
<1>0. /\ ask \in [Asks -> Ask \cup {NoAsk}] /\ active \in [Users -> BOOLEAN]
      /\ Open(i) => active[ask[i].by]
    BY DEF TypeInv, TypeOK, LeaverHasNoOpenAsk
<1>1. ASSUME NEW s \in Slots, Leave(s) PROVE active'[ask'[i].by]
    <2>1. /\ req[s].open = {j \in Asks : Open(j) /\ ask[j].by = req[s].user}
        BY <1>1 DEF SerialInv, Prepared, Leave
    <2>2. ask'[i] = ask[i]
        BY <1>1, Left DEF Open
    <2>3. i \notin req[s].open
        BY <1>0, <1>1, <2>2 DEF Leave, Open
    <2>4. Open(i) /\ ask[i].by # req[s].user /\ ask[i] \in Ask
        BY <1>0, <2>1, <2>2, <2>3 DEF Open, NoAsk
    <2> QED
        BY <1>0, <1>1, <2>2, <2>4 DEF Leave, Ask
<1>2. ASSUME NEW s \in Slots, Raise(s) PROVE active'[ask'[i].by]
    <2>1. active[req[s].user] /\ UNCHANGED active
        BY <1>2 DEF Raise, SerialInv, Prepared
    <2>2. CASE UNCHANGED ask
        BY <1>0, <2>1, <2>2 DEF Open
    <2>3. ASSUME NEW k \in Asks,
                 ask' = [ask EXCEPT ![k] = [state |-> "pending", by |-> req[s].user,
                                            group |-> req[s].group, decider |-> None]]
          PROVE  active'[ask'[i].by]
        BY <1>0, <2>1, <2>3 DEF Open
    <2> QED
        BY <1>2, <2>2, <2>3 DEF Raise
<1>3. CASE (\A s \in Slots : ~Leave(s)) /\ (\A s \in Slots : ~Raise(s))
    <2>1. Open(i) /\ ask'[i] = ask[i]
        BY <1>3, OpenBefore
    <2>2. \A u \in Users : active[u] => active'[u]
        BY <1>0, <1>3
        DEF vars, Next, Receive, Serve, Elsewhere, BeginRaise, BeginDecision, BeginLeave, Raise,
            SeeMembership, SeeOpenAsk, SeeRequester, SeeOpenAsks, Approve, Close, Deny, Withdraw,
            Closed, Drop, SwitchOff, SwitchOn, Add, Remove
    <2>3. ask[i].by \in Users
        BY <1>0, <2>1 DEF Open, NoAsk, Ask
    <2> QED
        BY <1>0, <2>1, <2>2, <2>3
<1> QED
    BY <1>1, <1>2, <1>3

(* With requests one at a time a membership that says it came from a       *)
(* request has its approval behind it, and (people being switched off over *)
(* SCIM only) nobody who left is waiting for one.                          *)
THEOREM AccessFollowsDecisionsAlways == Spec => []AccessFollowsDecisions
<1>1. Init => AccessFollowsDecisions
    BY NoneAssumption
    DEF Init, AccessFollowsDecisions, RequestedAccessWasApproved, LeaverHasNoOpenAsk, Open, NoAsk
<1>2. TypeInv /\ SerialInv /\ AccessFollowsDecisions /\ [Next]_vars
          => TypeInv' /\ SerialInv' /\ AccessFollowsDecisions'
    BY TypeNext, SerialStep, ApprovedStep, LeaverStep DEF AccessFollowsDecisions
<1> QED
    BY <1>1, <1>2, TypeInit, SerialInit, PTL DEF Spec
=============================================================================
