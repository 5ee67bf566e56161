---------------------------- MODULE AccessRequests ----------------------------
(***************************************************************************)
(* Asking for a group, and deciding on it: access/requests.py, the routes  *)
(* of routers/access_requests.py that call it, and cancel_open_for_leaver  *)
(* in the leaver flow.                                                     *)
(*                                                                         *)
(* Every operation is an HTTP request with a session of its own.  What it  *)
(* has read stays in its memory; what it writes, it writes by primary key, *)
(* and becomes visible at its commit.  The steps of a request are its      *)
(* reads, in order, and its commit.                                        *)
(***************************************************************************)
EXTENDS Naturals

CONSTANTS
    Users,       \* people
    Admins,      \* those whose role includes groups:write (can_decide)
    Groups,
    Asks,        \* bound: rows of access_requests
    Slots,       \* bound: HTTP requests served at the same time
    None,        \* nobody, nothing
    Circumstances \* sets of what may happen, see may

ASSUME NoneAssumption == None \notin Users \cup Groups \cup Asks \cup {"manual", "scim", "rule", "request"}
ASSUME PeopleAssumption == Admins \subseteq Users
ASSUME CircumstancesAssumption == Circumstances \subseteq SUBSET {"race", "console", "removal"}

VARIABLES
    active,      \* users.active
    member,      \* group_members: the source of each membership
    ask,         \* access_requests
    req,         \* the requests being served
    may          \* "race": requests overlap; "console": people are deactivated
                 \* in the console; "removal": people are taken out of groups

vars == <<active, member, ask, req, may>>

Open(i) == ask[i].state = "pending"          \* AccessRequest.is_open
Decided == {"approved", "denied", "withdrawn", "cancelled"}

NoAsk == [state |-> "none", by |-> None, group |-> None, decider |-> None]
Request(op, pc, user, i, group) ==
    [op |-> op, pc |-> pc, user |-> user, ask |-> i, group |-> group, open |-> {}]
NoReq == Request("none", "idle", None, None, None)

(* Requests begin when another may be under way, or one at a time.         *)
Alone == "race" \in may \/ \A s \in Slots : req[s].pc = "idle"
Begin(s, r) == Alone /\ req[s].pc = "idle" /\ req' = [req EXCEPT ![s] = r]
GoOn(s, pc) == req' = [req EXCEPT ![s].pc = pc]
End(s) == req' = [req EXCEPT ![s] = NoReq]

OpenFor(u, g) == {i \in Asks : Open(i) /\ ask[i].by = u /\ ask[i].group = g}

-----------------------------------------------------------------------------
(* raise_request.                                                          *)

BeginRaise(s, u, g) ==
    /\ active[u]
    /\ Begin(s, Request("raise", "member?", u, None, g))
    /\ UNCHANGED <<active, member, ask, may>>

SeeMembership(s) ==
    /\ req[s].pc = "member?"
    /\ IF member[<<req[s].user, req[s].group>>] = None THEN GoOn(s, "asked?") ELSE End(s)
    /\ UNCHANGED <<active, member, ask, may>>

SeeOpenAsk(s) ==
    /\ req[s].pc = "asked?"
    /\ IF OpenFor(req[s].user, req[s].group) = {} THEN GoOn(s, "write") ELSE End(s)
    /\ UNCHANGED <<active, member, ask, may>>

\* Mutant: the check above is all there is.
MutRaise(s) ==
    /\ req[s].pc = "write" /\ req[s].op = "raise"
    /\ \E i \in Asks :
        /\ ask[i].state = "none"
        /\ ask' = [ask EXCEPT ![i] = [state |-> "pending", by |-> req[s].user,
                                      group |-> req[s].group, decider |-> None]]
    /\ End(s)
    /\ UNCHANGED <<active, member, may>>

(* The index one_open_request_per_person_and_group refuses a second row.   *)
Raise(s) ==
    /\ req[s].pc = "write" /\ req[s].op = "raise"
    /\ \/ OpenFor(req[s].user, req[s].group) # {} /\ UNCHANGED ask
       \/ /\ OpenFor(req[s].user, req[s].group) = {}
          /\ \E i \in Asks :
                /\ ask[i].state = "none"
                /\ ask' = [ask EXCEPT ![i] = [state |-> "pending", by |-> req[s].user,
                                              group |-> req[s].group, decider |-> None]]
    /\ End(s)
    /\ UNCHANGED <<active, member, may>>

-----------------------------------------------------------------------------
(* approve, deny and withdraw.                                             *)

(* Whoever may decide decides for others; a withdrawal is one's own.       *)
MayAnswer(a, i) == a \in Admins /\ ask[i].by # a
MayWithdraw(a, i) == ask[i].by = a

MayDecide(op, a, i) == IF op = "withdraw" THEN MayWithdraw(a, i) ELSE MayAnswer(a, i)

\* Mutant: decided or not is not looked at.
MutBeginDecision(s, op, a, i) ==
    /\ active[a] /\ ask[i].state # "none" /\ MayDecide(op, a, i)
    /\ Begin(s, Request(op, IF op = "approve" THEN "active?" ELSE "write", a, i, None))
    /\ UNCHANGED <<active, member, ask, may>>

(* The request is loaded and guarded; whoever is refused changes nothing.  *)
BeginDecision(s, op, a, i) ==
    /\ active[a] /\ Open(i) /\ MayDecide(op, a, i)
    /\ Begin(s, Request(op, IF op = "approve" THEN "active?" ELSE "write", a, i, None))
    /\ UNCHANGED <<active, member, ask, may>>

SeeRequester(s) ==
    /\ req[s].pc = "active?"
    /\ IF active[ask[req[s].ask].by] THEN GoOn(s, "write") ELSE End(s)
    /\ UNCHANGED <<active, member, ask, may>>

(* The UPDATE names the row and not the state it was read in.              *)
Answer(s, state) ==
    ask' = [ask EXCEPT ![req[s].ask] = [state |-> state, by |-> @.by, group |-> @.group,
                                        decider |-> req[s].user]]

\* Mutant: the decision is committed before the membership is added.
MutApprove(s) ==
    /\ req[s].pc = "write" /\ req[s].op = "approve"
    /\ Answer(s, "approved")
    /\ End(s)
    /\ UNCHANGED <<active, member, may>>

(* Decision and membership in one transaction: the primary key of          *)
(* group_members refuses both when they are in the group already.          *)
Approve(s) ==
    /\ req[s].pc = "write" /\ req[s].op = "approve"
    /\ LET a == ask[req[s].ask] IN
        \/ member[<<a.by, a.group>>] # None /\ UNCHANGED <<ask, member>>
        \/ /\ member[<<a.by, a.group>>] = None
           /\ Answer(s, "approved")
           /\ member' = [member EXCEPT ![<<a.by, a.group>>] = "request"]
    /\ End(s)
    /\ UNCHANGED <<active, may>>

Closed(s, op, state) ==
    /\ req[s].pc = "write" /\ req[s].op = op
    /\ Answer(s, state)
    /\ End(s)
    /\ UNCHANGED <<active, member, may>>

Deny(s) == Closed(s, "deny", "denied")
Withdraw(s) == Closed(s, "withdraw", "withdrawn")

Close(s) == Deny(s) \/ Withdraw(s)

-----------------------------------------------------------------------------
(* SCIM deactivates somebody who is active: cut_access.                    *)

BeginLeave(s, u) ==
    /\ active[u]
    /\ Begin(s, Request("leave", "open?", u, None, None))
    /\ UNCHANGED <<active, member, ask, may>>

\* Mutant: all they ever asked for.
MutSeeOpenAsks(s) ==
    /\ req[s].pc = "open?"
    /\ req' = [req EXCEPT ![s] = [Request("leave", "write", @.user, None, None) EXCEPT
                                    !.open = {i \in Asks : ask[i].by = req[s].user}]]
    /\ UNCHANGED <<active, member, ask, may>>

SeeOpenAsks(s) ==
    /\ req[s].pc = "open?"
    /\ req' = [req EXCEPT ![s] = [Request("leave", "write", @.user, None, None) EXCEPT
                                    !.open = {i \in Asks : Open(i) /\ ask[i].by = req[s].user}]]
    /\ UNCHANGED <<active, member, ask, may>>

\* Mutant: cancelling forgets who asked.
MutLeave(s) ==
    /\ req[s].pc = "write" /\ req[s].op = "leave"
    /\ active' = [active EXCEPT ![req[s].user] = FALSE]
    /\ ask' = [i \in Asks |-> IF i \in req[s].open THEN [NoAsk EXCEPT !.state = "cancelled"]
                              ELSE ask[i]]
    /\ End(s)
    /\ UNCHANGED <<member, may>>

(* cancel leaves the decider alone.                                        *)
Leave(s) ==
    /\ req[s].pc = "write" /\ req[s].op = "leave"
    /\ active' = [active EXCEPT ![req[s].user] = FALSE]
    /\ ask' = [i \in Asks |-> IF i \in req[s].open THEN [ask[i] EXCEPT !.state = "cancelled"]
                              ELSE ask[i]]
    /\ End(s)
    /\ UNCHANGED <<member, may>>

(* A handler that fails or is cut off leaves nothing behind.               *)
Drop(s) == req[s].pc # "idle" /\ End(s) /\ UNCHANGED <<active, member, ask, may>>

-----------------------------------------------------------------------------
(* What other components do to people and groups, a transaction each.      *)

SwitchOff(u) ==      \* update_user: nothing but the flag
    /\ "console" \in may /\ Alone /\ active[u]
    /\ active' = [active EXCEPT ![u] = FALSE]
    /\ UNCHANGED <<member, ask, req, may>>

SwitchOn(u) ==
    /\ Alone /\ ~active[u]
    /\ active' = [active EXCEPT ![u] = TRUE]
    /\ UNCHANGED <<member, ask, req, may>>

Add(u, g, source) ==
    /\ Alone /\ member[<<u, g>>] = None /\ (source = "rule" => active[u])
    /\ member' = [member EXCEPT ![<<u, g>>] = source]
    /\ UNCHANGED <<active, ask, req, may>>

Remove(u, g) ==
    /\ "removal" \in may /\ Alone /\ member[<<u, g>>] # None
    /\ member' = [member EXCEPT ![<<u, g>>] = None]
    /\ UNCHANGED <<active, ask, req, may>>

Init ==
    /\ active = [u \in Users |-> TRUE]
    /\ member = [p \in Users \X Groups |-> None]
    /\ ask = [i \in Asks |-> NoAsk]
    /\ req = [s \in Slots |-> NoReq]
    /\ may \in Circumstances

Serve(s) ==
    \/ SeeMembership(s) \/ SeeOpenAsk(s) \/ Raise(s)
    \/ SeeRequester(s) \/ Approve(s) \/ Close(s)
    \/ SeeOpenAsks(s) \/ Leave(s) \/ Drop(s)

Receive(s) ==
    \/ \E u \in Users : BeginLeave(s, u) \/ \E g \in Groups : BeginRaise(s, u, g)
    \/ \E op \in {"approve", "deny", "withdraw"}, a \in Users, i \in Asks : BeginDecision(s, op, a, i)

Elsewhere ==
    \E u \in Users :
        \/ SwitchOff(u) \/ SwitchOn(u)
        \/ \E g \in Groups : Remove(u, g) \/ \E source \in {"manual", "scim", "rule"} : Add(u, g, source)

Next == (\E s \in Slots : Receive(s) \/ Serve(s)) \/ Elsewhere

Spec == Init /\ [][Next]_vars

-----------------------------------------------------------------------------
(* Type invariant: the tables and the requests that are being served.      *)
Ask == [state: {"pending"} \cup Decided, by: Users, group: Groups, decider: Users \cup {None}]
Req == [pc: {"idle", "member?", "asked?", "active?", "open?", "write"},
        op: {"none", "raise", "approve", "deny", "withdraw", "leave"},
        user: Users \cup {None}, ask: Asks \cup {None}, group: Groups \cup {None}, open: SUBSET Asks]
TypeOK ==
    /\ active \in [Users -> BOOLEAN]
    /\ member \in [Users \X Groups -> {"manual", "scim", "rule", "request", None}]
    /\ ask \in [Asks -> Ask \cup {NoAsk}]
    /\ req \in [Slots -> Req]
    /\ \A i \in Asks : Open(i) => ask[i].decider = None

Serially == "race" \notin may

(* Nobody has two open requests for one group, however often they click    *)
(* (models/requests.py, one_open_request_per_person_and_group).            *)
OneOpenAsk ==
    \A i, j \in Asks : Open(i) /\ Open(j) /\ ask[i].by = ask[j].by /\ ask[i].group = ask[j].group => i = j

(* Whatever overlaps, a request that says approved has led to a membership *)
(* that is there until somebody takes it away (access/requests.py: never   *)
(* "approved" without the access applied).                                 *)
ApprovedHasAccess ==
    "removal" \notin may =>
        \A i \in Asks : ask[i].state = "approved" => member[<<ask[i].by, ask[i].group>>] # None

(* A decision is final: no answered request is answered again              *)
(* (access/requests.py), by requests served one after the other.           *)
DecisionIsFinal ==
    [][Serially => \A i \in Asks : ask[i].state \in Decided => ask'[i] = ask[i]]_vars

(* A membership that came from a request has an approval behind it, which  *)
(* neither a withdrawal nor a departure has replaced since (a review can   *)
(* tell where it came from: approve).                                      *)
RequestedAccessWasApproved ==
    Serially =>
        \A u \in Users, g \in Groups :
            member[<<u, g>>] = "request" =>
                \E i \in Asks : ask[i].by = u /\ ask[i].group = g /\ ask[i].state = "approved"

(* Somebody who left through the provider has nothing in the approvers'    *)
(* queue (cancel_open_for_leaver: it could get approved after they're      *)
(* gone).                                                                  *)
LeaverHasNoOpenAsk ==
    Serially /\ "console" \notin may => \A i \in Asks : Open(i) => active[ask[i].by]

(* Nobody who is deactivated is given access by an approval (approve:      *)
(* "block approval instead of granting then immediately revoking").        *)
NoApprovalForTheInactive ==
    [][Serially => \A i \in Asks : ask'[i].state = "approved" /\ Open(i) => active[ask[i].by]]_vars

(* What was decided is what is so: memberships have approvals behind them, *)
(* and whoever left is not waiting for one.                                *)
AccessFollowsDecisions == RequestedAccessWasApproved /\ LeaverHasNoOpenAsk

(* What was decided stays decided, and was decided of somebody active.     *)
DecisionsStand == DecisionIsFinal /\ NoApprovalForTheInactive
=============================================================================
