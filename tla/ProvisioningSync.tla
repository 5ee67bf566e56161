-------------------------- MODULE ProvisioningSync --------------------------
(***************************************************************************)
(* What one sync does to one provisioning target                           *)
(* (provisioning/sync.py), request by request, while the directory goes on *)
(* changing and the system at the other end (modelled on apps/hrms) may    *)
(* not answer.  At most one run is in progress: that is the lease's part,  *)
(* module SyncLease.                                                       *)
(*                                                                         *)
(* A person's pushed details are one value, the userName, which is also    *)
(* what the downstream tells accounts apart by.  updated_at and            *)
(* last_pushed_at are only ever compared, so a link keeps the comparison.  *)
(***************************************************************************)
EXTENDS Integers, FiniteSets

CONSTANTS
    People,
    Nobody,
    MaxName,       \* userNames are 1..MaxName, in the order people are pushed
    MaxAccounts,   \* bound on accounts ever created downstream
    MaxAttempts,   \* MAX_ATTEMPTS
    Onboarded,     \* userNames that have an account before the first sync
    Circumstances, \* sets of kinds of changes and failures, see weather
    MaxChanges,    \* bound on changes
    MaxFailures    \* bound on failures

ChangeKinds == {"assign", "rehire", "leave", "rename", "reuse", "slow", "vanish",
                "switch", "forget"}
FailureKinds == {"lost", "down", "auth", "crash"}

ASSUME KindsAssumption == Circumstances \subseteq SUBSET (ChangeKinds \cup FailureKinds)
ASSUME BoundsAssumption ==
    /\ MaxName \in Nat /\ MaxAccounts \in Nat /\ MaxAttempts \in Nat \ {0}
    /\ MaxChanges \in Nat /\ MaxFailures \in Nat
    /\ IsFiniteSet(People) /\ Cardinality(People) <= MaxName
    /\ Onboarded \subseteq 1..Cardinality(People) /\ Cardinality(People) <= MaxAccounts
    /\ Nobody \notin People

Names == 1..MaxName
Accounts == 1..MaxAccounts

VARIABLES
    name,       \* userName of each person
    entitled,   \* active people with access to the target's application
    link,       \* provisioning_links, per person
    account,    \* the accounts downstream
    target,     \* the provisioning_targets row: enabled, switched off, deleted
    run,        \* the sync in progress
    weather     \* what may change and go wrong in this behaviour, and how
                \* often it did; a property names what it does not survive

vars == <<name, entitled, link, account, target, run, weather>>

LinkStates == {"none", "pending", "active", "failed", "deprovisioned", "orphaned"}

(* newer: the person's updated_at is later than last_pushed_at, kept only  *)
(* while the link is active, the one state in which it is looked at.       *)
NoLink == [state |-> "none", remote |-> 0, attempts |-> 0, newer |-> FALSE]

Free == [name |-> 0, on |-> FALSE, of |-> Nobody]   \* an id not given out yet
Exists(a) == account[a].name # 0

NoRun == [phase |-> "idle", force |-> FALSE, names |-> [p \in People |-> 0], entitled |-> {},
          todo |-> {}, who |-> Nobody, reply |-> "none", remote |-> 0,
          edited |-> {}, pushed |-> {}]

-----------------------------------------------------------------------------
(* Starting: "now" is captured, then people and links are read, once.  A   *)
(* target switched off is left at once, with nothing read and nothing sent *)
(* ("the target is switched off"); one that is deleted cannot be asked for. *)

NeedsPush(p) == link[p].state # "active" \/ link[p].newer

Selected(p, force) == force \/ (link[p].attempts < MaxAttempts /\ NeedsPush(p))

Start(force) ==
    /\ run.phase = "idle" /\ target = "on"
    /\ run' = [NoRun EXCEPT !.phase = "push", !.force = force, !.names = name,
                            !.entitled = entitled,
                            !.todo = {p \in entitled : Selected(p, force)}]
    /\ UNCHANGED <<name, entitled, link, account, target, weather>>

-----------------------------------------------------------------------------
(* One person's request.  _create_or_adopt's POST, GET and PUT are one     *)
(* step: nobody else writes downstream meanwhile, and losing any of their  *)
(* answers is losing the answer.                                           *)

Want(p) ==
    IF run.phase = "off" THEN "off"
    ELSE IF link[p].remote = 0 THEN "create"
    ELSE IF link[p].state = "deprovisioned" THEN "revive"
    ELSE "replace"

(* list_users at the other end, asked for one userName.                    *)
Holders(n) == {a \in Accounts : account[a].name = n}

(* create_user gives every account an id of its own.                       *)
Unused == {a \in Accounts : account[a] = Free}
NewId == CHOOSE a \in Unused : TRUE

(* find_user: there is never more than one, the userName being unique.     *)
FindUser(n) == CHOOSE a \in Holders(n) : TRUE

\* Mutant: the search after a 409 is left out.
MutAim(p) == IF link[p].remote # 0 THEN link[p].remote ELSE NewId

(* The account a request is about: the link's, or the one with that        *)
(* userName (a 409 followed by find_user), or a new one.                   *)
Aim(p) ==
    IF link[p].remote # 0 THEN link[p].remote
    ELSE IF Holders(run.names[p]) # {} THEN FindUser(run.names[p])
    ELSE NewId

(* What is sent of somebody: as they were when the run began, switched on, *)
(* with our own id as the externalId.                                      *)
Payload(p) == [name |-> run.names[p], on |-> TRUE, of |-> p]

(* The three writes of the downstream: a POST makes the row, a PUT leaves  *)
(* nothing of it but its id, a PATCH touches what it names.                *)
Created(doc) == [name |-> doc.name, on |-> doc.on, of |-> doc.of]
Replaced(row, doc) == [row EXCEPT !.name = doc.name, !.on = doc.on, !.of = doc.of]
Patched(row, on) == [row EXCEPT !.on = on]

(* 404 for an account that is gone, by PUT and by PATCH.                   *)
Missing(p) == link[p].remote # 0 /\ ~Exists(link[p].remote)

(* The userName is unique in its table: a PUT that would repeat one is     *)
(* answered 500, where a POST is answered 409.                             *)
Repeats(p) == Want(p) = "replace" /\ Holders(run.names[p]) \ {link[p].remote} # {}

Refused(p) == Missing(p) \/ Repeats(p)

(* The three ways the sync writes to an account (provisioning/client.py).  *)
CreateUser(p) == Created(Payload(p))
ReplaceUser(p) == Replaced(account[Aim(p)], Payload(p))
SetActive(p, on) == Patched(account[Aim(p)], on)

Written(p) ==
    CASE Want(p) = "off"    -> SetActive(p, FALSE)
      [] Want(p) = "revive" -> SetActive(p, TRUE)
      [] Want(p) = "create" /\ Holders(run.names[p]) = {} -> CreateUser(p)
      [] OTHER              -> ReplaceUser(p)

(* People are pushed in userName order; leavers in no order.               *)
Turn(p) ==
    /\ p \in run.todo
    /\ run.phase = "push" => \A q \in run.todo : run.names[p] <= run.names[q]

Awaiting(p) == run.who = p /\ run.reply # "none"

(* The link row exists, as pending, before anything is sent.               *)
Opened(p) == [link EXCEPT ![p].state = IF @ = "none" THEN "pending" ELSE @]

Request(p) ==
    /\ run.phase \in {"push", "off"} /\ run.who = Nobody /\ Turn(p)
    /\ run.phase = "off" => link[p].remote # 0
    /\ link' = Opened(p)
    /\ UNCHANGED <<name, entitled, target>>

(* The bound on accounts is not reached.                                   *)
Room(p) == link[p].remote # 0 \/ Holders(run.names[p]) # {} \/ Unused # {}

Answered(p) ==
    /\ Request(p)
    /\ ~Refused(p) /\ Room(p)
    /\ account' = [account EXCEPT ![Aim(p)] = Written(p)]
    /\ run' = [run EXCEPT !.who = p, !.reply = "ok", !.remote = Aim(p)]
    /\ UNCHANGED weather

RefusedBy404Or500(p) ==
    /\ Request(p) /\ Refused(p)
    /\ run' = [run EXCEPT !.who = p, !.reply = "failed"]
    /\ UNCHANGED <<account, weather>>

Fail(kind) ==
    /\ kind \in weather.may /\ weather.failures < MaxFailures
    /\ weather' = [weather EXCEPT !.failures = @ + 1]

(* The downstream did it and we never heard: a timeout, or a created       *)
(* account whose response carried no id.                                   *)
AnswerLost(p) ==
    /\ Request(p) /\ ~Refused(p) /\ Room(p) /\ Fail("lost")
    /\ account' = [account EXCEPT ![Aim(p)] = Written(p)]
    /\ run' = [run EXCEPT !.who = p, !.reply = "failed"]

Down(p) ==
    /\ Request(p) /\ Fail("down")
    /\ run' = [run EXCEPT !.who = p, !.reply = "failed"]
    /\ UNCHANGED account

Unauthorized(p) ==
    /\ Request(p) /\ Fail("auth")
    /\ run' = [run EXCEPT !.who = p, !.reply = "auth"]
    /\ UNCHANGED account

-----------------------------------------------------------------------------
(* What is recorded of it, in one commit.                                  *)

Saturated(n) == IF n < MaxAttempts THEN n + 1 ELSE MaxAttempts

\* Mutant: last_pushed_at is stamped when the push is recorded.
MutRecorded(p) ==
    IF run.reply = "ok"
      THEN [state |-> IF run.phase = "push" THEN "active" ELSE "deprovisioned",
            remote |-> run.remote, attempts |-> 0, newer |-> FALSE]
      ELSE [link[p] EXCEPT !.state = IF run.phase = "push" THEN "failed" ELSE "orphaned",
                           !.attempts = Saturated(@), !.newer = FALSE]

Recorded(p) ==
    IF run.reply = "ok"
      THEN IF run.phase = "push"
             THEN [state |-> "active", remote |-> run.remote, attempts |-> 0,
                   newer |-> p \in run.edited]
             ELSE [state |-> "deprovisioned", remote |-> run.remote, attempts |-> 0,
                   newer |-> FALSE]
      ELSE [link[p] EXCEPT !.state = IF run.phase = "push" THEN "failed" ELSE "orphaned",
                           !.attempts = Saturated(@), !.newer = FALSE]

(* one_person_per_remote_account                                           *)
ClaimedByAnother(p) ==
    run.reply = "ok" /\ \E q \in People \ {p} : link[q].remote = run.remote

\* Mutant: the person stays the one being worked on.
MutRecord(p) ==
    /\ Awaiting(p) /\ ~ClaimedByAnother(p)
    /\ link' = [link EXCEPT ![p] = Recorded(p)]
    /\ run' = IF run.reply = "auth" THEN NoRun
              ELSE [run EXCEPT !.todo = @ \ {p}, !.reply = "none", !.pushed = @ \cup {p}]
    /\ UNCHANGED <<name, entitled, account, target, weather>>

Record(p) ==
    /\ Awaiting(p) /\ ~ClaimedByAnother(p)
    /\ link' = [link EXCEPT ![p] = Recorded(p)]
    /\ run' = IF run.reply = "auth" THEN NoRun
              ELSE [run EXCEPT !.todo = @ \ {p}, !.who = Nobody, !.reply = "none",
                               !.remote = 0, !.pushed = @ \cup {p}]
    /\ UNCHANGED <<name, entitled, account, target, weather>>

(* The unique index refuses the row; the IntegrityError is nobody's        *)
(* PushFailed and ends the run.                                            *)
Break(p) ==
    /\ Awaiting(p) /\ ClaimedByAnother(p)
    /\ run' = NoRun
    /\ UNCHANGED <<name, entitled, link, account, target, weather>>

\* Mutant: orphans are left alone too.
MutLeaver(p) ==
    p \notin run.entitled /\ link[p].state \notin {"none", "deprovisioned", "pending", "orphaned"}

(* The second loop: links with nobody entitled behind them.                *)
Leaver(p) == p \notin run.entitled /\ link[p].state \notin {"none", "deprovisioned", "pending"}

ToLeavers ==
    /\ run.phase = "push" /\ run.todo = {}
    /\ run' = [run EXCEPT !.phase = "off", !.todo = {p \in People : Leaver(p)}]
    /\ UNCHANGED <<name, entitled, link, account, target, weather>>

(* Nothing out there to switch off.                                        *)
MarkGone(p) ==
    /\ run.phase = "off" /\ run.who = Nobody /\ p \in run.todo /\ link[p].remote = 0
    /\ link' = [link EXCEPT ![p].state = "deprovisioned"]
    /\ run' = [run EXCEPT !.todo = @ \ {p}]
    /\ UNCHANGED <<name, entitled, account, target, weather>>

Finish ==
    /\ run.phase = "off" /\ run.todo = {}
    /\ run' = NoRun
    /\ UNCHANGED <<name, entitled, link, account, target, weather>>

(* The process dies: what was not recorded is lost.                        *)
Crash ==
    /\ run.phase # "idle" /\ Fail("crash")
    /\ run' = NoRun
    /\ UNCHANGED <<name, entitled, link, account, target>>

-----------------------------------------------------------------------------
(* The directory and the downstream's own staff.                           *)

Change(kind) ==
    /\ kind \in weather.may /\ weather.changes < MaxChanges
    /\ weather' = [weather EXCEPT !.changes = @ + 1]

Edited(p) ==
    /\ link' = [link EXCEPT ![p].newer = link[p].state = "active"]
    /\ run' = IF run.phase = "idle" THEN run ELSE [run EXCEPT !.edited = @ \cup {p}]

(* Given access to the application, directly or through a group: the       *)
(* person's own row is not touched.                                        *)
Assign(p) ==
    /\ p \notin entitled /\ Change("assign")
    /\ entitled' = entitled \cup {p}
    /\ UNCHANGED <<name, link, account, target, run>>

(* Switched on again, and given access.                                    *)
Rehire(p) ==
    /\ p \notin entitled /\ Change("rehire")
    /\ entitled' = entitled \cup {p}
    /\ Edited(p)
    /\ UNCHANGED <<name, account, target>>

Leave(p) ==
    /\ p \in entitled /\ Change("leave")
    /\ entitled' = entitled \ {p}
    /\ UNCHANGED <<name, link, account, target, run>>

NotYetUsed(n) == \A q \in People : name[q] < n
Available(n) == \A q \in People : name[q] # n

(* A SCIM client changes the userName; "reuse": to one somebody had before. *)
Rename(p, n) ==
    /\ \/ NotYetUsed(n) /\ Change("rename")
       \/ Available(n) /\ Change("reuse")
    /\ name' = [name EXCEPT ![p] = n]
    /\ Edited(p)
    /\ UNCHANGED <<entitled, account, target>>

(* The same in a transaction that began before the run's "now" and commits *)
(* only here: updated_at is the transaction's start.                       *)
SlowRename(p, n) ==
    /\ run.phase # "idle" /\ NotYetUsed(n) /\ Change("slow")
    /\ name' = [name EXCEPT ![p] = n]
    /\ link' = [link EXCEPT ![p].newer = link[p].state = "active" /\ (@ \/ p \notin run.pushed)]
    /\ UNCHANGED <<entitled, account, target, run>>

(* Somebody deletes the account at the other end.                          *)
Vanish(a) ==
    /\ account[a].of # Nobody /\ Exists(a) /\ Change("vanish")
    /\ account' = [account EXCEPT ![a].name = 0, ![a].on = FALSE]
    /\ UNCHANGED <<name, entitled, link, target, run>>

-----------------------------------------------------------------------------
(* The target itself (routers/provisioning.py).  A token that is rotated   *)
(* and an address that moves show in the failures only.                    *)

(* update_target: a run that is under way does not look again.             *)
UpdateTarget(enabled) ==
    /\ target # "gone" /\ target # enabled /\ Change("switch")
    /\ target' = enabled
    /\ UNCHANGED <<name, entitled, link, account, run>>

(* delete_target: the links go with the row, the accounts stay.  A run     *)
(* that is under way fails at the next row it writes, so whatever it has   *)
(* sent was the last of it.                                                *)
DeleteTarget ==
    /\ target # "gone" /\ Change("forget")
    /\ target' = "gone"
    /\ link' = [p \in People |-> NoLink]
    /\ run' = NoRun
    /\ UNCHANGED <<name, entitled, account>>

(* create_target: one per application, starting from no links at all.      *)
CreateTarget(enabled) ==
    /\ target = "gone" /\ Change("forget")
    /\ target' = enabled
    /\ UNCHANGED <<name, entitled, link, account, run>>

(* sync_target: whoever presses the button may force everybody's push.     *)
(* Nothing comes of it while the target is switched off or deleted.        *)
SyncTarget ==
    \/ \E force \in BOOLEAN : Start(force)
    \/ run.phase = "idle" /\ target # "on" /\ UNCHANGED vars

TargetChange ==
    \/ \E enabled \in {"on", "off"} : UpdateTarget(enabled) \/ CreateTarget(enabled)
    \/ DeleteTarget

-----------------------------------------------------------------------------
(* What the console shows of a target.                                     *)

(* _counts: the links in each state.                                       *)
Count(state) == Cardinality({p \in People : link[p].state = state})

\* Mutant: people who are no longer entitled are not looked at.
MutCountWaiting == Cardinality({p \in entitled : link[p].remote = 0 \/ NeedsPush(p)})

(* count_waiting: "how many people a sync would touch if it ran right now" *)
CountWaiting ==
    Cardinality({p \in entitled : link[p].remote = 0 \/ NeedsPush(p)})
    + Cardinality({p \in People \ entitled : link[p].state = "active"})

-----------------------------------------------------------------------------
Init ==
    /\ name \in [People -> 1..Cardinality(People)]
    /\ \A p, q \in People : name[p] = name[q] => p = q
    /\ entitled = {}
    /\ link = [p \in People |-> NoLink]
    /\ account = [a \in Accounts |->
                    IF a \in Onboarded THEN [name |-> a, on |-> TRUE, of |-> Nobody] ELSE Free]
    /\ target = "on"
    /\ run = NoRun
    /\ weather \in [may: Circumstances, changes: {0}, failures: {0}]

Proceed(p) ==
    \/ Answered(p) \/ RefusedBy404Or500(p)
    \/ AnswerLost(p) \/ Down(p) \/ Unauthorized(p)
    \/ Record(p) \/ Break(p) \/ MarkGone(p)

Sweep == Start(FALSE) \/ ToLeavers \/ Finish \/ \E p \in People : Proceed(p)

DirectoryChange ==
    \E p \in People :
        \/ Assign(p) \/ Rehire(p) \/ Leave(p)
        \/ \E n \in Names : Rename(p, n) \/ SlowRename(p, n)

Next ==
    \/ Sweep
    \/ SyncTarget
    \/ Crash
    \/ DirectoryChange
    \/ TargetChange
    \/ \E a \in Accounts : Vanish(a)

Spec == Init /\ [][Next]_vars

(* The worker sweeps again and again, and a run that was started goes on.  *)
FairSpec == Spec /\ WF_vars(Sweep)

-----------------------------------------------------------------------------
(* Type invariant: the rows, the accounts, and a run in progress.          *)
TypeOK ==
    /\ name \in [People -> Names]
    /\ entitled \subseteq People
    /\ link \in [People -> [state: LinkStates, remote: 0..MaxAccounts,
                            attempts: 0..MaxAttempts, newer: BOOLEAN]]
    /\ account \in [Accounts -> [name: 0..MaxName, on: BOOLEAN, of: People \cup {Nobody}]]
    /\ target \in {"on", "off", "gone"}
    /\ run \in [phase: {"idle", "push", "off"}, force: BOOLEAN, names: [People -> 0..MaxName],
                entitled: SUBSET People, todo: SUBSET People, who: People \cup {Nobody},
                reply: {"none", "ok", "failed", "auth"}, remote: 0..MaxAccounts,
                edited: SUBSET People, pushed: SUBSET People]
    /\ weather \in [may: Circumstances, changes: 0..MaxChanges, failures: 0..MaxFailures]
    /\ run.who # Nobody => run.who \in run.todo

OnFor(p) == {a \in Accounts : account[a].of = p /\ account[a].on}

Unanswered(p) == run.who = p

(* Nothing of these kinds may happen.                                      *)
Without(kinds) == weather.may \cap kinds = {}

(* A link marked deprovisioned has no account left switched on behind it   *)
(* (models/enums.py, LinkState.DEPROVISIONED).                             *)
DeprovisionedIsOff ==
    \A p \in People : link[p].state = "deprovisioned" /\ ~Unanswered(p) => OnFor(p) = {}

(* It is so if no answer is ever lost, no run dies, no target is deleted   *)
(* and registered again and no userName is taken again: one that is leads  *)
(* a run to an account another person's link names, where it breaks off,   *)
(* and the account it made over is on no link of the person it is now for. *)
DeprovisionedMeansOff == Without({"lost", "crash", "forget", "reuse"}) => DeprovisionedIsOff

(* Somebody entitled whom no sweep would push, because the link is active  *)
(* and nothing is newer, has the account switched on (models/enums.py,     *)
(* LinkState.ACTIVE: "exists and matches what we last sent"), if no run    *)
(* dies, no account is deleted downstream and no userName is taken again.  *)
SettledMeansOn ==
    Without({"crash", "vanish", "reuse"}) =>
        \A p \in entitled : ~NeedsPush(p) /\ ~Unanswered(p) => link[p].remote \in OnFor(p)

(* An account with nothing newer to be pushed says what the directory      *)
(* says: no change falls between what a sync reads and what it stamps, if  *)
(* nobody comes back and no change is slow to commit.                      *)
InStepMeansSame ==
    Without({"leave", "slow", "vanish", "reuse"}) =>
        \A p \in People :
            link[p].state = "active" /\ ~link[p].newer /\ ~Unanswered(p)
                => account[link[p].remote].name = name[p]

(* Retries never make a second account for somebody                        *)
(* (models/provisioning.py, one_account_per_person), whatever is lost,     *)
(* as long as userNames stay.                                              *)
OneAccountEach ==
    Without({"rename", "slow", "reuse", "vanish"}) =>
        \A p \in People : Cardinality({a \in Accounts : account[a].of = p}) <= 1

(* An account recorded as one person's is not made over to another by the  *)
(* sync itself, as long as nobody is given a userName another one had.     *)
AccountsStayTheirs ==
    Without({"reuse"}) =>
        \A p \in People : link[p].remote # 0 => account[link[p].remote].of = p

(* An account we know of is not given up as switched off while it is on,   *)
(* whatever answers are lost and whoever takes whose userName, if no run   *)
(* dies.                                                                   *)
KnownAccountsAreSwitchedOff ==
    Without({"crash"}) =>
        \A p \in People :
            LET a == link[p].remote IN
            link[p].state = "deprovisioned" /\ a # 0 /\ ~Unanswered(p) => a \notin OnFor(p)

(* Two people never share an account (models/provisioning.py,              *)
(* one_person_per_remote_account).                                         *)
OnePersonPerAccount ==
    \A p, q \in People : link[p].remote = link[q].remote /\ link[p].remote # 0 => p = q

(* What a link says of an account is so.                                   *)
LinksTellTheTruth ==
    DeprovisionedMeansOff /\ KnownAccountsAreSwitchedOff /\ SettledMeansOn /\ InStepMeansSame

(* Everybody has one account, of their own.                                *)
AccountsAreTheirOwn == OneAccountEach /\ AccountsStayTheirs /\ OnePersonPerAccount

(* Exactly the people entitled have an account, switched on, that says     *)
(* what the directory says.                                                *)
InStep ==
    \A p \in People :
        IF p \in entitled
          THEN \E a \in OnFor(p) : account[a].name = name[p]
          ELSE OnFor(p) = {}

(* Once changes and failures stop, the target can get in step with the     *)
(* directory (README.md: "it converges regardless of what happened in      *)
(* between") if no account is deleted downstream, no userName is taken again  *)
(* and no change is slow to commit, and either nobody leaves, or nobody is *)
(* renamed, no answer is lost, no run dies and the target is not deleted.  *)
Survivable ==
    /\ Without({"vanish", "reuse", "slow"})
    /\ Without({"leave"}) \/ Without({"rename", "lost", "crash", "forget"})

(* A summary with nobody waiting, failed or orphaned is not shown of a     *)
(* target that is out of step (count_waiting: the summary could otherwise  *)
(* say "in step" while a leaver sat unpushed), where the target survives.  *)
QuietSummaryMeansInStep ==
    Survivable /\ run.phase = "idle" /\ CountWaiting + Count("failed") + Count("orphaned") = 0
        => InStep

(* Under the same circumstances, and if it is not left switched off, it    *)
(* does get in step.                                                       *)
Converges == <>[](Survivable /\ target = "on" => InStep)
=============================================================================
