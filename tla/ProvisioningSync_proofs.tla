----------------------- MODULE ProvisioningSync_proofs -----------------------
(* What holds of a target's links whatever changes, fails and is lost, for *)
(* any number of people, accounts, changes and failures.                   *)
EXTENDS ProvisioningSync, FiniteSetTheorems, TLAPS

AccountRows == [name: 0..MaxName, on: BOOLEAN, of: People \cup {Nobody}]
LinkRows == [state: LinkStates, remote: 0..MaxAccounts, attempts: 0..MaxAttempts, newer: BOOLEAN]
Runs == [phase: {"idle", "push", "off"}, force: BOOLEAN, names: [People -> 0..MaxName],
         entitled: SUBSET People, todo: SUBSET People, who: People \cup {Nobody},
         reply: {"none", "ok", "failed", "auth"}, remote: 0..MaxAccounts,
         edited: SUBSET People, pushed: SUBSET People]

LEMMA Sizes ==
    /\ Cardinality(People) \in Nat /\ Cardinality(People) <= MaxName
    /\ Cardinality(People) <= MaxAccounts
BY BoundsAssumption, FS_CardinalityType

LEMMA NoRunType == NoRun \in Runs /\ NoRun.who = Nobody
BY BoundsAssumption DEF NoRun, Runs

LEMMA NoLinkType == NoLink \in LinkRows
BY BoundsAssumption DEF NoLink, LinkRows, LinkStates

LEMMA InitType == Init => TypeOK
<1> SUFFICES ASSUME Init PROVE TypeOK
    OBVIOUS
<1>1. name \in [People -> Names]
    BY Sizes, BoundsAssumption DEF Init, Names
<1>2. \A a \in Accounts : account[a] \in AccountRows
    BY Sizes, BoundsAssumption DEF Init, Free, AccountRows, Accounts
<1>3. account \in [Accounts -> AccountRows]
    BY <1>2 DEF Init
<1>4. weather \in [may: Circumstances, changes: 0..MaxChanges, failures: 0..MaxFailures]
    BY BoundsAssumption DEF Init
<1> QED
    BY <1>1, <1>3, <1>4, NoRunType, NoLinkType
       DEF Init, TypeOK, AccountRows, LinkRows, Runs, LinkStates

(* Every request is about an account there can be.                         *)
LEMMA AimIsAnAccount ==
    ASSUME TypeOK, NEW p \in People, Room(p)
    PROVE  Aim(p) \in Accounts
<1>1. CASE link[p].remote # 0
    BY <1>1, BoundsAssumption DEF Aim, TypeOK, Accounts
<1>2. CASE link[p].remote = 0 /\ Holders(run.names[p]) # {}
    BY <1>2 DEF Aim, FindUser, Holders
<1>3. CASE link[p].remote = 0 /\ Holders(run.names[p]) = {} /\ Unused # {}
    BY <1>3 DEF Aim, NewId, Unused
<1> QED
    BY <1>1, <1>2, <1>3 DEF Room

LEMMA WrittenType ==
    ASSUME TypeOK, NEW p \in People, Room(p)
    PROVE  Written(p) \in AccountRows
<1>1. account[Aim(p)] \in AccountRows
    BY AimIsAnAccount DEF TypeOK, AccountRows
<1>2. run.names[p] \in 0..MaxName
    BY DEF TypeOK
<1> QED
    BY <1>1, <1>2 DEF Written, SetActive, CreateUser, ReplaceUser, Patched, Created, Replaced,
       Payload, AccountRows, Want

(* A failure or a change counts, within its bound.                         *)
LEMMA FailType ==
    ASSUME TypeOK, NEW kind, Fail(kind)
    PROVE  weather' \in [may: Circumstances, changes: 0..MaxChanges, failures: 0..MaxFailures]
BY BoundsAssumption DEF TypeOK, Fail

LEMMA ChangeType ==
    ASSUME TypeOK, NEW kind, Change(kind)
    PROVE  weather' \in [may: Circumstances, changes: 0..MaxChanges, failures: 0..MaxFailures]
BY BoundsAssumption DEF TypeOK, Change

LEMMA EditedType ==
    ASSUME TypeOK, NEW p \in People, Edited(p)
    PROVE  /\ link' \in [People -> LinkRows]
           /\ run' \in Runs
           /\ run'.who # Nobody => run'.who \in run'.todo
<1> DEFINE row == [link[p] EXCEPT !.newer = link[p].state = "active"]
<1>1. link' \in [People -> LinkRows]
    <2>1. PICK b \in BOOLEAN : b = (link[p].state = "active")
        BY Zenon
    <2>2. row \in LinkRows
        <3>1. [link[p] EXCEPT !.newer = b] \in LinkRows
            BY DEF TypeOK, LinkRows
        <3> QED
            BY <2>1, <3>1, Zenon
    <2>3. link' = [link EXCEPT ![p] = row]
        BY DEF Edited
    <2> QED
        BY <2>2, <2>3 DEF TypeOK, LinkRows
<1>2. run' \in Runs /\ run'.who = run.who /\ run'.todo = run.todo
    BY DEF TypeOK, Edited, Runs
<1> QED
    BY <1>1, <1>2 DEF TypeOK

(* TypeOK, with its row types by name.                                     *)
LEMMA TypeParts ==
    TypeOK <=> /\ name \in [People -> Names] /\ entitled \subseteq People
               /\ link \in [People -> LinkRows] /\ account \in [Accounts -> AccountRows]
               /\ target \in {"on", "off", "gone"}
               /\ run \in Runs /\ (run.who # Nobody => run.who \in run.todo)
               /\ weather \in [may: Circumstances, changes: 0..MaxChanges, failures: 0..MaxFailures]
BY DEF TypeOK, LinkRows, AccountRows, Runs

(* Opening somebody's link and sending their request.                      *)
LEMMA RequestType ==
    ASSUME TypeOK, NEW p \in People, Request(p), NEW answer \in {"ok", "failed", "auth"},
           NEW a \in 0..MaxAccounts,
           run' = [run EXCEPT !.who = p, !.reply = answer, !.remote = a],
           account' \in [Accounts -> AccountRows],
           weather' \in [may: Circumstances, changes: 0..MaxChanges, failures: 0..MaxFailures]
    PROVE  TypeOK'
<1>1. link' \in [People -> LinkRows]
    BY DEF Request, Opened, TypeOK, LinkRows, LinkStates
<1>2. run' \in Runs /\ run'.who \in run'.todo
    BY DEF Request, Turn, TypeOK, Runs
<1> QED
    BY <1>1, <1>2 DEF Request, TypeOK, LinkRows, AccountRows, Runs

LEMMA ProceedType ==
    ASSUME TypeOK, NEW p \in People, Proceed(p)
    PROVE  TypeOK'
<1>0. /\ weather \in [may: Circumstances, changes: 0..MaxChanges, failures: 0..MaxFailures]
      /\ account \in [Accounts -> AccountRows] /\ run.remote \in 0..MaxAccounts
      /\ link[p] \in LinkRows /\ link \in [People -> LinkRows] /\ run \in Runs
    BY DEF TypeOK, AccountRows, LinkRows, Runs
<1>1. ASSUME Room(p)
      PROVE  /\ [account EXCEPT ![Aim(p)] = Written(p)] \in [Accounts -> AccountRows]
             /\ Aim(p) \in 0..MaxAccounts
    BY <1>0, <1>1, AimIsAnAccount, WrittenType, BoundsAssumption DEF Accounts
<1>2. CASE Answered(p)
    BY <1>0, <1>1, <1>2, RequestType DEF Answered
<1>3. CASE AnswerLost(p)
    <2>1. run' = [run EXCEPT !.who = p, !.reply = "failed", !.remote = run.remote]
        BY <1>0, <1>3 DEF AnswerLost, Runs
    <2> QED
        BY <1>0, <1>1, <1>3, <2>1, FailType, RequestType DEF AnswerLost
<1>4. CASE RefusedBy404Or500(p) \/ Down(p) \/ Unauthorized(p)
    <2>1. PICK answer \in {"failed", "auth"} :
              run' = [run EXCEPT !.who = p, !.reply = answer, !.remote = run.remote]
        BY <1>0, <1>4 DEF RefusedBy404Or500, Down, Unauthorized, Runs
    <2>2. /\ account' = account /\ Request(p)
          /\ weather' \in [may: Circumstances, changes: 0..MaxChanges, failures: 0..MaxFailures]
        BY <1>0, <1>4, FailType DEF RefusedBy404Or500, Down, Unauthorized
    <2> QED
        BY <1>0, <2>1, <2>2, RequestType
<1>5. CASE Record(p)
    <2>1. PICK fresh \in BOOLEAN : fresh = (p \in run.edited)
        <3>1. (p \in run.edited) \in BOOLEAN
            OBVIOUS
        <3> QED
            BY <3>1, Zenon
    <2>2. Saturated(link[p].attempts) \in 0..MaxAttempts
        BY <1>0, BoundsAssumption DEF Saturated, LinkRows
    <2>3. [state |-> "active", remote |-> run.remote, attempts |-> 0, newer |-> fresh] \in LinkRows
        BY <1>0, BoundsAssumption DEF LinkRows, LinkStates
    <2>4. [state |-> "active", remote |-> run.remote, attempts |-> 0, newer |-> p \in run.edited]
              \in LinkRows
        BY <2>1, <2>3, Zenon
    <2>5. Recorded(p) \in LinkRows
        BY <1>0, <2>2, <2>4, BoundsAssumption DEF Recorded, LinkRows, LinkStates
    <2>6. link' \in [People -> LinkRows]
        BY <1>0, <1>5, <2>5 DEF Record
    <2>7. run' \in Runs /\ run'.who = Nobody
        <3>1. CASE run.reply = "auth"
            BY <1>5, <3>1, NoRunType DEF Record
        <3>2. CASE run.reply # "auth"
            <4>1. run' = [run EXCEPT !.todo = @ \ {p}, !.who = Nobody, !.reply = "none",
                                     !.remote = 0, !.pushed = @ \cup {p}]
                BY <1>5, <3>2 DEF Record
            <4>2. 0 \in 0..MaxAccounts
                BY BoundsAssumption
            <4> QED
                BY <1>0, <4>1, <4>2 DEF Runs
        <3> QED
            BY <3>1, <3>2
    <2> QED
        BY <1>5, <2>6, <2>7 DEF Record, TypeOK, LinkRows, AccountRows, Runs
<1>6. CASE Break(p)
    BY <1>6, NoRunType DEF Break, TypeOK, Runs
<1>7. CASE MarkGone(p)
    <2>1. link' \in [People -> LinkRows]
        BY <1>0, <1>7 DEF MarkGone, LinkRows, LinkStates
    <2>2. run' \in Runs /\ run'.who = Nobody
        BY <1>0, <1>7 DEF MarkGone, Runs
    <2> QED
        BY <1>7, <2>1, <2>2 DEF MarkGone, TypeOK, LinkRows, Runs
<1> QED
    BY <1>2, <1>3, <1>4, <1>5, <1>6, <1>7 DEF Proceed

LEMMA DirectoryChangeType ==
    ASSUME TypeOK, DirectoryChange
    PROVE  TypeOK'
<1>0. link \in [People -> LinkRows]
    BY DEF TypeOK, LinkRows
<1>1. ASSUME NEW p \in People, Assign(p) \/ Leave(p) PROVE TypeOK'
    BY <1>1, ChangeType DEF Assign, Leave, TypeOK
<1>2. ASSUME NEW p \in People, Rehire(p) PROVE TypeOK'
    <2>1. entitled' \subseteq People
        BY <1>2 DEF Rehire, TypeOK
    <2> QED
        BY <1>2, <2>1, ChangeType, EditedType DEF Rehire, TypeOK, LinkRows, Runs
<1>3. ASSUME NEW p \in People, NEW n \in Names, Rename(p, n) PROVE TypeOK'
    <2>1. name' \in [People -> Names]
        BY <1>3 DEF Rename, TypeOK
    <2>2. weather' \in [may: Circumstances, changes: 0..MaxChanges, failures: 0..MaxFailures]
        BY <1>3, ChangeType DEF Rename
    <2> QED
        BY <1>3, <2>1, <2>2, EditedType DEF Rename, TypeOK, LinkRows, Runs
<1>4. ASSUME NEW p \in People, NEW n \in Names, SlowRename(p, n) PROVE TypeOK'
    <2>1. name' \in [People -> Names]
        BY <1>4 DEF SlowRename, TypeOK
    <2>2. PICK b \in BOOLEAN :
              b = (link[p].state = "active" /\ (link[p].newer \/ p \notin run.pushed))
        BY Zenon
    <2>3. link' = [link EXCEPT ![p].newer = b]
        BY <1>4, <2>2, Zenon DEF SlowRename
    <2>4. link' \in [People -> LinkRows]
        BY <1>0, <2>3 DEF LinkRows
    <2> QED
        BY <1>4, <2>1, <2>4, ChangeType DEF SlowRename, TypeOK, LinkRows, Runs
<1> QED
    BY <1>1, <1>2, <1>3, <1>4 DEF DirectoryChange

LEMMA TypeStep ==
    ASSUME TypeOK, [Next]_vars
    PROVE  TypeOK'
<1>1. CASE UNCHANGED vars
    BY <1>1 DEF vars, TypeOK
<1>2. ASSUME NEW force \in BOOLEAN, Start(force) PROVE TypeOK'
    <2>1. name \in [People -> 0..MaxName]
        BY BoundsAssumption DEF TypeOK, Names
    <2>2. run' \in Runs /\ run'.who = Nobody
        BY <1>2, <2>1, NoRunType DEF Start, TypeOK, Runs
    <2> QED
        BY <1>2, <2>2 DEF Start, TypeOK, Runs
<1>3. CASE ToLeavers
    <2>1. run' \in Runs /\ run'.who = Nobody
        BY <1>3 DEF ToLeavers, TypeOK, Runs
    <2> QED
        BY <1>3, <2>1 DEF ToLeavers, TypeOK, Runs
<1>4. CASE Finish
    BY <1>4, NoRunType DEF Finish, TypeOK, Runs
<1>5. CASE Crash
    BY <1>5, NoRunType, FailType DEF Crash, TypeOK, Runs
<1>6. ASSUME NEW enabled \in {"on", "off"}, UpdateTarget(enabled) \/ CreateTarget(enabled)
      PROVE  TypeOK'
    BY <1>6, ChangeType DEF UpdateTarget, CreateTarget, TypeOK
<1>7. CASE DeleteTarget
    BY <1>7, NoRunType, NoLinkType, ChangeType DEF DeleteTarget, TypeOK, Runs, LinkRows
<1>8. ASSUME NEW a \in Accounts, Vanish(a) PROVE TypeOK'
    <2>1. account' = [account EXCEPT ![a] = [@ EXCEPT !.name = 0, !.on = FALSE]]
        BY <1>8 DEF Vanish, TypeOK
    <2>2. account \in [Accounts -> AccountRows]
        BY DEF TypeOK, AccountRows
    <2>3. [account[a] EXCEPT !.name = 0, !.on = FALSE] \in AccountRows
        <3>1. 0 \in 0..MaxName
            BY BoundsAssumption
        <3> QED
            BY <2>2, <3>1 DEF AccountRows
    <2>4. account' \in [Accounts -> AccountRows]
        BY <2>1, <2>2, <2>3
    <2> QED
        BY <1>8, <2>4, ChangeType DEF Vanish, TypeOK, AccountRows
<1> QED
    BY <1>1, <1>2, <1>3, <1>4, <1>5, <1>6, <1>7, <1>8, ProceedType, DirectoryChangeType
       DEF Next, Sweep, SyncTarget, TargetChange

(* Rows and runs keep their shape, and somebody who is being worked on is  *)
(* still to be done.                                                       *)
THEOREM TypeCorrect == Spec => []TypeOK
BY InitType, TypeStep, PTL DEF Spec

-----------------------------------------------------------------------------
(* What the steps do, field by field.                                      *)

(* What reaches the other end when somebody's request is answered, or the  *)
(* answer is lost: a PATCH of their account, or their details on it, on    *)
(* one with that userName, or on a new one.                                *)
Sent(p, a) ==
    /\ a \in Accounts /\ \A b \in Accounts \ {a} : account'[b] = account[b]
    /\ \/ /\ link[p].remote = a /\ Exists(a)
          /\ account'[a].name = account[a].name /\ account'[a].of = account[a].of
          /\ \/ run.phase = "off" /\ ~account'[a].on
             \/ run.phase = "push" /\ link[p].state = "deprovisioned" /\ account'[a].on
       \/ /\ run.phase = "push"
          /\ account'[a].name = run.names[p] /\ account'[a].on /\ account'[a].of = p
          /\ \/ link[p].remote = a /\ Holders(run.names[p]) \subseteq {a}
             \/ link[p].remote = 0 /\ account[a].name = run.names[p]
             \/ link[p].remote = 0 /\ account[a] = Free /\ Holders(run.names[p]) = {}

(* The run goes on, with the same people.                                  *)
RunGoesOn ==
    run'.phase = run.phase /\ run'.names = run.names /\ run'.entitled = run.entitled
    /\ run'.edited = run.edited

Requested(p) ==
    /\ run.phase # "idle" /\ run.who = Nobody /\ p \in run.todo
    /\ run.phase = "off" => link[p].remote # 0
    /\ \A q \in People :
          /\ link'[q].remote = link[q].remote /\ link'[q].newer = link[q].newer
          /\ \/ link'[q].state = link[q].state
             \/ q = p /\ link[q].state = "none" /\ link'[q].state = "pending"
    /\ link'[p].state # "none"
    /\ RunGoesOn /\ run'.todo = run.todo /\ run'.who = p /\ run'.reply # "none"
    /\ \/ UNCHANGED account /\ run'.reply # "ok"
       \/ \E a \in Accounts :
             /\ Sent(p, a)
             /\ \/ run'.reply = "ok" /\ run'.remote = a
                \/ run'.reply = "failed" /\ "lost" \in weather.may
    /\ UNCHANGED <<name, entitled>>

RecordedFor(p) ==
    /\ run.who = p /\ run.reply # "none"
    /\ \A q \in People \ {p} : link'[q] = link[q]
    /\ \/ /\ run.reply = "ok" /\ link'[p].remote = run.remote
          /\ \A q \in People \ {p} : link[q].remote # run.remote
          /\ \/ run.phase = "push" /\ link'[p].state = "active" /\ (link'[p].newer <=> p \in run.edited)
             \/ run.phase # "push" /\ link'[p].state = "deprovisioned"
       \/ /\ run.reply # "ok" /\ link'[p].remote = link[p].remote
          /\ link'[p].state \in {"failed", "orphaned"}
    /\ run'.who = Nobody /\ run'.reply = "none"
    /\ run' = NoRun \/ (RunGoesOn /\ run'.todo \subseteq run.todo)
    /\ UNCHANGED <<name, entitled, account>>

MarkedGone(p) ==
    /\ run.phase = "off" /\ run.who = Nobody /\ p \in run.todo /\ link[p].remote = 0
    /\ link'[p].state = "deprovisioned" /\ link'[p].remote = 0
    /\ \A q \in People \ {p} : link'[q] = link[q]
    /\ RunGoesOn /\ run'.who = Nobody /\ run'.reply = run.reply /\ run'.todo \subseteq run.todo
    /\ UNCHANGED <<name, entitled, account>>

Started ==
    /\ run.phase = "idle"
    /\ run'.phase = "push" /\ run'.names = name /\ run'.entitled = entitled
    /\ run'.todo \subseteq entitled /\ run'.edited = {} /\ run'.who = Nobody /\ run'.reply = "none"
    /\ UNCHANGED <<name, entitled, link, account>>

Turned ==
    /\ run.phase = "push" /\ run.todo = {}
    /\ run'.phase = "off" /\ run'.names = run.names /\ run'.entitled = run.entitled
    /\ run'.edited = run.edited /\ run'.who = run.who /\ run'.reply = run.reply
    /\ run'.todo = {p \in People : Leaver(p)}
    /\ UNCHANGED <<name, entitled, link, account>>

(* A run ends with somebody's request unrecorded only if it dies, or finds *)
(* another person's account.                                               *)
Stopped ==
    /\ run' = NoRun
    /\ \/ run.who = Nobody \/ "crash" \in weather.may
       \/ run.reply = "ok" /\ \E q \in People \ {run.who} : link[q].remote = run.remote
    /\ UNCHANGED <<name, entitled, link, account>>

(* Access comes and goes, and the target's own row changes.                *)
Elsewhere ==
    /\ entitled \subseteq entitled' \/ "leave" \in weather.may
    /\ UNCHANGED <<name, link, account, run>>

Named(p) ==
    /\ \A q \in People \ {p} : name'[q] = name[q]
    /\ NotYetUsed(name'[p]) \/ "reuse" \in weather.may

EditedBy(p) ==
    /\ \A q \in People \ {p} : link'[q] = link[q]
    /\ link'[p].state = link[p].state /\ link'[p].remote = link[p].remote
    /\ link'[p].newer <=> link[p].state = "active"
    /\ run'.phase = run.phase /\ run'.names = run.names /\ run'.entitled = run.entitled
    /\ run'.todo = run.todo /\ run'.who = run.who /\ run'.reply = run.reply
    /\ run'.remote = run.remote
    /\ run.phase # "idle" => run'.edited = run.edited \cup {p}
    /\ entitled \subseteq entitled'
    /\ UNCHANGED name \/ (Named(p) /\ weather.may \cap {"rename", "reuse"} # {})
    /\ UNCHANGED account

Slowly(p) ==
    /\ "slow" \in weather.may /\ Named(p)
    /\ \A q \in People : link'[q].state = link[q].state /\ link'[q].remote = link[q].remote
    /\ UNCHANGED <<entitled, account, run>>

Forgotten ==
    /\ "forget" \in weather.may /\ link' = [p \in People |-> NoLink] /\ run' = NoRun
    /\ UNCHANGED <<name, entitled, account>>

Vanished(a) ==
    /\ "vanish" \in weather.may
    /\ account'[a].of = account[a].of /\ account'[a].name = 0 /\ ~account'[a].on
    /\ \A b \in Accounts \ {a} : account'[b] = account[b]
    /\ UNCHANGED <<name, entitled, link, run>>

Moves ==
    \/ \E p \in People :
          Requested(p) \/ RecordedFor(p) \/ MarkedGone(p) \/ EditedBy(p) \/ Slowly(p)
    \/ Started \/ Turned \/ Stopped \/ Elsewhere \/ Forgotten
    \/ \E a \in Accounts : Vanished(a)

LEMMA SentRequest ==
    ASSUME TypeOK, NEW p \in People, run.phase \in {"push", "off"},
           run.phase = "off" => link[p].remote # 0,
           ~Refused(p), Room(p), account' = [account EXCEPT ![Aim(p)] = Written(p)]
    PROVE  Sent(p, Aim(p))
<1> DEFINE a == Aim(p)
<1>0. /\ account \in [Accounts -> AccountRows] /\ link[p] \in LinkRows
      /\ a \in Accounts /\ account[a] \in AccountRows
    BY AimIsAnAccount DEF TypeOK, AccountRows, LinkRows
<1>1. account'[a] = Written(p) /\ \A b \in Accounts \ {a} : account'[b] = account[b]
    BY <1>0
<1>2. link[p].remote # 0 => a = link[p].remote /\ Exists(a)
    BY DEF Aim, Refused, Missing
<1>3. Patched(account[a], TRUE).name = account[a].name /\ Patched(account[a], TRUE).on
      /\ Patched(account[a], TRUE).of = account[a].of
      /\ Patched(account[a], FALSE).name = account[a].name /\ ~Patched(account[a], FALSE).on
      /\ Patched(account[a], FALSE).of = account[a].of
    BY <1>0 DEF Patched, AccountRows
<1>4. CreateUser(p).name = run.names[p] /\ CreateUser(p).on /\ CreateUser(p).of = p
    BY DEF CreateUser, Created, Payload
<1>5. ReplaceUser(p).name = run.names[p] /\ ReplaceUser(p).on /\ ReplaceUser(p).of = p
    BY <1>0 DEF ReplaceUser, Replaced, Payload, AccountRows
<1>6. CASE run.phase = "off"
    <2>1. Written(p) = Patched(account[a], FALSE)
        BY <1>6 DEF Written, Want, SetActive
    <2> QED
        BY <1>0, <1>1, <1>2, <1>3, <1>6, <2>1 DEF Sent
<1>7. CASE run.phase = "push" /\ link[p].remote # 0 /\ link[p].state = "deprovisioned"
    <2>1. Written(p) = Patched(account[a], TRUE)
        BY <1>7 DEF Written, Want, SetActive
    <2> QED
        BY <1>0, <1>1, <1>2, <1>3, <1>7, <2>1 DEF Sent
<1>8. CASE run.phase = "push" /\ link[p].remote # 0 /\ link[p].state # "deprovisioned"
    <2>1. Want(p) = "replace"
        BY <1>8 DEF Want
    <2>2. Written(p) = ReplaceUser(p)
        BY <2>1 DEF Written
    <2>3. Holders(run.names[p]) \subseteq {a}
        BY <1>2, <1>8, <2>1 DEF Refused, Repeats
    <2> QED
        BY <1>0, <1>1, <1>2, <1>5, <1>8, <2>2, <2>3 DEF Sent
<1>9. CASE run.phase = "push" /\ link[p].remote = 0
    <2>1. Want(p) = "create"
        BY <1>9 DEF Want
    <2>2. CASE Holders(run.names[p]) = {}
        <3>1. account[a] = Free
            BY <1>9, <2>2 DEF Aim, NewId, Unused, Room
        <3>2. Written(p) = CreateUser(p)
            BY <2>1, <2>2 DEF Written
        <3> QED
            BY <1>0, <1>1, <1>4, <1>9, <2>2, <3>1, <3>2 DEF Sent
    <2>3. CASE Holders(run.names[p]) # {}
        <3>1. a \in Holders(run.names[p])
            BY <1>9, <2>3 DEF Aim, FindUser
        <3>2. Written(p) = ReplaceUser(p)
            BY <2>1, <2>3 DEF Written
        <3> QED
            BY <1>0, <1>1, <1>5, <1>9, <3>1, <3>2 DEF Sent, Holders
    <2> QED
        BY <2>2, <2>3
<1> QED
    BY <1>6, <1>7, <1>8, <1>9

LEMMA ProceedMoves ==
    ASSUME TypeOK, NEW p \in People, Proceed(p)
    PROVE  Requested(p) \/ RecordedFor(p) \/ MarkedGone(p) \/ Stopped
<1>0. /\ link \in [People -> LinkRows] /\ run \in Runs /\ p # Nobody
      /\ account \in [Accounts -> AccountRows]
    BY BoundsAssumption DEF TypeOK, LinkRows, AccountRows, Runs
<1>1. ASSUME Request(p)
      PROVE  /\ run.phase # "idle" /\ run.phase \in {"push", "off"} /\ run.who = Nobody
             /\ p \in run.todo
             /\ run.phase = "off" => link[p].remote # 0
             /\ \A q \in People :
                   /\ link'[q].remote = link[q].remote /\ link'[q].newer = link[q].newer
                   /\ \/ link'[q].state = link[q].state
                      \/ q = p /\ link[q].state = "none" /\ link'[q].state = "pending"
             /\ link'[p].state # "none" /\ UNCHANGED <<name, entitled>>
    BY <1>0, <1>1 DEF Request, Turn, Opened, LinkRows
<1>2. ASSUME NEW answer \in {"ok", "failed", "auth"}, NEW a \in 0..MaxAccounts,
             run' = [run EXCEPT !.who = p, !.reply = answer, !.remote = a]
      PROVE  /\ RunGoesOn /\ run'.todo = run.todo /\ run'.who = p /\ run'.reply = answer
             /\ run'.remote = a
    BY <1>0, <1>2 DEF Runs, RunGoesOn
<1>3. run.remote \in 0..MaxAccounts /\ run = [run EXCEPT !.remote = run.remote]
    BY <1>0 DEF Runs
<1>4. CASE Answered(p)
    <2>1. Aim(p) \in Accounts /\ Aim(p) \in 0..MaxAccounts
        BY <1>4, AimIsAnAccount, BoundsAssumption DEF Answered, Accounts
    <2>2. Sent(p, Aim(p))
        BY <1>1, <1>4, SentRequest DEF Answered
    <2>3. RunGoesOn /\ run'.todo = run.todo /\ run'.who = p /\ run'.reply = "ok"
          /\ run'.remote = Aim(p)
        BY <1>2, <1>4, <2>1 DEF Answered
    <2> QED
        BY <1>1, <1>4, <2>1, <2>2, <2>3 DEF Answered, Requested
<1>5. CASE AnswerLost(p)
    <2>1. Aim(p) \in Accounts
        BY <1>5, AimIsAnAccount DEF AnswerLost
    <2>2. Sent(p, Aim(p))
        BY <1>1, <1>5, SentRequest DEF AnswerLost
    <2>3. RunGoesOn /\ run'.todo = run.todo /\ run'.who = p /\ run'.reply = "failed"
        BY <1>0, <1>5 DEF AnswerLost, RunGoesOn, Runs
    <2>4. "lost" \in weather.may
        BY <1>5 DEF AnswerLost, Fail
    <2> QED
        BY <1>1, <1>5, <2>1, <2>2, <2>3, <2>4 DEF AnswerLost, Requested
<1>6. CASE RefusedBy404Or500(p) \/ Down(p) \/ Unauthorized(p)
    <2>1. /\ RunGoesOn /\ run'.todo = run.todo /\ run'.who = p
          /\ run'.reply \in {"failed", "auth"} /\ UNCHANGED account
        BY <1>0, <1>6 DEF RefusedBy404Or500, Down, Unauthorized, RunGoesOn, Runs
    <2> QED
        BY <1>1, <1>6, <2>1 DEF RefusedBy404Or500, Down, Unauthorized, Requested
<1>7. CASE Record(p)
    <2>1. /\ run.who = p /\ run.reply # "none" /\ UNCHANGED <<name, entitled, account>>
          /\ link' = [link EXCEPT ![p] = Recorded(p)]
        BY <1>7 DEF Record, Awaiting
    <2>2. link'[p] = Recorded(p) /\ \A q \in People \ {p} : link'[q] = link[q]
        BY <1>0, <2>1
    <2>3. /\ run'.who = Nobody /\ run'.reply = "none"
          /\ run' = NoRun \/ (RunGoesOn /\ run'.todo \subseteq run.todo)
        <3>1. CASE run.reply = "auth"
            BY <1>7, <3>1 DEF Record, NoRun
        <3>2. CASE run.reply # "auth"
            BY <1>0, <1>7, <3>2 DEF Record, RunGoesOn, Runs
        <3> QED
            BY <3>1, <3>2
    <2>4. \/ /\ run.reply = "ok" /\ link'[p].remote = run.remote
             /\ \A q \in People \ {p} : link[q].remote # run.remote
             /\ \/ run.phase = "push" /\ link'[p].state = "active" /\ (link'[p].newer <=> p \in run.edited)
                \/ run.phase # "push" /\ link'[p].state = "deprovisioned"
          \/ /\ run.reply # "ok" /\ link'[p].remote = link[p].remote
             /\ link'[p].state \in {"failed", "orphaned"}
        <3>1. CASE run.reply # "ok"
            BY <1>0, <2>2, <3>1 DEF Recorded, LinkRows
        <3>2. CASE run.reply = "ok" /\ run.phase = "push"
            <4>1. PICK fresh \in BOOLEAN : fresh = (p \in run.edited)
                <5>1. (p \in run.edited) \in BOOLEAN
                    OBVIOUS
                <5> QED
                    BY <5>1, Zenon
            <4>2. link'[p] = [state |-> "active", remote |-> run.remote, attempts |-> 0,
                              newer |-> p \in run.edited]
                BY <2>2, <3>2 DEF Recorded
            <4>3. link'[p] = [state |-> "active", remote |-> run.remote, attempts |-> 0,
                              newer |-> fresh]
                BY <4>1, <4>2, Zenon
            <4>4. link'[p].state = "active" /\ link'[p].remote = run.remote
                  /\ link'[p].newer = fresh
                BY <4>3
            <4> QED
                BY <1>7, <3>2, <4>1, <4>4 DEF Record, ClaimedByAnother
        <3>3. CASE run.reply = "ok" /\ run.phase # "push"
            <4>1. link'[p] = [state |-> "deprovisioned", remote |-> run.remote, attempts |-> 0,
                              newer |-> FALSE]
                BY <2>2, <3>3 DEF Recorded
            <4> QED
                BY <1>7, <3>3, <4>1 DEF Record, ClaimedByAnother
        <3> QED
            BY <3>1, <3>2, <3>3
    <2> QED
        BY <2>1, <2>2, <2>3, <2>4 DEF RecordedFor
<1>8. CASE Break(p)
    BY <1>8 DEF Break, Awaiting, ClaimedByAnother, Stopped
<1>9. CASE MarkGone(p)
    BY <1>0, <1>9 DEF MarkGone, MarkedGone, RunGoesOn, LinkRows, Runs
<1> QED
    BY <1>4, <1>5, <1>6, <1>7, <1>8, <1>9 DEF Proceed

LEMMA EditedMoves ==
    ASSUME TypeOK, NEW p \in People, Edited(p)
    PROVE  /\ \A q \in People \ {p} : link'[q] = link[q]
           /\ link'[p].state = link[p].state /\ link'[p].remote = link[p].remote
           /\ link'[p].newer <=> link[p].state = "active"
           /\ run'.phase = run.phase /\ run'.names = run.names /\ run'.entitled = run.entitled
           /\ run'.todo = run.todo /\ run'.who = run.who /\ run'.reply = run.reply
           /\ run'.remote = run.remote
           /\ run.phase # "idle" => run'.edited = run.edited \cup {p}
<1>0. link \in [People -> LinkRows] /\ run \in Runs
    BY DEF TypeOK, LinkRows, Runs
<1>1. PICK b \in BOOLEAN : b = (link[p].state = "active")
    BY Zenon
<1>2. link' = [link EXCEPT ![p].newer = b]
    BY <1>1, Zenon DEF Edited
<1>3. /\ \A q \in People \ {p} : link'[q] = link[q]
      /\ link'[p].state = link[p].state /\ link'[p].remote = link[p].remote
      /\ link'[p].newer = b
    BY <1>0, <1>2 DEF LinkRows
<1>4. /\ run'.phase = run.phase /\ run'.names = run.names /\ run'.entitled = run.entitled
      /\ run'.todo = run.todo /\ run'.who = run.who /\ run'.reply = run.reply
      /\ run'.remote = run.remote
      /\ run.phase # "idle" => run'.edited = run.edited \cup {p}
    BY <1>0 DEF Edited, Runs
<1> QED
    BY <1>1, <1>3, <1>4

LEMMA DirectoryMoves ==
    ASSUME TypeOK, DirectoryChange
    PROVE  Elsewhere \/ \E p \in People : EditedBy(p) \/ Slowly(p)
<1>0. name \in [People -> Names] /\ link \in [People -> LinkRows]
    BY DEF TypeOK, LinkRows
<1>1. ASSUME NEW p \in People, Assign(p) \/ Leave(p) PROVE Elsewhere
    BY <1>1 DEF Assign, Leave, Change, Elsewhere
<1>2. ASSUME NEW p \in People, Rehire(p) PROVE EditedBy(p)
    <2>1. entitled \subseteq entitled' /\ UNCHANGED <<name, account>> /\ Edited(p)
        BY <1>2 DEF Rehire
    <2> QED
        BY <2>1, EditedMoves DEF EditedBy
<1>3. ASSUME NEW p \in People, NEW n \in Names, Rename(p, n) PROVE EditedBy(p)
    <2>1. /\ UNCHANGED <<entitled, account>> /\ Edited(p)
          /\ weather.may \cap {"rename", "reuse"} # {}
        BY <1>3 DEF Rename, Change
    <2>2. Named(p)
        BY <1>0, <1>3 DEF Rename, Change, Named, NotYetUsed
    <2> QED
        BY <2>1, <2>2, EditedMoves DEF EditedBy
<1>4. ASSUME NEW p \in People, NEW n \in Names, SlowRename(p, n) PROVE Slowly(p)
    <2>1. "slow" \in weather.may /\ Named(p) /\ UNCHANGED <<entitled, account, run>>
        BY <1>0, <1>4 DEF SlowRename, Change, Named, NotYetUsed
    <2>2. \A q \in People : link'[q].state = link[q].state /\ link'[q].remote = link[q].remote
        <3>1. PICK b : link' = [link EXCEPT ![p].newer = b]
            BY <1>4, Zenon DEF SlowRename
        <3> QED
            BY <1>0, <3>1 DEF LinkRows
    <2> QED
        BY <2>1, <2>2 DEF Slowly
<1> QED
    BY <1>1, <1>2, <1>3, <1>4 DEF DirectoryChange

LEMMA EveryMove ==
    ASSUME TypeOK, [Next]_vars
    PROVE  Moves /\ weather'.may = weather.may
<1>0. /\ run \in Runs /\ account \in [Accounts -> AccountRows]
      /\ (run.who # Nobody => run.who \in run.todo)
      /\ weather \in [may: Circumstances, changes: 0..MaxChanges, failures: 0..MaxFailures]
    BY DEF TypeOK, Runs, AccountRows
<1>1. CASE UNCHANGED vars
    BY <1>1 DEF vars, Moves, Elsewhere
<1>2. ASSUME NEW force \in BOOLEAN, Start(force) PROVE Started
    BY <1>2 DEF Start, Started, NoRun
<1>3. CASE ToLeavers
    BY <1>0, <1>3 DEF ToLeavers, Turned, Moves, Runs
<1>4. CASE Finish
    BY <1>0, <1>4 DEF Finish, Stopped, Moves
<1>5. CASE Crash
    BY <1>0, <1>5 DEF Crash, Fail, Stopped, Moves
<1>6. ASSUME NEW enabled, UpdateTarget(enabled) \/ CreateTarget(enabled) PROVE Elsewhere
    BY <1>6 DEF UpdateTarget, CreateTarget, Elsewhere
<1>7. CASE DeleteTarget
    BY <1>7 DEF DeleteTarget, Change, Forgotten, Moves
<1>8. ASSUME NEW a \in Accounts, Vanish(a) PROVE Vanished(a)
    <2>1. account' = [account EXCEPT ![a] = [@ EXCEPT !.name = 0, !.on = FALSE]]
        BY <1>8 DEF Vanish, TypeOK
    <2>2. account'[a] = [account[a] EXCEPT !.name = 0, !.on = FALSE]
        BY <1>0, <2>1
    <2> QED
        BY <1>0, <1>8, <2>1, <2>2 DEF Vanish, Change, Vanished, AccountRows
<1>9. weather'.may = weather.may
    <2>1. ASSUME NEW kind, Fail(kind) \/ Change(kind) PROVE weather'.may = weather.may
        BY <1>0, <2>1 DEF Fail, Change
    <2> QED
        BY <2>1 DEF Next, vars, Sweep, SyncTarget, Start, ToLeavers, Finish, Crash, Proceed, Answered,
               RefusedBy404Or500, AnswerLost, Down, Unauthorized, Record, Break, MarkGone,
               DirectoryChange, Assign, Rehire, Leave, Rename, SlowRename, TargetChange,
               UpdateTarget, CreateTarget, DeleteTarget, Vanish
<1> QED
    BY <1>1, <1>2, <1>3, <1>4, <1>5, <1>6, <1>7, <1>8, <1>9, ProceedMoves, DirectoryMoves
       DEF Moves, Next, Sweep, SyncTarget, TargetChange

-----------------------------------------------------------------------------
(* Rows, with what their fields can be.                                    *)
Rows ==
    /\ name \in [People -> Names] /\ entitled \subseteq People
    /\ link \in [People -> LinkRows] /\ account \in [Accounts -> AccountRows] /\ run \in Runs
    /\ run.who # Nobody => run.who \in run.todo

LEMMA RowsStep ==
    ASSUME TypeOK, [Next]_vars
    PROVE  Rows /\ Rows'
BY TypeStep, TypeParts DEF TypeOK, Rows, LinkRows, AccountRows, Runs

LEMMA NoRunFields ==
    /\ NoRun.phase = "idle" /\ NoRun.who = Nobody /\ NoRun.reply = "none" /\ NoRun.todo = {}
    /\ NoLink.state = "none" /\ NoLink.remote = 0
BY DEF NoRun, NoLink

(* A run knows whom it is waiting for, and which account of theirs.        *)
RunFits ==
    /\ run.phase = "idle" => run.who = Nobody
    /\ run.who = Nobody <=> run.reply = "none"
    /\ run.phase = "push" => run.todo \subseteq run.entitled
    /\ run.phase # "idle" => \A p \in People : run.names[p] # 0
    /\ \A p \in People : run.who = p => link[p].state # "none"
    /\ \A p \in People : run.who = p /\ run.reply = "ok" =>
           run.remote \in Accounts /\ (link[p].remote # 0 => run.remote = link[p].remote)
    /\ \A p \in People : link[p].state = "none" => link[p].remote = 0
    /\ \A p \in People : link[p].state = "active" => link[p].remote # 0

LEMMA RunFitsStep ==
    ASSUME TypeOK, RunFits, [Next]_vars
    PROVE  RunFits'
<1>0. Moves /\ Rows /\ Rows' /\ Nobody \notin People /\ 0 \notin Accounts /\ 0 \notin Names
    BY EveryMove, RowsStep, BoundsAssumption DEF Accounts, Names
<1>1. ASSUME NEW p \in People, Requested(p) PROVE RunFits'
    <2>1. ASSUME NEW a \in Accounts, Sent(p, a) PROVE link[p].remote # 0 => a = link[p].remote
        BY <2>1 DEF Sent
    <2> QED
        BY <1>0, <1>1, <2>1 DEF Requested, RunGoesOn, RunFits, Rows
<1>2. ASSUME NEW p \in People, RecordedFor(p) PROVE RunFits'
    BY <1>0, <1>2, NoRunFields DEF RecordedFor, RunGoesOn, RunFits, Rows
<1>3. ASSUME NEW p \in People, MarkedGone(p) PROVE RunFits'
    BY <1>0, <1>3 DEF MarkedGone, RunGoesOn, RunFits, Rows
<1>4. ASSUME NEW p \in People, EditedBy(p) PROVE RunFits'
    BY <1>0, <1>4 DEF EditedBy, RunFits, Rows
<1>5. ASSUME NEW p \in People, Slowly(p) PROVE RunFits'
    BY <1>0, <1>5 DEF Slowly, RunFits, Rows
<1>6. CASE Started
    BY <1>0, <1>6 DEF Started, RunFits, Rows
<1>7. CASE Turned
    BY <1>0, <1>7 DEF Turned, RunFits, Rows
<1>8. CASE Stopped
    BY <1>0, <1>8, NoRunFields DEF Stopped, RunFits, Rows
<1>9. CASE Elsewhere
    BY <1>0, <1>9 DEF Elsewhere, RunFits, Rows
<1>10. CASE Forgotten
    BY <1>0, <1>10, NoRunFields DEF Forgotten, RunFits, Rows
<1>11. ASSUME NEW a \in Accounts, Vanished(a) PROVE RunFits'
    BY <1>0, <1>11 DEF Vanished, RunFits, Rows
<1> QED
    BY <1>0, <1>1, <1>2, <1>3, <1>4, <1>5, <1>6, <1>7, <1>8, <1>9, <1>10, <1>11 DEF Moves

(* The other end tells accounts apart by userName.                         *)
UniqueNames ==
    \A a, b \in Accounts :
        account[a].name # 0 /\ account[a].name = account[b].name => a = b

LEMMA UniqueNamesStep ==
    ASSUME TypeOK, RunFits, UniqueNames, [Next]_vars
    PROVE  UniqueNames'
<1>0. Moves /\ Rows
    BY EveryMove, RowsStep
<1>1. ASSUME NEW p \in People, NEW a \in Accounts, Sent(p, a) PROVE UniqueNames'
    <2>1. \/ account'[a].name = account[a].name
          \/ \A b \in Accounts : account[b].name = account'[a].name => b = a
        BY <1>1 DEF Sent, Holders, UniqueNames
    <2> QED
        BY <1>1, <2>1 DEF Sent, UniqueNames
<1>2. ASSUME NEW p \in People, Requested(p) PROVE UniqueNames'
    BY <1>1, <1>2 DEF Requested, UniqueNames
<1>3. ASSUME NEW a \in Accounts, Vanished(a) PROVE UniqueNames'
    BY <1>3 DEF Vanished, UniqueNames
<1>4. CASE UNCHANGED account
    BY <1>4 DEF UniqueNames
<1> QED
    BY <1>0, <1>2, <1>3, <1>4 DEF Moves, RecordedFor, MarkedGone, EditedBy, Slowly, Started,
       Turned, Stopped, Elsewhere, Forgotten

-----------------------------------------------------------------------------
(* As long as nobody is given a userName another one had, userNames past   *)
(* and present tell people apart: the directory's, those a run has read    *)
(* and those at the other end.                                             *)
Apart ==
    /\ \A p, q \in People : name[p] = name[q] => p = q
    /\ run.phase # "idle" => \A p, q \in People :
          /\ run.names[p] <= name[p]
          /\ run.names[p] = run.names[q] \/ run.names[p] = name[q] => p = q
    /\ \A a \in Accounts : account[a].name # 0 =>
          /\ \E q \in People : account[a].name <= name[q]
          /\ \A p \in People : account[a].of \in People \ {p} =>
                account[a].name # name[p] /\ (run.phase # "idle" => account[a].name # run.names[p])

NamesTellApart == Without({"reuse"}) => Apart

LEMMA NamesTellApartStep ==
    ASSUME TypeOK, RunFits, NamesTellApart, [Next]_vars
    PROVE  NamesTellApart'
<1> SUFFICES ASSUME Without({"reuse"}) PROVE Apart'
    BY EveryMove DEF NamesTellApart, Without
<1>0. Moves /\ Rows /\ Rows' /\ Apart /\ Names \subseteq Nat
    BY EveryMove, RowsStep DEF NamesTellApart, Names
<1>1. ASSUME NEW p \in People, Requested(p) PROVE Apart'
    <2>1. ASSUME NEW a \in Accounts, Sent(p, a) PROVE Apart'
        <3>1. /\ UNCHANGED name /\ run'.names = run.names /\ run'.phase = run.phase
              /\ run.phase # "idle"
            BY <1>1 DEF Requested, RunGoesOn
        <3>2. \/ account'[a].name = account[a].name /\ account'[a].of = account[a].of
              \/ account'[a].name = run.names[p] /\ account'[a].of = p
            BY <2>1 DEF Sent
        <3>3. \A b \in Accounts \ {a} : account'[b] = account[b]
            BY <2>1 DEF Sent
        <3>4. \A b \in Accounts : account'[b].name # 0 =>
                 /\ \E q \in People : account'[b].name <= name[q]
                 /\ \A q \in People : account'[b].of \in People \ {q} =>
                       account'[b].name # name[q] /\ account'[b].name # run.names[q]
            BY <1>0, <3>1, <3>2, <3>3 DEF Apart
        <3> QED
            BY <1>0, <3>1, <3>4 DEF Apart
    <2>2. CASE UNCHANGED account
        BY <1>0, <1>1, <2>2 DEF Requested, RunGoesOn, Apart
    <2> QED
        BY <1>1, <2>1, <2>2 DEF Requested
<1>2. ASSUME UNCHANGED <<name, account>>, run'.phase = "idle" \/ RunGoesOn
      PROVE  Apart'
    BY <1>0, <1>2 DEF RunGoesOn, Apart
<1>3. ASSUME NEW p \in People, RecordedFor(p) \/ MarkedGone(p) PROVE Apart'
    BY <1>2, <1>3, NoRunFields DEF RecordedFor, MarkedGone
<1>4. ASSUME NEW p \in People, Named(p), UNCHANGED account,
             run'.phase = run.phase, run'.names = run.names
      PROVE  Apart'
    <2>1. /\ \A q \in People \ {p} : name'[q] = name[q]
          /\ \A q \in People : name[q] < name'[p]
        BY <1>4 DEF Named, NotYetUsed, Without
    <2>2. \A q \in People : name[q] \in Nat /\ name'[q] \in Nat /\ run.names[q] \in Nat
        BY <1>0 DEF Rows, Runs, Names
    <2>3. \A a \in Accounts : account[a].name \in Nat
        BY <1>0 DEF Rows, AccountRows
    <2>4. \A q, r \in People : name'[q] = name'[r] => q = r
        BY <1>0, <2>1, <2>2 DEF Apart
    <2>5. run.phase # "idle" => \A q, r \in People :
              /\ run.names[q] <= name'[q]
              /\ run.names[q] = run.names[r] \/ run.names[q] = name'[r] => q = r
        <3>1. ASSUME run.phase # "idle", NEW q \in People
              PROVE  run.names[q] <= name[q] /\ run.names[q] <= name'[q] /\ run.names[q] # name'[p]
            BY <1>0, <2>1, <2>2, <3>1 DEF Apart
        <3> QED
            BY <1>0, <2>1, <3>1 DEF Apart
    <2>6. \A a \in Accounts : account[a].name # 0 =>
              /\ \E q \in People : account[a].name <= name'[q]
              /\ \A q \in People : account[a].of \in People \ {q} =>
                    account[a].name # name'[q] /\ (run.phase # "idle" => account[a].name # run.names[q])
        <3> SUFFICES ASSUME NEW a \in Accounts, account[a].name # 0
                     PROVE  /\ \E q \in People : account[a].name <= name'[q]
                            /\ \A q \in People : account[a].of \in People \ {q} =>
                                  /\ account[a].name # name'[q]
                                  /\ run.phase # "idle" => account[a].name # run.names[q]
            OBVIOUS
        <3>1. account[a].name < name'[p]
            BY <1>0, <2>1, <2>2, <2>3 DEF Apart
        <3> QED
            BY <1>0, <2>1, <2>2, <2>3, <3>1 DEF Apart
    <2> QED
        BY <1>4, <2>4, <2>5, <2>6 DEF Apart
<1>5. ASSUME NEW p \in People, EditedBy(p) PROVE Apart'
    <2>1. CASE UNCHANGED name
        BY <1>0, <1>5, <2>1 DEF EditedBy, Apart
    <2> QED
        BY <1>4, <1>5, <2>1 DEF EditedBy
<1>6. ASSUME NEW p \in People, Slowly(p) PROVE Apart'
    BY <1>4, <1>6 DEF Slowly
<1>7. CASE Started
    <2>1. \A q \in People : name[q] <= name[q]
        BY <1>0 DEF Rows, Names
    <2> QED
        BY <1>0, <1>7, <2>1 DEF Started, Apart
<1>8. CASE Turned \/ Elsewhere
    BY <1>0, <1>8 DEF Turned, Elsewhere, Apart
<1>9. CASE Stopped \/ Forgotten
    BY <1>2, <1>9, NoRunFields DEF Stopped, Forgotten
<1>10. ASSUME NEW a \in Accounts, Vanished(a) PROVE Apart'
    BY <1>0, <1>10 DEF Vanished, Apart
<1> QED
    BY <1>0, <1>1, <1>3, <1>5, <1>6, <1>7, <1>8, <1>9, <1>10 DEF Moves

-----------------------------------------------------------------------------
(* As long as nobody is given a userName another one had, an account that  *)
(* a link names, or a run has been given, is that person's.                *)
Owned ==
    /\ \A p \in People : link[p].remote # 0 => account[link[p].remote].of = p
    /\ \A p \in People : run.who = p /\ run.reply = "ok" => account[run.remote].of = p

OwnersStay == Without({"reuse"}) => Owned

(* What is sent for somebody goes to nobody else's account.                *)
LEMMA SentToTheirOwn ==
    ASSUME Rows, RunFits, Apart, Owned, NEW p \in People, run.phase # "idle",
           NEW a \in Accounts, Sent(p, a)
    PROVE  /\ account'[a].of = p /\ account[a].of \in {p, Nobody}
           /\ \A q \in People \ {p} : link[q].remote # a
<1>0. Nobody \notin People /\ 0 \notin Accounts /\ account[a] \in AccountRows
    BY BoundsAssumption DEF Accounts, Rows
<1>1. CASE link[p].remote = a
    BY <1>0, <1>1 DEF Sent, Owned
<1>2. CASE account[a].name = run.names[p] /\ link[p].remote = 0
    <2>1. account[a].of \in {p, Nobody}
        BY <1>0, <1>2 DEF RunFits, Apart, AccountRows
    <2> QED
        BY <1>0, <1>2, <2>1 DEF Sent, Owned
<1>3. CASE account[a] = Free /\ link[p].remote = 0
    BY <1>0, <1>3 DEF Sent, Owned, Free
<1> QED
    BY <1>1, <1>2, <1>3 DEF Sent

LEMMA OwnersStayStep ==
    ASSUME TypeOK, RunFits, NamesTellApart, OwnersStay, [Next]_vars
    PROVE  OwnersStay'
<1> SUFFICES ASSUME Without({"reuse"}) PROVE Owned'
    BY EveryMove DEF OwnersStay, Without
<1>0. Moves /\ Rows /\ Apart /\ Owned /\ Nobody \notin People /\ 0 \notin Accounts
      /\ \A p \in People : link[p].remote # 0 => link[p].remote \in Accounts
    BY EveryMove, RowsStep, BoundsAssumption
       DEF OwnersStay, NamesTellApart, Accounts, Rows, LinkRows
<1>1. ASSUME NEW p \in People, Requested(p) PROVE Owned'
    <2>1. ASSUME NEW a \in Accounts, Sent(p, a), run'.reply = "ok" => run'.remote = a
          PROVE  Owned'
        <3>1. /\ account'[a].of = p /\ \A q \in People \ {p} : link[q].remote # a
              /\ \A b \in Accounts \ {a} : account'[b] = account[b]
              /\ link[p].remote # 0 => link[p].remote = a
            BY <1>0, <1>1, <2>1, SentToTheirOwn DEF Requested, Sent
        <3>2. \A q \in People : link[q].remote # 0 => account'[link[q].remote].of = q
            BY <1>0, <3>1 DEF Owned
        <3>3. run'.who = p /\ \A q \in People : link'[q].remote = link[q].remote
            BY <1>1 DEF Requested
        <3> QED
            BY <2>1, <3>1, <3>2, <3>3 DEF Owned
    <2>2. CASE UNCHANGED account /\ run'.reply # "ok"
        BY <1>0, <1>1, <2>2 DEF Requested, Owned
    <2> QED
        BY <1>1, <2>1, <2>2 DEF Requested
<1>2. ASSUME NEW p \in People, RecordedFor(p) PROVE Owned'
    BY <1>0, <1>2 DEF RecordedFor, Owned
<1>3. ASSUME NEW p \in People, MarkedGone(p) \/ EditedBy(p) \/ Slowly(p) PROVE Owned'
    BY <1>0, <1>3 DEF MarkedGone, EditedBy, Slowly, Owned
<1>4. CASE Started \/ Turned \/ Elsewhere
    <2>1. run'.remote = run.remote \/ run'.reply # "ok"
        BY <1>0, <1>4 DEF Started, Turned, Elsewhere, RunFits, Rows
    <2> QED
        BY <1>0, <1>4, <2>1 DEF Started, Turned, Elsewhere, Owned
<1>5. CASE Stopped \/ Forgotten
    BY <1>0, <1>5, NoRunFields DEF Stopped, Forgotten, Owned
<1>6. ASSUME NEW a \in Accounts, Vanished(a) PROVE Owned'
    BY <1>0, <1>6 DEF Vanished, Owned, RunFits
<1> QED
    BY <1>0, <1>1, <1>2, <1>3, <1>4, <1>5, <1>6 DEF Moves

LEMMA OnePersonStep ==
    ASSUME TypeOK, OnePersonPerAccount, [Next]_vars
    PROVE  OnePersonPerAccount'
<1>0. Moves
    BY EveryMove
<1>1. ASSUME NEW p \in People, RecordedFor(p) PROVE OnePersonPerAccount'
    BY <1>1 DEF RecordedFor, OnePersonPerAccount
<1>2. CASE Forgotten
    BY <1>2, NoRunFields DEF Forgotten, OnePersonPerAccount
<1>3. CASE \A q \in People : link'[q].remote = link[q].remote
    BY <1>3 DEF OnePersonPerAccount
<1> QED
    BY <1>0, <1>1, <1>2, <1>3 DEF Moves, Requested, MarkedGone, EditedBy, Slowly, Started,
       Turned, Stopped, Elsewhere, Vanished

(* A run is broken off for another person's account only where userNames   *)
(* are taken again.                                                        *)
LEMMA NotClaimed ==
    ASSUME Rows, RunFits, Without({"reuse"}), OwnersStay, NEW p \in People,
           run.who = p, run.reply = "ok", NEW q \in People \ {p}
    PROVE  link[q].remote # run.remote
<1>1. run.remote \in Accounts /\ 0 \notin Accounts
    BY DEF RunFits, Accounts
<1> QED
    BY <1>1 DEF OwnersStay, Owned

-----------------------------------------------------------------------------
(* What was pushed is switched on until a leaver's turn comes.             *)
OnUntilTheyLeave ==
    Without({"crash", "vanish", "reuse"}) => \A p \in People :
        /\ link[p].state = "active" /\ run.who # p => account[link[p].remote].on
        /\ run.who = p /\ run.reply = "ok" /\ run.phase = "push" => account[run.remote].on

LEMMA OnUntilTheyLeaveStep ==
    ASSUME TypeOK, RunFits, NamesTellApart, OwnersStay, OnUntilTheyLeave, [Next]_vars
    PROVE  OnUntilTheyLeave'
<1> DEFINE Goal == \A p \in People :
        /\ link[p].state = "active" /\ run.who # p => account[link[p].remote].on
        /\ run.who = p /\ run.reply = "ok" /\ run.phase = "push" => account[run.remote].on
<1> SUFFICES ASSUME Without({"crash", "vanish", "reuse"}) PROVE Goal'
    BY EveryMove DEF OnUntilTheyLeave, Without
<1>0. /\ Moves /\ Rows /\ Apart /\ Owned /\ Goal /\ Nobody \notin People /\ 0 \notin Accounts
      /\ Without({"reuse"}) /\ "crash" \notin weather.may /\ "vanish" \notin weather.may
      /\ \A p \in People : link[p].remote # 0 => link[p].remote \in Accounts
    BY EveryMove, RowsStep, BoundsAssumption
       DEF OwnersStay, NamesTellApart, OnUntilTheyLeave, Without, Accounts, Rows, LinkRows
<1>1. ASSUME NEW p \in People, Requested(p) PROVE Goal'
    <2>0. \A q \in People \ {p} : link'[q].state = link[q].state /\ link'[q].remote = link[q].remote
        BY <1>1 DEF Requested
    <2>1. ASSUME NEW a \in Accounts, Sent(p, a) PROVE Goal'
        <3>1. /\ \A q \in People \ {p} : link[q].remote # a
              /\ \A b \in Accounts \ {a} : account'[b] = account[b]
            BY <1>0, <1>1, <2>1, SentToTheirOwn DEF Requested, Sent
        <3>2. \A q \in People \ {p} : link[q].state = "active" => account'[link[q].remote].on
            BY <1>0, <1>1, <3>1 DEF Requested, RunFits
        <3>3. run'.reply = "ok" /\ run'.phase = "push" => account'[run'.remote].on
            <4>1. run'.reply = "ok" => \E b \in Accounts : Sent(p, b) /\ run'.remote = b
                BY <1>1, <2>1 DEF Requested, Sent
            <4> QED
                BY <1>1, <4>1 DEF Requested, RunGoesOn, Sent
        <3> QED
            BY <1>1, <2>0, <3>2, <3>3 DEF Requested
    <2>2. CASE UNCHANGED account /\ run'.reply # "ok"
        BY <1>0, <1>1, <2>0, <2>2 DEF Requested
    <2> QED
        BY <1>1, <2>1, <2>2 DEF Requested
<1>2. ASSUME NEW p \in People, RecordedFor(p) PROVE Goal'
    BY <1>0, <1>2 DEF RecordedFor
<1>3. ASSUME NEW p \in People, MarkedGone(p) \/ EditedBy(p) \/ Slowly(p) PROVE Goal'
    BY <1>0, <1>3 DEF MarkedGone, EditedBy, Slowly
<1>4. CASE Started \/ Turned \/ Elsewhere
    <2>1. run'.who = Nobody \/ run' = run
        BY <1>0, <1>4 DEF Started, Turned, Elsewhere, Rows
    <2>2. run.who = Nobody \/ run' = run
        BY <1>0, <1>4 DEF Started, Turned, Elsewhere, RunFits, Rows
    <2> QED
        BY <1>0, <1>4, <2>1, <2>2 DEF Started, Turned, Elsewhere
<1>5. CASE Stopped
    <2>1. run.who = Nobody
        BY <1>0, <1>5, NotClaimed DEF Stopped, Rows, Runs
    <2> QED
        BY <1>0, <1>5, <2>1, NoRunFields DEF Stopped
<1>6. CASE Forgotten
    BY <1>6, <1>0, NoRunFields DEF Forgotten
<1>7. ASSUME NEW a \in Accounts PROVE ~Vanished(a)
    BY <1>0 DEF Vanished
<1> QED
    BY <1>0, <1>1, <1>2, <1>3, <1>4, <1>5, <1>6, <1>7 DEF Moves

(* As long as userNames stay, an account has the userName of its person.   *)
NamesStay ==
    Without({"rename", "slow", "reuse"}) =>
        /\ run.phase # "idle" => \A p \in People : run.names[p] = name[p]
        /\ \A a \in Accounts, p \in People :
              account[a].of = p /\ account[a].name # 0 => account[a].name = name[p]

(* As long as no account is deleted, whoever's account it is, it exists.   *)
NoneVanished ==
    Without({"vanish"}) => \A a \in Accounts : account[a].of \in People => account[a].name # 0

LEMMA NamesStayStep ==
    ASSUME TypeOK, NamesStay, [Next]_vars
    PROVE  NamesStay'
<1> DEFINE Goal ==
        /\ run.phase # "idle" => \A p \in People : run.names[p] = name[p]
        /\ \A a \in Accounts, p \in People :
              account[a].of = p /\ account[a].name # 0 => account[a].name = name[p]
<1> SUFFICES ASSUME Without({"rename", "slow", "reuse"}) PROVE Goal'
    BY EveryMove DEF NamesStay, Without
<1>0. Moves /\ Rows /\ Goal /\ Without({"rename", "reuse"}) /\ "slow" \notin weather.may
    BY EveryMove, RowsStep DEF NamesStay, Without
<1>1. ASSUME NEW p \in People, Requested(p) PROVE Goal'
    <2>1. ASSUME NEW a \in Accounts, Sent(p, a)
          PROVE  \A b \in Accounts, q \in People :
                     account'[b].of = q /\ account'[b].name # 0 => account'[b].name = name[q]
        BY <1>0, <1>1, <2>1 DEF Requested, Sent
    <2> QED
        BY <1>0, <1>1, <2>1 DEF Requested, RunGoesOn
<1>2. ASSUME NEW p \in People, RecordedFor(p) \/ MarkedGone(p) PROVE Goal'
    BY <1>0, <1>2, NoRunFields DEF RecordedFor, MarkedGone, RunGoesOn
<1>3. ASSUME NEW p \in People, EditedBy(p) PROVE Goal'
    BY <1>0, <1>3 DEF EditedBy, Without
<1>4. ASSUME NEW p \in People PROVE ~Slowly(p)
    BY <1>0 DEF Slowly
<1>5. CASE Started \/ Turned \/ Elsewhere
    BY <1>0, <1>5 DEF Started, Turned, Elsewhere
<1>6. CASE Stopped \/ Forgotten
    BY <1>0, <1>6, NoRunFields DEF Stopped, Forgotten
<1>7. ASSUME NEW a \in Accounts, Vanished(a) PROVE Goal'
    BY <1>0, <1>7 DEF Vanished
<1> QED
    BY <1>0, <1>1, <1>2, <1>3, <1>4, <1>5, <1>6, <1>7 DEF Moves

LEMMA NoneVanishedStep ==
    ASSUME TypeOK, RunFits, NoneVanished, [Next]_vars
    PROVE  NoneVanished'
<1> SUFFICES ASSUME Without({"vanish"})
             PROVE  \A a \in Accounts : account'[a].of \in People => account'[a].name # 0
    BY EveryMove DEF NoneVanished, Without
<1>0. /\ Moves /\ Rows /\ "vanish" \notin weather.may
      /\ \A a \in Accounts : account[a].of \in People => account[a].name # 0
    BY EveryMove, RowsStep DEF NoneVanished, Without
<1>1. ASSUME NEW p \in People, Requested(p)
      PROVE  \A a \in Accounts : account'[a].of \in People => account'[a].name # 0
    <2>1. ASSUME NEW a \in Accounts, Sent(p, a) PROVE account'[a].name # 0
        BY <1>1, <2>1 DEF Requested, Sent, RunFits, Exists
    <2> QED
        BY <1>0, <1>1, <2>1 DEF Requested, Sent
<1>2. CASE UNCHANGED account
    BY <1>0, <1>2
<1> QED
    BY <1>0, <1>1, <1>2 DEF Moves, RecordedFor, MarkedGone, EditedBy, Slowly, Started,
       Turned, Stopped, Elsewhere, Forgotten, Vanished

-----------------------------------------------------------------------------
(* An account that was switched off for a leaver stays off for them.       *)
OffForLeavers ==
    Without({"crash"}) => \A p \in People :
        /\ link[p].state = "deprovisioned" /\ link[p].remote # 0 /\ run.who # p =>
               link[p].remote \notin OnFor(p)
        /\ run.who = p /\ run.reply = "ok" /\ run.phase = "off" => run.remote \notin OnFor(p)

LEMMA OffForLeaversStep ==
    ASSUME TypeOK, RunFits, OnePersonPerAccount, OffForLeavers, [Next]_vars
    PROVE  OffForLeavers'
<1> DEFINE Off(a, p) == ~(account[a].of = p /\ account[a].on)
           Goal == \A p \in People :
        /\ link[p].state = "deprovisioned" /\ link[p].remote # 0 /\ run.who # p =>
               Off(link[p].remote, p)
        /\ run.who = p /\ run.reply = "ok" /\ run.phase = "off" => Off(run.remote, p)
<1>a. \A p \in People : link[p].remote # 0 => link[p].remote \in Accounts
    BY RowsStep, BoundsAssumption DEF Accounts, Rows, LinkRows
<1>b. \A p \in People : link'[p].remote # 0 => link'[p].remote \in Accounts
    BY RowsStep, BoundsAssumption DEF Accounts, Rows, LinkRows
<1>c. RunFits'
    BY RunFitsStep
<1> SUFFICES ASSUME Without({"crash"}) PROVE Goal'
    BY <1>a, <1>b, <1>c, EveryMove DEF OffForLeavers, Without, OnFor
<1>0. /\ Moves /\ Rows /\ Goal /\ Nobody \notin People /\ 0 \notin Accounts
      /\ "crash" \notin weather.may
    BY <1>a, EveryMove, RowsStep, BoundsAssumption
       DEF OffForLeavers, OnFor, Without, Accounts, RunFits
<1>1. ASSUME NEW p \in People, Requested(p) PROVE Goal'
    <2>0. /\ run'.who = p /\ run'.phase = run.phase
          /\ \A q \in People \ {p} : link'[q].state = link[q].state /\ link'[q].remote = link[q].remote
        BY <1>1 DEF Requested, RunGoesOn
    <2>1. ASSUME NEW a \in Accounts, Sent(p, a), run'.reply = "ok" => run'.remote = a
          PROVE  Goal'
        <3>1. \A q \in People \ {p} : link[q].state = "deprovisioned" /\ link[q].remote # 0 =>
                  ~(account'[link[q].remote].of = q /\ account'[link[q].remote].on)
            <4> SUFFICES ASSUME NEW q \in People \ {p}, link[q].state = "deprovisioned",
                                link[q].remote # 0
                         PROVE  ~(account'[link[q].remote].of = q /\ account'[link[q].remote].on)
                OBVIOUS
            <4>1. ~(account[link[q].remote].of = q /\ account[link[q].remote].on)
                BY <1>0, <1>1 DEF Requested
            <4>2. CASE link[q].remote # a
                BY <1>a, <2>1, <4>1, <4>2 DEF Sent
            <4>3. CASE link[q].remote = a
                <5>1. link[p].remote # a
                    BY <1>0, <4>3 DEF OnePersonPerAccount
                <5> QED
                    BY <2>1, <4>3, <5>1 DEF Sent
            <4> QED
                BY <4>2, <4>3
        <3>2. run.phase = "off" => ~account'[a].on
            BY <2>1 DEF Sent
        <3> QED
            BY <1>0, <2>0, <2>1, <3>1, <3>2
    <2>2. CASE UNCHANGED account /\ run'.reply # "ok"
        BY <1>0, <1>1, <2>0, <2>2 DEF Requested
    <2> QED
        BY <1>1, <2>1, <2>2 DEF Requested
<1>2. ASSUME NEW p \in People, RecordedFor(p) PROVE Goal'
    <2>1. run.phase \in {"push", "off"}
        BY <1>0, <1>2 DEF RecordedFor, RunFits, Rows, Runs
    <2> QED
        BY <1>0, <1>2, <2>1 DEF RecordedFor
<1>3. ASSUME NEW p \in People, MarkedGone(p) PROVE Goal'
    BY <1>0, <1>3 DEF MarkedGone
<1>4. ASSUME NEW p \in People, EditedBy(p) \/ Slowly(p) PROVE Goal'
    BY <1>0, <1>4 DEF EditedBy, Slowly
<1>5. CASE Started \/ Turned \/ Elsewhere
    <2>1. run'.who = Nobody \/ run' = run
        BY <1>0, <1>5 DEF Started, Turned, Elsewhere, Rows
    <2>2. run.who = Nobody \/ run' = run
        BY <1>0, <1>5 DEF Started, Turned, Elsewhere, RunFits, Rows
    <2> QED
        BY <1>0, <1>5, <2>1, <2>2 DEF Started, Turned, Elsewhere
<1>6. CASE Stopped
    <2>1. run'.who = Nobody /\ UNCHANGED <<link, account>>
        BY <1>6, NoRunFields DEF Stopped
    <2>2. ASSUME NEW p \in People, run.who = p, link[p].remote # 0 PROVE FALSE
        <3>1. run.reply = "ok" /\ \E q \in People \ {p} : link[q].remote = run.remote
            BY <1>0, <1>6, <2>2 DEF Stopped
        <3>2. run.remote = link[p].remote
            BY <2>2, <3>1 DEF RunFits
        <3> QED
            BY <2>2, <3>1, <3>2 DEF OnePersonPerAccount
    <2> QED
        BY <1>0, <2>1, <2>2
<1>7. CASE Forgotten
    BY <1>0, <1>7, NoRunFields DEF Forgotten
<1>8. ASSUME NEW a \in Accounts, Vanished(a) PROVE Goal'
    <2>1. \A b \in Accounts, p \in People : Off(b, p) => ~(account'[b].of = p /\ account'[b].on)
        BY <1>8 DEF Vanished
    <2>2. UNCHANGED <<link, run>>
        BY <1>8 DEF Vanished
    <2>3. \A p \in People : run.who = p /\ run.reply = "ok" => run.remote \in Accounts
        BY DEF RunFits
    <2> QED
        BY <1>a, <1>0, <2>1, <2>2, <2>3
<1> QED
    BY <1>0, <1>1, <1>2, <1>3, <1>4, <1>5, <1>6, <1>7, <1>8 DEF Moves

(* As long as no answer is lost and no run dies, whoever has an account    *)
(* has it on their link, once it is recorded.                              *)
Traced ==
    Without({"lost", "crash", "forget", "reuse"}) => \A p \in People :
        /\ \A a \in Accounts : account[a].of = p =>
              link[p].remote = a \/ (run.who = p /\ run.reply = "ok" /\ run.remote = a)
        /\ link[p].state = "pending" => run.who = p

LEMMA TracedStep ==
    ASSUME TypeOK, RunFits, NamesTellApart, OwnersStay, Traced, [Next]_vars
    PROVE  Traced'
<1> DEFINE Goal == \A p \in People :
        /\ \A a \in Accounts : account[a].of = p =>
              link[p].remote = a \/ (run.who = p /\ run.reply = "ok" /\ run.remote = a)
        /\ link[p].state = "pending" => run.who = p
<1> SUFFICES ASSUME Without({"lost", "crash", "forget", "reuse"}) PROVE Goal'
    BY EveryMove DEF Traced, Without
<1>0. /\ Moves /\ Rows /\ Apart /\ Owned /\ Goal /\ Nobody \notin People /\ 0 \notin Accounts
      /\ Without({"reuse"}) /\ "crash" \notin weather.may /\ "lost" \notin weather.may
      /\ "forget" \notin weather.may
    BY EveryMove, RowsStep, BoundsAssumption
       DEF OwnersStay, NamesTellApart, Traced, Without, Accounts
<1>1. ASSUME NEW p \in People, Requested(p) PROVE Goal'
    <2>0. /\ run.who = Nobody /\ run'.who = p
          /\ \A q \in People : link'[q].remote = link[q].remote
          /\ \A q \in People \ {p} : link'[q].state = link[q].state
        BY <1>1 DEF Requested
    <2>1. \A q \in People : \A a \in Accounts : account[a].of = q => link[q].remote = a
        BY <1>0, <2>0
    <2>2. ASSUME NEW a \in Accounts, Sent(p, a), run'.reply = "ok", run'.remote = a
          PROVE  Goal'
        <3>1. /\ account'[a].of = p
              /\ \A b \in Accounts \ {a} : account'[b] = account[b]
            BY <1>0, <1>1, <2>2, SentToTheirOwn DEF Requested, Sent
        <3> QED
            BY <1>0, <2>0, <2>1, <2>2, <3>1
    <2>3. CASE UNCHANGED account
        BY <1>0, <2>0, <2>1, <2>3
    <2> QED
        BY <1>0, <1>1, <2>2, <2>3 DEF Requested
<1>2. ASSUME NEW p \in People, RecordedFor(p) PROVE Goal'
    <2>1. run.reply = "ok" => link[p].remote = 0 \/ link[p].remote = run.remote
        BY <1>2 DEF RecordedFor, RunFits
    <2> QED
        BY <1>0, <1>2, <2>1 DEF RecordedFor
<1>3. ASSUME NEW p \in People, MarkedGone(p) PROVE Goal'
    BY <1>0, <1>3 DEF MarkedGone
<1>4. ASSUME NEW p \in People, EditedBy(p) \/ Slowly(p) PROVE Goal'
    BY <1>0, <1>4 DEF EditedBy, Slowly
<1>5. CASE Started \/ Turned \/ Elsewhere
    <2>1. run.who = Nobody \/ run' = run
        BY <1>0, <1>5 DEF Started, Turned, Elsewhere, RunFits, Rows
    <2> QED
        BY <1>0, <1>5, <2>1 DEF Started, Turned, Elsewhere
<1>6. CASE Stopped
    <2>1. run.who = Nobody
        BY <1>0, <1>6, NotClaimed DEF Stopped, Rows, Runs
    <2> QED
        BY <1>0, <1>6, <2>1 DEF Stopped
<1>7. ~Forgotten
    BY <1>0 DEF Forgotten
<1>8. ASSUME NEW a \in Accounts, Vanished(a) PROVE Goal'
    BY <1>0, <1>8 DEF Vanished
<1> QED
    BY <1>0, <1>1, <1>2, <1>3, <1>4, <1>5, <1>6, <1>7, <1>8 DEF Moves

-----------------------------------------------------------------------------
(* As long as nobody leaves, nobody is switched off: whoever has a link or *)
(* an account is entitled to it.                                           *)
NobodyLeft ==
    Without({"leave"}) =>
        /\ run.phase # "idle" => run.entitled \subseteq entitled
        /\ run.phase = "off" => run.todo = {}
        /\ \A p \in People : link[p].state # "none" =>
              /\ link[p].state # "deprovisioned" /\ p \in entitled
              /\ run.phase # "idle" => p \in run.entitled
        /\ \A a \in Accounts : account[a].of \in People => account[a].of \in entitled

LEMMA NobodyLeftStep ==
    ASSUME TypeOK, RunFits, NobodyLeft, [Next]_vars
    PROVE  NobodyLeft'
<1> DEFINE Goal ==
        /\ run.phase # "idle" => run.entitled \subseteq entitled
        /\ run.phase = "off" => run.todo = {}
        /\ \A p \in People : link[p].state # "none" =>
              /\ link[p].state # "deprovisioned" /\ p \in entitled
              /\ run.phase # "idle" => p \in run.entitled
        /\ \A a \in Accounts : account[a].of \in People => account[a].of \in entitled
<1> SUFFICES ASSUME Without({"leave"}) PROVE Goal'
    BY EveryMove DEF NobodyLeft, Without
<1>0. Moves /\ Rows /\ Goal /\ Nobody \notin People /\ "leave" \notin weather.may
    BY EveryMove, RowsStep, BoundsAssumption DEF NobodyLeft, Without
<1>1. ASSUME NEW p \in People, Requested(p) PROVE Goal'
    <2>1. p \in run.entitled /\ p \in entitled /\ run.phase = "push"
        BY <1>0, <1>1 DEF Requested, RunFits, Rows, Runs
    <2>2. ASSUME NEW a \in Accounts, Sent(p, a)
          PROVE  \A b \in Accounts : account'[b].of \in People => account'[b].of \in entitled
        BY <1>0, <2>1, <2>2 DEF Sent
    <2>3. \A a \in Accounts : account'[a].of \in People => account'[a].of \in entitled
        BY <1>0, <1>1, <2>2 DEF Requested
    <2>4. \A q \in People : link'[q].state # "none" =>
              link'[q].state # "deprovisioned" /\ q \in entitled /\ q \in run.entitled
        BY <1>0, <1>1, <2>1 DEF Requested
    <2> QED
        BY <1>0, <1>1, <2>1, <2>3, <2>4 DEF Requested, RunGoesOn
<1>2. ASSUME NEW p \in People, RecordedFor(p) PROVE Goal'
    <2>1. run.phase = "push" /\ link[p].state # "none"
        BY <1>0, <1>2 DEF RecordedFor, RunFits, Rows, Runs
    <2>2. \A q \in People : link'[q].state # "none" =>
              link'[q].state # "deprovisioned" /\ q \in entitled /\ q \in run.entitled
        BY <1>0, <1>2, <2>1 DEF RecordedFor
    <2> QED
        BY <1>0, <1>2, <2>1, <2>2, NoRunFields DEF RecordedFor, RunGoesOn
<1>3. ASSUME NEW p \in People PROVE ~MarkedGone(p)
    BY <1>0 DEF MarkedGone
<1>4. ASSUME NEW p \in People, EditedBy(p) PROVE Goal'
    BY <1>0, <1>4 DEF EditedBy
<1>5. ASSUME NEW p \in People, Slowly(p) PROVE Goal'
    BY <1>0, <1>5 DEF Slowly
<1>6. CASE Started
    BY <1>0, <1>6 DEF Started
<1>7. CASE Turned
    BY <1>0, <1>7 DEF Turned, Leaver
<1>8. CASE Stopped \/ Forgotten
    BY <1>0, <1>8, NoRunFields DEF Stopped, Forgotten
<1>9. CASE Elsewhere
    BY <1>0, <1>9 DEF Elsewhere
<1>10. ASSUME NEW a \in Accounts, Vanished(a) PROVE Goal'
    BY <1>0, <1>10 DEF Vanished
<1> QED
    BY <1>0, <1>1, <1>2, <1>3, <1>4, <1>5, <1>6, <1>7, <1>8, <1>9, <1>10 DEF Moves

(* Nor is any account of theirs.                                           *)
OnForGood ==
    Without({"leave", "vanish"}) =>
        \A a \in Accounts : account[a].of \in People => account[a].on

LEMMA OnForGoodStep ==
    ASSUME TypeOK, RunFits, NobodyLeft, OnForGood, [Next]_vars
    PROVE  OnForGood'
<1> SUFFICES ASSUME Without({"leave", "vanish"})
             PROVE  \A a \in Accounts : account'[a].of \in People => account'[a].on
    BY EveryMove DEF OnForGood, Without
<1>0. /\ Moves /\ Without({"leave"}) /\ "vanish" \notin weather.may
      /\ \A a \in Accounts : account[a].of \in People => account[a].on
    BY EveryMove DEF OnForGood, Without
<1>1. ASSUME NEW p \in People, Requested(p)
      PROVE  \A a \in Accounts : account'[a].of \in People => account'[a].on
    <2>1. run.phase # "off"
        BY <1>0, <1>1 DEF Requested, NobodyLeft
    <2>2. ASSUME NEW a \in Accounts, Sent(p, a) PROVE account'[a].on
        BY <2>1, <2>2 DEF Sent
    <2> QED
        BY <1>0, <1>1, <2>2 DEF Requested, Sent
<1>2. CASE UNCHANGED account
    BY <1>0, <1>2
<1> QED
    BY <1>0, <1>1, <1>2 DEF Moves, RecordedFor, MarkedGone, EditedBy, Slowly, Started,
       Turned, Stopped, Elsewhere, Forgotten, Vanished

(* What was changed since a run read it is newer than what the run stamps. *)
NamesFollow ==
    Without({"leave", "slow", "vanish", "reuse"}) => \A p \in People :
        /\ run.phase # "idle" /\ p \notin run.edited => run.names[p] = name[p]
        /\ run.phase # "idle" /\ p \in run.edited /\ link[p].state = "active" => link[p].newer
        /\ run.who = p /\ run.reply = "ok" => account[run.remote].name = run.names[p]
        /\ link[p].state = "active" /\ ~link[p].newer => account[link[p].remote].name = name[p]

LEMMA NamesFollowStep ==
    ASSUME TypeOK, RunFits, NamesTellApart, OwnersStay, NobodyLeft, NamesFollow, [Next]_vars
    PROVE  NamesFollow'
<1> DEFINE Goal == \A p \in People :
        /\ run.phase # "idle" /\ p \notin run.edited => run.names[p] = name[p]
        /\ run.phase # "idle" /\ p \in run.edited /\ link[p].state = "active" => link[p].newer
        /\ run.who = p /\ run.reply = "ok" => account[run.remote].name = run.names[p]
        /\ link[p].state = "active" /\ ~link[p].newer => account[link[p].remote].name = name[p]
<1> SUFFICES ASSUME Without({"leave", "slow", "vanish", "reuse"}) PROVE Goal'
    BY EveryMove DEF NamesFollow, Without
<1>0. /\ Moves /\ Rows /\ Apart /\ Owned /\ Goal /\ Nobody \notin People /\ 0 \notin Accounts
      /\ Without({"leave"}) /\ "slow" \notin weather.may /\ "vanish" \notin weather.may
      /\ \A p \in People : link[p].remote # 0 => link[p].remote \in Accounts
    BY EveryMove, RowsStep, BoundsAssumption
       DEF NamesFollow, NamesTellApart, OwnersStay, Without, Accounts, Rows, LinkRows
<1>1. ASSUME NEW p \in People, Requested(p) PROVE Goal'
    <2>0. /\ run.phase # "idle" /\ run'.who = p /\ RunGoesOn /\ UNCHANGED name
          /\ \A q \in People : /\ link'[q].remote = link[q].remote /\ link'[q].newer = link[q].newer
                               /\ link'[q].state = "active" => link[q].state = "active"
        BY <1>1 DEF Requested
    <2>1. run.phase # "off" /\ link[p].state # "deprovisioned"
        BY <1>0, <1>1 DEF Requested, NobodyLeft
    <2>2. ASSUME NEW a \in Accounts, Sent(p, a), run'.reply = "ok" => run'.remote = a
          PROVE  Goal'
        <3>1. /\ \A q \in People \ {p} : link[q].remote # a
              /\ \A b \in Accounts \ {a} : account'[b] = account[b]
            BY <1>0, <2>0, <2>2, SentToTheirOwn DEF Sent
        <3>2. account'[a].name = run.names[p] /\ (link[p].remote # 0 => link[p].remote = a)
            BY <2>1, <2>2 DEF Sent
        <3>3. \A q \in People : link[q].state = "active" /\ ~link[q].newer =>
                  account'[link[q].remote].name = name[q]
            <4>1. ASSUME NEW q \in People \ {p}, link[q].state = "active", ~link[q].newer
                  PROVE  account'[link[q].remote].name = name[q]
                BY <1>0, <3>1, <4>1 DEF RunFits
            <4>2. ASSUME link[p].state = "active", ~link[p].newer
                  PROVE  account'[link[p].remote].name = name[p]
                BY <1>0, <2>0, <3>2, <4>2 DEF RunFits
            <4> QED
                BY <4>1, <4>2
        <3>4. run'.reply = "ok" => account'[run'.remote].name = run'.names[p]
            BY <2>0, <2>2, <3>2 DEF RunGoesOn
        <3>5. \A q \in People :
                  /\ q \notin run'.edited => run'.names[q] = name'[q]
                  /\ q \in run'.edited /\ link'[q].state = "active" => link'[q].newer
            BY <1>0, <2>0 DEF RunGoesOn
        <3> QED
            BY <2>0, <3>3, <3>4, <3>5
    <2>3. CASE UNCHANGED account /\ run'.reply # "ok"
        BY <1>0, <2>0, <2>3 DEF RunGoesOn
    <2> QED
        BY <1>1, <2>2, <2>3 DEF Requested
<1>2. ASSUME NEW p \in People, RecordedFor(p) PROVE Goal'
    <2>1. run.phase = "push"
        BY <1>0, <1>2 DEF RecordedFor, RunFits, NobodyLeft, Rows, Runs
    <2>2. run'.phase # "idle" =>
              run'.phase = run.phase /\ run'.names = run.names /\ run'.edited = run.edited
        BY <1>2, NoRunFields DEF RecordedFor, RunGoesOn
    <2>3. /\ \A q \in People \ {p} : link'[q] = link[q]
          /\ UNCHANGED <<name, account>> /\ run'.who = Nobody
          /\ link'[p].state = "active" =>
                (link'[p].newer <=> p \in run.edited) /\ link'[p].remote = run.remote
                /\ account[run.remote].name = run.names[p]
        BY <1>0, <1>2, <2>1 DEF RecordedFor
    <2> QED
        BY <1>0, <2>1, <2>2, <2>3
<1>3. ASSUME NEW p \in People PROVE ~MarkedGone(p)
    BY <1>0 DEF MarkedGone, NobodyLeft
<1>4. ASSUME NEW p \in People, EditedBy(p) PROVE Goal'
    <2>1. \A q \in People \ {p} : name'[q] = name[q] /\ link'[q] = link[q]
        BY <1>4 DEF EditedBy, Named
    <2> QED
        BY <1>0, <1>4, <2>1 DEF EditedBy
<1>5. ASSUME NEW p \in People PROVE ~Slowly(p)
    BY <1>0 DEF Slowly
<1>6. CASE Started
    BY <1>0, <1>6 DEF Started
<1>7. CASE Turned
    <2>1. run.who = Nobody /\ run.reply # "ok"
        BY <1>0, <1>7 DEF Turned, RunFits, Rows
    <2> QED
        BY <1>0, <1>7, <2>1 DEF Turned
<1>8. CASE Stopped \/ Forgotten
    BY <1>0, <1>8, NoRunFields DEF Stopped, Forgotten
<1>9. CASE Elsewhere
    BY <1>0, <1>9 DEF Elsewhere
<1>10. ASSUME NEW a \in Accounts PROVE ~Vanished(a)
    BY <1>0 DEF Vanished
<1> QED
    BY <1>0, <1>1, <1>2, <1>3, <1>4, <1>5, <1>6, <1>7, <1>8, <1>9, <1>10 DEF Moves

-----------------------------------------------------------------------------
(* Everybody's userName at the start is one of as many as there are people,*)
(* so the highest is held by somebody.                                     *)
LEMMA HighestName ==
    ASSUME Init, NEW n \in 1..Cardinality(People)
    PROVE  \E q \in People : n <= name[q]
<1> DEFINE card == Cardinality(People)
<1> SUFFICES ASSUME \A q \in People : name[q] < n PROVE FALSE
    <2>1. \A q \in People : name[q] \in Nat
        BY Sizes DEF Init
    <2> QED
        BY <2>1, Sizes
<1>1. card \in Nat /\ n \in Nat /\ n <= card /\ n >= 1
    BY Sizes
<1>2. name \in [People -> 1..(n - 1)]
    BY <1>1 DEF Init
<1>3. IsFiniteSet(1..(n - 1)) /\ Cardinality(1..(n - 1)) < card
    <2>1. 1 \in Int /\ n - 1 \in Int /\ (IF 1 > n - 1 THEN 0 ELSE (n - 1) - 1 + 1) < card
        BY <1>1
    <2> DEFINE m == n - 1
    <2> HIDE DEF m, card
    <2>2. m \in Int /\ (IF 1 > m THEN 0 ELSE m - 1 + 1) < card
        BY <2>1 DEF m
    <2>3. IsFiniteSet(1..m) /\ Cardinality(1..m) = IF 1 > m THEN 0 ELSE m - 1 + 1
        BY <2>2, FS_Interval
    <2> QED
        BY <2>2, <2>3 DEF m
<1>4. \E p, q \in People : p # q /\ name[p] = name[q]
    BY <1>2, <1>3, BoundsAssumption, FS_PigeonHole
<1> QED
    BY <1>4 DEF Init

(* What holds of links, accounts and a run in progress taken together.     *)
IInv ==
    /\ TypeOK /\ RunFits /\ UniqueNames /\ OnePersonPerAccount
    /\ NamesTellApart /\ OwnersStay
    /\ OnUntilTheyLeave /\ OffForLeavers
    /\ NamesStay /\ NoneVanished /\ Traced
    /\ NobodyLeft /\ OnForGood /\ NamesFollow

LEMMA InvInit == Init => IInv
<1> SUFFICES ASSUME Init PROVE IInv
    OBVIOUS
<1>0. /\ run = NoRun /\ NoRun.phase = "idle" /\ NoRun.who = Nobody /\ NoRun.reply = "none"
      /\ NoRun.todo = {} /\ Nobody \notin People
      /\ \A p \in People : link[p].state = "none" /\ link[p].remote = 0
    BY NoRunFields, BoundsAssumption DEF Init
<1>1. \A a \in Accounts :
          /\ account[a].name \in {0, a} /\ account[a].of = Nobody
          /\ account[a].name # 0 => a \in Onboarded
    BY DEF Init, Free
<1>2. RunFits /\ UniqueNames /\ OnePersonPerAccount
    BY <1>0, <1>1 DEF RunFits, UniqueNames, OnePersonPerAccount
<1>3. NamesTellApart
    <2>1. \A p, q \in People : name[p] = name[q] => p = q
        BY DEF Init
    <2>2. \A a \in Accounts : account[a].name # 0 => \E q \in People : account[a].name <= name[q]
        BY <1>1, HighestName, BoundsAssumption
    <2> QED
        BY <1>0, <1>1, <2>1, <2>2 DEF NamesTellApart, Apart
<1>4. OwnersStay
    BY <1>0 DEF OwnersStay, Owned
<1>5. OnUntilTheyLeave /\ OffForLeavers
    BY <1>0 DEF OnUntilTheyLeave, OffForLeavers
<1>6. NamesStay /\ NoneVanished /\ Traced
    BY <1>0, <1>1 DEF NamesStay, NoneVanished, Traced
<1>7. NobodyLeft /\ OnForGood /\ NamesFollow
    BY <1>0, <1>1 DEF NobodyLeft, OnForGood, NamesFollow
<1> QED
    BY <1>2, <1>3, <1>4, <1>5, <1>6, <1>7, InitType DEF IInv

LEMMA InvStep == IInv /\ [Next]_vars => IInv'
<1> SUFFICES ASSUME IInv, [Next]_vars PROVE IInv'
    OBVIOUS
<1>1. TypeOK' /\ RunFits' /\ UniqueNames' /\ OnePersonPerAccount' /\ NamesTellApart' /\ OwnersStay'
    BY TypeStep, RunFitsStep, UniqueNamesStep, OnePersonStep, NamesTellApartStep, OwnersStayStep
       DEF IInv
<1>2. OnUntilTheyLeave' /\ OffForLeavers' /\ NamesStay' /\ NoneVanished' /\ Traced'
    BY OnUntilTheyLeaveStep, OffForLeaversStep, NamesStayStep, NoneVanishedStep, TracedStep DEF IInv
<1>3. NobodyLeft' /\ OnForGood' /\ NamesFollow'
    BY NobodyLeftStep, OnForGoodStep, NamesFollowStep DEF IInv
<1> QED
    BY <1>1, <1>2, <1>3 DEF IInv

LEMMA InvAlways == Spec => []IInv
BY InvInit, InvStep, PTL DEF Spec

(* Two people never share an account, whatever is lost, whoever takes      *)
(* whose userName and however often the target is registered anew: a link  *)
(* gets its account in Record only, which the unique index stops.          *)
THEOREM OnePersonPerAccountAlways == Spec => []OnePersonPerAccount
BY InvAlways, PTL DEF IInv

-----------------------------------------------------------------------------
(* An account is of whoever it was made for and nobody has two of them,    *)
(* as far as userNames tell people apart.                                  *)
LEMMA TheirOwn == IInv => AccountsAreTheirOwn
<1> SUFFICES ASSUME IInv PROVE AccountsAreTheirOwn
    OBVIOUS
<1>1. OneAccountEach
    <2> SUFFICES ASSUME Without({"rename", "slow", "reuse", "vanish"}), NEW p \in People
                 PROVE  Cardinality({a \in Accounts : account[a].of = p}) <= 1
        BY DEF OneAccountEach
    <2> DEFINE S == {a \in Accounts : account[a].of = p}
    <2>1. Without({"rename", "slow", "reuse"}) /\ Without({"vanish"})
        BY DEF Without
    <2>2. \A a, b \in S : a = b
        BY <2>1 DEF IInv, NamesStay, NoneVanished, UniqueNames
    <2>3. S = {} \/ \E a : S = {a}
        <3> HIDE DEF S
        <3>1. ASSUME NEW a \in S PROVE S = {a}
            BY <2>2, <3>1
        <3> QED
            BY <3>1
    <2>4. Cardinality(S) = 0 \/ Cardinality(S) = 1
        <3> HIDE DEF S
        <3> QED
            BY <2>3, FS_EmptySet, FS_Singleton, Zenon
    <2> QED
        BY <2>4
<1>2. AccountsStayTheirs
    BY DEF IInv, OwnersStay, Owned, AccountsStayTheirs
<1> QED
    BY <1>1, <1>2 DEF IInv, AccountsAreTheirOwn

(* Everybody keeps one account of their own: nobody else's is made over to *)
(* them, none of theirs is made twice, no two people share one.            *)
THEOREM AccountsAreTheirOwnAlways == Spec => []AccountsAreTheirOwn
BY InvAlways, TheirOwn, PTL

LEMMA Truthful == IInv => LinksTellTheTruth
<1> SUFFICES ASSUME IInv PROVE LinksTellTheTruth
    OBVIOUS
<1>0. 0 \notin Accounts /\ Rows
    BY TypeParts DEF Accounts, IInv, Rows
<1>1. DeprovisionedMeansOff
    <2> SUFFICES ASSUME Without({"lost", "crash", "forget", "reuse"}), NEW p \in People,
                        link[p].state = "deprovisioned", run.who # p, NEW a \in OnFor(p)
                 PROVE  FALSE
        BY DEF DeprovisionedMeansOff, DeprovisionedIsOff, Unanswered
    <2>1. a \in Accounts /\ link[p].remote = a
        BY DEF IInv, Traced, OnFor
    <2>2. Without({"crash"})
        BY DEF Without
    <2> QED
        BY <1>0, <2>1, <2>2 DEF IInv, OffForLeavers
<1>2. KnownAccountsAreSwitchedOff
    BY DEF IInv, OffForLeavers, KnownAccountsAreSwitchedOff, Unanswered
<1>3. SettledMeansOn
    <2> SUFFICES ASSUME Without({"crash", "vanish", "reuse"}), NEW p \in entitled,
                        ~NeedsPush(p), run.who # p
                 PROVE  link[p].remote \in OnFor(p)
        BY DEF SettledMeansOn, Unanswered
    <2>1. p \in People /\ link[p].state = "active" /\ Without({"reuse"})
        BY <1>0 DEF NeedsPush, Rows, Without
    <2>2. account[link[p].remote].on /\ link[p].remote # 0
        BY <2>1 DEF IInv, OnUntilTheyLeave, RunFits
    <2>3. account[link[p].remote].of = p
        BY <2>1, <2>2 DEF IInv, OwnersStay, Owned
    <2>4. link[p].remote \in Accounts
        BY <1>0, <2>1, <2>2, BoundsAssumption DEF Rows, LinkRows, Accounts
    <2> QED
        BY <2>2, <2>3, <2>4 DEF OnFor
<1>4. InStepMeansSame
    BY DEF IInv, NamesFollow, InStepMeansSame, Unanswered
<1> QED
    BY <1>1, <1>2, <1>3, <1>4 DEF LinksTellTheTruth

(* What a link says of an account is so, under the circumstances each of   *)
(* its parts names, at every moment at which no answer is outstanding.     *)
THEOREM LinksTellTheTruthAlways == Spec => []LinksTellTheTruth
BY InvAlways, Truthful, PTL

(* A count of zero is of nobody.                                           *)
LEMMA CountOfNone ==
    ASSUME TypeOK, CountWaiting + Count("failed") + Count("orphaned") = 0
    PROVE  /\ \A p \in entitled : link[p].remote # 0 /\ link[p].state = "active" /\ ~link[p].newer
           /\ \A p \in People \ entitled : link[p].state \notin {"active", "failed", "orphaned"}
<1> DEFINE A == {p \in entitled : link[p].remote = 0 \/ NeedsPush(p)}
           B == {p \in People \ entitled : link[p].state = "active"}
           F == {p \in People : link[p].state = "failed"}
           O == {p \in People : link[p].state = "orphaned"}
<1>1. A \in SUBSET People /\ B \in SUBSET People /\ F \in SUBSET People /\ O \in SUBSET People
    BY DEF TypeOK
<1>2. CountWaiting = Cardinality(A) + Cardinality(B)
      /\ Count("failed") = Cardinality(F) /\ Count("orphaned") = Cardinality(O)
    BY DEF CountWaiting, Count
<1> HIDE DEF A, B, F, O
<1>3. IsFiniteSet(A) /\ IsFiniteSet(B) /\ IsFiniteSet(F) /\ IsFiniteSet(O)
    BY <1>1, BoundsAssumption, FS_Subset
<1>4. Cardinality(A) \in Nat /\ Cardinality(B) \in Nat /\ Cardinality(F) \in Nat
      /\ Cardinality(O) \in Nat
    BY <1>3, FS_CardinalityType
<1>5. Cardinality(A) = 0 /\ Cardinality(B) = 0 /\ Cardinality(F) = 0 /\ Cardinality(O) = 0
    BY <1>2, <1>4
<1>6. A = {} /\ B = {} /\ F = {} /\ O = {}
    BY <1>3, <1>5, FS_EmptySet
<1> QED
    BY <1>6 DEF A, B, F, O, NeedsPush

LEMMA QuietInStep == IInv => QuietSummaryMeansInStep
<1> SUFFICES ASSUME IInv, Survivable, run.phase = "idle",
                    CountWaiting + Count("failed") + Count("orphaned") = 0
             PROVE  InStep
    BY DEF QuietSummaryMeansInStep
<1>0. /\ 0 \notin Accounts /\ Rows /\ Nobody \notin People /\ run.who = Nobody
      /\ Without({"reuse"}) /\ Without({"vanish"})
    BY TypeParts, BoundsAssumption DEF Accounts, IInv, Rows, RunFits, Survivable, Without
<1>1. /\ \A p \in entitled : link[p].remote # 0 /\ link[p].state = "active" /\ ~link[p].newer
      /\ \A p \in People \ entitled : link[p].state \notin {"active", "failed", "orphaned"}
    BY CountOfNone DEF IInv
<1>2. \A p \in entitled : p \in People /\ link[p].remote \in Accounts /\ account[link[p].remote].of = p
    BY <1>0, <1>1, BoundsAssumption DEF IInv, OwnersStay, Owned, Rows, LinkRows, Accounts
<1>3. CASE Without({"leave"})
    <2>1. Without({"leave", "vanish"}) /\ Without({"leave", "slow", "vanish", "reuse"})
        BY <1>3 DEF Survivable, Without
    <2>2. \A p \in entitled : link[p].remote \in OnFor(p) /\ account[link[p].remote].name = name[p]
        BY <1>1, <1>2, <2>1 DEF IInv, OnForGood, NamesFollow, OnFor
    <2>3. \A p \in People \ entitled : OnFor(p) = {}
        BY <1>3 DEF IInv, NobodyLeft, OnFor
    <2> QED
        BY <2>2, <2>3 DEF InStep
<1>4. CASE Without({"rename", "lost", "crash", "forget"})
    <2>1. /\ Without({"crash", "vanish", "reuse"}) /\ Without({"rename", "slow", "reuse"})
          /\ Without({"lost", "crash", "forget", "reuse"}) /\ Without({"crash"})
        BY <1>4 DEF Survivable, Without
    <2>2. \A p \in entitled : link[p].remote \in OnFor(p)
        BY <1>0, <1>1, <1>2, <2>1 DEF IInv, OnUntilTheyLeave, OnFor
    <2>3. \A p \in entitled : account[link[p].remote].name = name[p]
        BY <1>0, <1>2, <2>1 DEF IInv, NoneVanished, NamesStay
    <2>4. ASSUME NEW p \in People \ entitled, NEW a \in OnFor(p) PROVE FALSE
        <3>1. a \in Accounts /\ link[p].remote = a
            BY <1>0, <2>1 DEF IInv, Traced, OnFor
        <3>2. link[p].state = "deprovisioned"
            BY <1>0, <1>1, <2>1, <3>1 DEF IInv, Traced, RunFits, Rows, LinkRows, LinkStates
        <3> QED
            BY <1>0, <2>1, <3>1, <3>2 DEF IInv, OffForLeavers
    <2> QED
        BY <1>2, <2>2, <2>3, <2>4 DEF InStep
<1> QED
    BY <1>3, <1>4 DEF Survivable

(* A summary that shows nobody waiting, failed or orphaned is of a target  *)
(* in step with the directory, wherever the target can get there at all.   *)
THEOREM QuietMeansInStep == Spec => []QuietSummaryMeansInStep
BY InvAlways, QuietInStep, PTL
==============================================================================
