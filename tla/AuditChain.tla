------------------------------ MODULE AuditChain ------------------------------
(***************************************************************************)
(* The audit log: append_event and verify_chain of audit/chain.py, inside  *)
(* the database transactions that call them.                               *)
(*                                                                         *)
(* A fingerprint is modelled as the contents it covers, in order: SHA-256  *)
(* as an injection.  A transaction updates rows of other tables (each      *)
(* UPDATE locks its row until the end) before, between and after its       *)
(* entries.  All entries are made under one advisory lock, also held to    *)
(* the end of the transaction.                                             *)
(***************************************************************************)
EXTENDS Integers, FiniteSets, Sequences

CONSTANTS
    Txs,         \* transactions that may be open at the same time
    Rows,        \* rows of other tables that transactions update
    Contents,    \* what entries say
    Forgeries,   \* what somebody editing the table might make them say
    AuditLock,   \* AUDIT_CHAIN_LOCK_KEY
    None,        \* no transaction, no lock
    MaxId,       \* bound: ids the sequence hands out
    MaxEntries,  \* bound: entries of one transaction
    Batch,       \* VERIFY_BATCH_SIZE
    Limits,      \* "limit" of a verification; 0 is none
    Circumstances \* sets of what may happen besides appending, see may

ASSUME LocksAssumption == AuditLock \notin Rows /\ None \notin Txs \cup Rows \cup {AuditLock}
ASSUME NumbersAssumption ==
    /\ MaxId \in Nat /\ MaxEntries \in Nat /\ Batch \in Nat \ {0}
    /\ Limits \subseteq Nat
    /\ Circumstances \subseteq SUBSET {"update", "verify", "tamper"}

VARIABLES
    log,         \* the committed rows of audit_events
    tx,          \* the transactions in progress
    holder,      \* who holds each lock
    nextId,      \* the sequence behind audit_events.id; never goes back
    check,       \* a verification in progress, or its verdict
    tampered,    \* ghost: what was done to the table from outside, once
    may          \* what happens in this behaviour besides appending

vars == <<log, tx, holder, nextId, check, tampered, may>>

Locks == Rows \cup {AuditLock}

Genesis == <<>>
Hash(prev, content) == Append(prev, content)     \* compute_hash

(* The newest of a set of entries, and the fingerprint the next one must   *)
(* point at.                                                               *)
Newest(S) == CHOOSE e \in S : \A f \in S : f.id <= e.id
TailOf(S) == IF S = {} THEN Genesis ELSE Newest(S).hash

Idle == [pc |-> "idle", wants |-> None, own |-> {}, tail |-> Genesis]

-----------------------------------------------------------------------------
(* Transactions and the locks they wait for.                               *)

Open(t) ==
    /\ tx[t].pc = "idle"
    /\ tx' = [tx EXCEPT ![t].pc = "open"]
    /\ UNCHANGED <<log, holder, nextId, check, tampered, may>>

Running(t) == tx[t].pc = "open" /\ tx[t].wants = None

(* An UPDATE of a row this transaction has not locked yet.                 *)
Update(t, r) ==
    /\ "update" \in may /\ Running(t) /\ holder[r] # t
    /\ tx' = [tx EXCEPT ![t].wants = r]
    /\ UNCHANGED <<log, holder, nextId, check, tampered, may>>

(* Bound: entries begun have an id left.                                   *)
Begun == {t \in Txs : tx[t].pc \in {"locked", "read"} \/ tx[t].wants = AuditLock}
Room(t) == Cardinality(tx[t].own) < MaxEntries /\ nextId + Cardinality(Begun) <= MaxId

\* Mutant: the entry is made without the lock.
MutBeginAppend(t) ==
    /\ Running(t) /\ Room(t)
    /\ tx' = [tx EXCEPT ![t].pc = "locked"]
    /\ UNCHANGED <<log, holder, nextId, check, tampered, may>>

(* append_event begins by asking for the lock, which its own transaction   *)
(* may hold already.                                                       *)
BeginAppend(t) ==
    /\ Running(t) /\ Room(t)
    /\ tx' = IF holder[AuditLock] = t THEN [tx EXCEPT ![t].pc = "locked"]
             ELSE [tx EXCEPT ![t].wants = AuditLock]
    /\ UNCHANGED <<log, holder, nextId, check, tampered, may>>

Get(t) ==
    /\ tx[t].wants # None /\ holder[tx[t].wants] = None
    /\ holder' = [holder EXCEPT ![tx[t].wants] = t]
    /\ tx' = [tx EXCEPT ![t] = [pc |-> IF @.wants = AuditLock THEN "locked" ELSE "open",
                                wants |-> None, own |-> @.own, tail |-> @.tail]]
    /\ UNCHANGED <<log, nextId, check, tampered, may>>

\* Mutant: entries of this transaction are not flushed yet.
MutReadTail(t) ==
    /\ tx[t].pc = "locked"
    /\ tx' = [tx EXCEPT ![t].pc = "read", ![t].tail = TailOf(log)]
    /\ UNCHANGED <<log, holder, nextId, check, tampered, may>>

(* The newest entry, the transaction's own ones included.                  *)
ReadTail(t) ==
    /\ tx[t].pc = "locked"
    /\ tx' = [tx EXCEPT ![t] = [pc |-> "read", wants |-> None, own |-> @.own,
                                tail |-> TailOf(log \cup @.own)]]
    /\ UNCHANGED <<log, holder, nextId, check, tampered, may>>

Entry(t, content) ==
    [id |-> nextId, prev |-> tx[t].tail, hash |-> Hash(tx[t].tail, content), content |-> content]

(* audit_events.hash is unique.                                            *)
Taken(hash) == \E e \in log : e.hash = hash

Insert(t, content) ==
    /\ tx[t].pc = "read" /\ ~Taken(Entry(t, content).hash)
    /\ tx' = [tx EXCEPT ![t] = [pc |-> "open", wants |-> None,
                                own |-> @.own \cup {Entry(t, content)}, tail |-> Genesis]]
    /\ nextId' = nextId + 1
    /\ UNCHANGED <<log, holder, check, tampered, may>>

\* Mutant: only a commit lets go of the advisory lock.
MutRelease(t) ==
    holder' = [l \in Locks |-> IF holder[l] = t /\ (l # AuditLock \/ Running(t))
                               THEN None ELSE holder[l]]

(* Every lock is the transaction's own and ends with it.                   *)
Release(t) == holder' = [l \in Locks |-> IF holder[l] = t THEN None ELSE holder[l]]

Commit(t) ==
    /\ Running(t)
    /\ log' = log \cup tx[t].own
    /\ tx' = [tx EXCEPT ![t] = Idle]
    /\ Release(t)
    /\ UNCHANGED <<nextId, check, tampered, may>>

\* Mutant: the next transaction finds the last one's entries.
MutUndo(t) ==
    /\ tx' = [tx EXCEPT ![t].pc = "idle", ![t].wants = None]
    /\ Release(t)
    /\ UNCHANGED <<log, check, tampered, may>>

Undo(t) ==
    /\ tx' = [tx EXCEPT ![t] = Idle]
    /\ Release(t)
    /\ UNCHANGED <<log, check, tampered, may>>

(* The handler raises, the client goes away or the process dies.           *)
Rollback(t) == tx[t].pc # "idle" /\ Undo(t) /\ UNCHANGED nextId

(* The id is drawn before the unique constraint refuses the row.           *)
Refused(t, content) ==
    /\ tx[t].pc = "read" /\ Taken(Entry(t, content).hash)
    /\ Undo(t) /\ nextId' = nextId + 1

(* Transactions that wait for each other: Postgres ends one of them.       *)
Waiting == {t \in Txs : tx[t].wants # None}
Deadlocked(t) ==
    \E S \in SUBSET Waiting : t \in S /\ {holder[tx[u].wants] : u \in S} = S
BreakDeadlock(t) == Deadlocked(t) /\ Rollback(t)

-----------------------------------------------------------------------------
(* verify_chain, batch by batch, each on what is committed by then.        *)

NoCheck == [pc |-> "none", limit |-> 0, expected |-> Genesis, checked |-> 0, last |-> 0,
            at |-> 0, old |-> FALSE]

StartCheck(limit) ==
    /\ "verify" \in may /\ check.pc # "running"
    /\ check' = [NoCheck EXCEPT !.pc = "running", !.limit = limit, !.old = tampered.old]
    /\ UNCHANGED <<log, tx, holder, nextId, tampered, may>>

BatchSize ==
    IF check.limit = 0 \/ check.limit - check.checked > Batch THEN Batch
    ELSE check.limit - check.checked

After(id) == {e \in log : e.id > id}
NextBatch == {e \in After(check.last) :
                 Cardinality({f \in After(check.last) : f.id <= e.id}) <= BatchSize}

Before(S, id) == {e \in S : e.id < id}

(* What the entry before this one has as its fingerprint.                  *)
Expected(S, e) == IF Before(S, e.id) = {} THEN check.expected ELSE Newest(Before(S, e.id)).hash

\* Mutant: only the links are looked at.
MutBad(S, e) == e.prev # Expected(S, e)

Bad(S, e) == e.prev # Expected(S, e) \/ e.hash # Hash(e.prev, e.content)
BadIn(S) == {e \in S : Bad(S, e)}

CheckBatch ==
    /\ check.pc = "running" /\ NextBatch # {} /\ BadIn(NextBatch) = {}
    /\ check' = [check EXCEPT !.expected = TailOf(NextBatch),
                              !.checked = @ + Cardinality(NextBatch),
                              !.last = Newest(NextBatch).id]
    /\ UNCHANGED <<log, tx, holder, nextId, tampered, may>>

ReportValid ==
    /\ check.pc = "running" /\ NextBatch = {}
    /\ check' = [check EXCEPT !.pc = "valid"]
    /\ UNCHANGED <<log, tx, holder, nextId, tampered, may>>

ReportBroken ==
    /\ check.pc = "running"
    /\ \E e \in BadIn(NextBatch) :
        /\ \A f \in BadIn(NextBatch) : e.id <= f.id
        /\ check' = [check EXCEPT !.pc = "broken", !.at = e.id]
    /\ UNCHANGED <<log, tx, holder, nextId, tampered, may>>

-----------------------------------------------------------------------------
(* Somebody who owns the table turns its triggers off and edits it.        *)

Fingerprints ==
    LET known == {Genesis} \cup {e.hash : e \in log}
    IN  known \cup {Hash(h, c) : h \in known, c \in Forgeries}
Forged(id) == [id: {id}, prev: Fingerprints, hash: Fingerprints, content: Forgeries]

Tamper(id) ==
    /\ "tamper" \in may /\ tampered.id = 0 /\ id < nextId
    /\ \E S \in {{}} \cup {{f} : f \in Forged(id)} :
        LET others == {e \in log : e.id # id} IN
        /\ others \cup S # log
        /\ \A f \in S, e \in others : f.hash # e.hash
        /\ \A f \in S, t \in Txs : \A e \in tx[t].own : f.id # e.id /\ f.hash # e.hash
        /\ log' = others \cup S
        /\ tampered' = [id |-> id, old |-> After(id) # {}]
    /\ UNCHANGED <<tx, holder, nextId, check, may>>

Init ==
    /\ log = {}
    /\ tx = [t \in Txs |-> Idle]
    /\ holder = [l \in Locks |-> None]
    /\ nextId = 1
    /\ check = NoCheck
    /\ tampered = [id |-> 0, old |-> FALSE]
    /\ may \in Circumstances

(* What a transaction that is not interrupted does next.                   *)
Step(t) ==
    \/ \E r \in Rows : Update(t, r)
    \/ BeginAppend(t) \/ Get(t) \/ ReadTail(t) \/ Commit(t) \/ BreakDeadlock(t)
    \/ \E c \in Contents : Insert(t, c) \/ Refused(t, c)

Verify == CheckBatch \/ ReportValid \/ ReportBroken \/ \E limit \in Limits : StartCheck(limit)

Next ==
    \/ \E t \in Txs : Open(t) \/ Step(t) \/ Rollback(t)
    \/ Verify
    \/ \E id \in 1..MaxId : Tamper(id)

Spec == Init /\ [][Next]_vars

(* Handlers run on to their commit, Postgres hands its locks out in turn   *)
(* and breaks deadlocks.  Nobody has to open, roll back, verify or tamper. *)
FairSpec == Spec /\ \A t \in Txs : SF_vars(Step(t))

-----------------------------------------------------------------------------
(* Type invariant: the table, the transactions and the verification.       *)
Texts == Contents \cup Forgeries
Entries == [id: Nat \ {0}, prev: Seq(Texts), hash: Seq(Texts), content: Texts]
Transaction == [pc: {"idle", "open", "locked", "read"}, wants: Locks \cup {None},
                own: SUBSET Entries, tail: Seq(Texts)]
TypeOK ==
    /\ log \subseteq Entries
    /\ tx \in [Txs -> Transaction]
    /\ holder \in [Locks -> Txs \cup {None}]
    /\ nextId \in Nat \ {0}
    /\ check \in [pc: {"none", "running", "valid", "broken"}, limit: Limits \cup {0},
                  expected: Seq(Texts), checked: Nat, last: Nat, at: Nat, old: BOOLEAN]
    /\ tampered \in [id: Nat, old: BOOLEAN]
    /\ \A t \in Txs : tx[t].pc = "idle" => tx[t] = Idle /\ \A l \in Locks : holder[l] # t

Linked(S) ==
    \A e \in S : e.hash = Hash(e.prev, e.content) /\ e.prev = TailOf(Before(S, e.id))

(* However transactions interleave, wait and roll back, the committed log  *)
(* is one chain, each entry pointing at the one before it by id            *)
(* (append_event: "both would point at the same last entry").              *)
OneChain == tampered.id = 0 => Linked(log)

(* A verification that runs while entries are being committed never        *)
(* reports a break in a log nobody has touched (verify_chain, batches).    *)
NoFalseAlarm == tampered.id = 0 => check.pc # "broken"

(* An old entry edited, deleted or inserted before a full verification     *)
(* starts is found by it (audit/chain.py, module docstring).               *)
TamperingIsFound == check.pc = "valid" /\ check.limit = 0 => ~check.old

(* The verification names the entry that was tampered with, or the one     *)
(* that followed it ("the verify check tells you which entry broke").      *)
NamesTheBreak ==
    check.pc = "broken" =>
        /\ check.at >= tampered.id
        /\ \A e \in log : tampered.id < e.id => check.at <= e.id

(* What was done to old entries is found, and where.                       *)
TamperingIsFoundAndNamed == TamperingIsFound /\ NamesTheBreak

(* No transaction waits for ever: the lock ends with the transaction that  *)
(* holds it, and deadlocks between it and row locks are broken             *)
(* (append_event: "there's no cleanup to forget").                         *)
TransactionsEnd == \A t \in Txs : tx[t].pc # "idle" ~> tx[t].pc = "idle"
=============================================================================
