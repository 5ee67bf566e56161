-------------------------- MODULE AuditChain_proofs --------------------------
(* The audit log is one chain, for any number of transactions, locks and   *)
(* entries, as long as nobody edits the table itself; and where somebody   *)
(* does, a verification finds it.                                          *)
EXTENDS AuditChain, FiniteSetTheorems, WellFoundedInduction, TLAPS

-----------------------------------------------------------------------------
(* Types.  A fingerprint read as the newest entry's is one only because    *)
(* every set of entries that matters has a newest: so the type invariant   *)
(* says that too.                                                          *)

HasNewest(S) == S # {} => \E e \in S : \A f \in S : f.id <= e.id
Topped(S) == IsFiniteSet(S) /\ \A T \in SUBSET S : HasNewest(T)

LEMMA ToppedUnion ==
    ASSUME NEW A \in SUBSET Entries, NEW B \in SUBSET Entries, Topped(A), Topped(B)
    PROVE  Topped(A \cup B)
<1>1. IsFiniteSet(A \cup B)
    BY FS_Union DEF Topped
<1>2. ASSUME NEW T \in SUBSET (A \cup B) PROVE HasNewest(T)
    <2>1. HasNewest(T \cap A) /\ HasNewest(T \cap B)
        BY DEF Topped
    <2>2. CASE T \cap A = {}
        <3>1. T \cap B = T
            BY <2>2
        <3> QED
            BY <2>1, <3>1
    <2>3. CASE T \cap B = {}
        <3>1. T \cap A = T
            BY <2>3
        <3> QED
            BY <2>1, <3>1
    <2>4. CASE T \cap A # {} /\ T \cap B # {}
        <3>1. PICK a \in T \cap A : \A f \in T \cap A : f.id <= a.id
            BY <2>1, <2>4 DEF HasNewest
        <3>2. PICK b \in T \cap B : \A f \in T \cap B : f.id <= b.id
            BY <2>1, <2>4 DEF HasNewest
        <3>3. a.id \in Nat /\ b.id \in Nat /\ \A f \in T : f.id \in Nat
            BY DEF Entries
        <3>4. CASE a.id <= b.id
            <4>1. \A f \in T : f.id <= b.id
                BY <3>1, <3>2, <3>3, <3>4
            <4> QED
                BY <4>1 DEF HasNewest
        <3>5. CASE b.id <= a.id
            <4>1. \A f \in T : f.id <= a.id
                BY <3>1, <3>2, <3>3, <3>5
            <4> QED
                BY <4>1 DEF HasNewest
        <3> QED
            BY <3>3, <3>4, <3>5
    <2> QED
        BY <2>2, <2>3, <2>4
<1> QED
    BY <1>1, <1>2 DEF Topped

LEMMA ToppedOne ==
    ASSUME NEW e \in Entries
    PROVE  Topped({e}) /\ Topped({})
<1>1. IsFiniteSet({e}) /\ IsFiniteSet({})
    BY FS_Singleton, FS_EmptySet
<1>2. \A T \in SUBSET {e} : HasNewest(T)
    BY DEF HasNewest, Entries
<1> QED
    BY <1>1, <1>2 DEF Topped, HasNewest

LEMMA ToppedSubset ==
    ASSUME NEW S, Topped(S), NEW T \in SUBSET S
    PROVE  Topped(T)
BY FS_Subset DEF Topped

LEMMA TailTyped ==
    ASSUME NEW S \in SUBSET Entries, Topped(S)
    PROVE  /\ TailOf(S) \in Seq(Texts)
           /\ S # {} => Newest(S) \in S /\ \A f \in S : f.id <= Newest(S).id
<1>1. S # {} => Newest(S) \in S /\ \A f \in S : f.id <= Newest(S).id
    BY DEF Topped, HasNewest, Newest
<1> QED
    BY <1>1 DEF TailOf, Genesis, Entries

TypeInv ==
    /\ TypeOK
    /\ Topped(log)
    /\ \A t \in Txs : Topped(tx[t].own)

LEMMA TypeInit == Init => TypeInv
<1> SUFFICES ASSUME Init PROVE TypeInv
    OBVIOUS
<1>1. Topped({})
    BY FS_EmptySet DEF Topped, HasNewest
<1>2. TypeOK
    BY LocksAssumption, NumbersAssumption
       DEF Init, TypeOK, Transaction, Idle, NoCheck, Genesis, Locks
<1> QED
    BY <1>1, <1>2 DEF Init, TypeInv, Idle

(* What the assignments to a transaction's fields make of it.              *)
At(pc, wants, own, tail) == [pc |-> pc, wants |-> wants, own |-> own, tail |-> tail]

LEMMA Assignments ==
    ASSUME NEW r \in Transaction, NEW pc, NEW wants
    PROVE  /\ [r EXCEPT !.pc = pc] = At(pc, r.wants, r.own, r.tail)
           /\ [r EXCEPT !.wants = wants] = At(r.pc, wants, r.own, r.tail)
BY DEF Transaction, At

(* The transaction a step of each kind leaves behind.                      *)
LEMMA Effects ==
    ASSUME TypeInv, NEW t \in Txs
    PROVE  /\ tx[t] \in Transaction /\ tx \in [Txs -> Transaction]
           /\ Open(t) => tx' = [tx EXCEPT ![t] =
                At("open", tx[t].wants, tx[t].own, tx[t].tail)]
           /\ \A r \in Rows : Update(t, r) => tx' = [tx EXCEPT ![t] =
                At(tx[t].pc, r, tx[t].own, tx[t].tail)]
           /\ BeginAppend(t) => tx' = [tx EXCEPT ![t] =
                IF holder[AuditLock] = t THEN At("locked", tx[t].wants, tx[t].own, tx[t].tail)
                ELSE At(tx[t].pc, AuditLock, tx[t].own, tx[t].tail)]
           /\ Get(t) => tx' = [tx EXCEPT ![t] =
                At(IF tx[t].wants = AuditLock THEN "locked" ELSE "open", None,
                   tx[t].own, tx[t].tail)]
           /\ ReadTail(t) => tx' = [tx EXCEPT ![t] =
                At("read", None, tx[t].own, TailOf(log \cup tx[t].own))]
           /\ \A c \in Contents : Insert(t, c) => tx' = [tx EXCEPT ![t] =
                At("open", None, tx[t].own \cup {Entry(t, c)}, Genesis)]
<1>1. tx[t] \in Transaction /\ tx \in [Txs -> Transaction]
    BY DEF TypeInv, TypeOK
<1>2. Open(t) => tx' = [tx EXCEPT ![t] = At("open", tx[t].wants, tx[t].own, tx[t].tail)]
    <2>1. [tx[t] EXCEPT !.pc = "open"] = At("open", tx[t].wants, tx[t].own, tx[t].tail)
        BY <1>1, Assignments
    <2> QED
        BY <2>1 DEF Open
<1>3. \A r \in Rows : Update(t, r) => tx' = [tx EXCEPT ![t] =
          At(tx[t].pc, r, tx[t].own, tx[t].tail)]
    <2>1. \A r \in Rows : [tx[t] EXCEPT !.wants = r] = At(tx[t].pc, r, tx[t].own, tx[t].tail)
        BY <1>1, Assignments
    <2> QED
        BY <2>1 DEF Update
<1>4. BeginAppend(t) => tx' = [tx EXCEPT ![t] =
          IF holder[AuditLock] = t THEN At("locked", tx[t].wants, tx[t].own, tx[t].tail)
          ELSE At(tx[t].pc, AuditLock, tx[t].own, tx[t].tail)]
    <2>1. [tx[t] EXCEPT !.wants = AuditLock] = At(tx[t].pc, AuditLock, tx[t].own, tx[t].tail)
        BY <1>1, Assignments
    <2>2. [tx[t] EXCEPT !.pc = "locked"] = At("locked", tx[t].wants, tx[t].own, tx[t].tail)
        BY <1>1, Assignments
    <2> QED
        BY <2>1, <2>2 DEF BeginAppend
<1>5. Get(t) => tx' = [tx EXCEPT ![t] =
          At(IF tx[t].wants = AuditLock THEN "locked" ELSE "open", None, tx[t].own, tx[t].tail)]
    BY DEF Get, At
<1>6. ReadTail(t) => tx' = [tx EXCEPT ![t] =
          At("read", None, tx[t].own, TailOf(log \cup tx[t].own))]
    BY DEF ReadTail, At
<1>7. \A c \in Contents : Insert(t, c) => tx' = [tx EXCEPT ![t] =
          At("open", None, tx[t].own \cup {Entry(t, c)}, Genesis)]
    BY DEF Insert, At
<1> QED
    BY <1>1, <1>2, <1>3, <1>4, <1>5, <1>6, <1>7

(* Any step of a transaction but its last.                                 *)
LEMMA TypeGoesOn ==
    ASSUME TypeInv, NEW t \in Txs, NEW pc \in {"open", "locked", "read"},
           NEW wants \in Locks \cup {None}, NEW own \in SUBSET Entries, NEW tail \in Seq(Texts),
           tx' = [tx EXCEPT ![t] = At(pc, wants, own, tail)], Topped(own),
           holder' \in [Locks -> Txs \cup {None}],
           \A l \in Locks, u \in Txs : u # t /\ holder[l] # u => holder'[l] # u,
           UNCHANGED <<log, check, tampered>>, nextId' = nextId \/ nextId' = nextId + 1
    PROVE  TypeInv'
<1>1. At(pc, wants, own, tail) \in Transaction
    BY DEF At, Transaction
<1>2. At(pc, wants, own, tail).pc = pc /\ At(pc, wants, own, tail).own = own
    BY DEF At
<1>3. tx' \in [Txs -> Transaction]
    BY <1>1 DEF TypeInv, TypeOK
<1>4. \A u \in Txs : tx'[u] = IF u = t THEN At(pc, wants, own, tail) ELSE tx[u]
    BY DEF TypeInv, TypeOK
<1>5. \A u \in Txs : Topped(tx'[u].own)
    BY <1>2, <1>4 DEF TypeInv
<1>6. \A u \in Txs : tx'[u].pc = "idle" => tx'[u] = Idle /\ \A l \in Locks : holder'[l] # u
    BY <1>2, <1>4 DEF TypeInv, TypeOK
<1> QED
    BY <1>3, <1>5, <1>6 DEF TypeInv, TypeOK

LEMMA TypeStep ==
    ASSUME TypeInv, NEW t \in Txs,
           \/ Open(t) \/ (\E r \in Rows : Update(t, r)) \/ BeginAppend(t) \/ Get(t)
           \/ ReadTail(t) \/ \E c \in Contents : Insert(t, c)
    PROVE  TypeInv'
<1>1. /\ tx[t].wants \in Locks \cup {None} /\ tx[t].own \in SUBSET Entries
      /\ tx[t].tail \in Seq(Texts) /\ tx[t].pc \in {"idle", "open", "locked", "read"}
      /\ tx[t].pc = "idle" => tx[t].wants = None
    BY DEF TypeInv, TypeOK, Transaction, Idle
<1>2. Rows \subseteq Locks /\ AuditLock \in Locks /\ None \notin Locks
    BY LocksAssumption DEF Locks
<1>3. Topped(tx[t].own) /\ holder \in [Locks -> Txs \cup {None}]
    BY DEF TypeInv, TypeOK
<1>4. CASE Open(t)
    <2>1. UNCHANGED <<log, holder, nextId, check, tampered>>
        BY <1>4 DEF Open
    <2>5. tx' = [tx EXCEPT ![t] =
              At("open", tx[t].wants, tx[t].own, tx[t].tail)]
        BY <1>4, Effects
    <2>6. holder' \in [Locks -> Txs \cup {None}]
          /\ \A l \in Locks, u \in Txs : u # t /\ holder[l] # u => holder'[l] # u
        BY <1>3, <2>1
    <2> QED
        BY <1>1, <1>3, <2>1, <2>5, <2>6, TypeGoesOn
<1>5. ASSUME NEW r \in Rows, Update(t, r)
      PROVE  TypeInv'
    <2>1. UNCHANGED <<log, holder, nextId, check, tampered>> /\ tx[t].pc = "open"
        BY <1>5 DEF Update, Running
    <2>5. tx' = [tx EXCEPT ![t] =
              At("open", r, tx[t].own, tx[t].tail)]
        BY <1>5, <2>1, Effects
    <2>6. holder' \in [Locks -> Txs \cup {None}]
          /\ \A l \in Locks, u \in Txs : u # t /\ holder[l] # u => holder'[l] # u
        BY <1>3, <2>1
    <2> QED
        BY <1>1, <1>2, <1>3, <2>1, <2>5, <2>6, TypeGoesOn
<1>6. CASE BeginAppend(t)
    <2>1. UNCHANGED <<log, holder, nextId, check, tampered>> /\ tx[t].pc = "open"
        BY <1>6 DEF BeginAppend, Running
    <2>2. holder' \in [Locks -> Txs \cup {None}]
          /\ \A l \in Locks, u \in Txs : u # t /\ holder[l] # u => holder'[l] # u
        BY <1>3, <2>1
    <2>3. CASE holder[AuditLock] = t
        <3>1. tx' = [tx EXCEPT ![t] = At("locked", tx[t].wants, tx[t].own, tx[t].tail)]
            BY <1>6, <2>3, Effects
        <3> QED
            BY <1>1, <1>3, <2>1, <2>2, <3>1, TypeGoesOn
    <2>4. CASE holder[AuditLock] # t
        <3>1. tx' = [tx EXCEPT ![t] = At("open", AuditLock, tx[t].own, tx[t].tail)]
            BY <1>6, <2>1, <2>4, Effects
        <3> QED
            BY <1>1, <1>2, <1>3, <2>1, <2>2, <3>1, TypeGoesOn
    <2> QED
        BY <2>3, <2>4
<1>7. CASE Get(t)
    <2>1. tx[t].wants \in Locks /\ holder[tx[t].wants] = None
          /\ holder' = [holder EXCEPT ![tx[t].wants] = t]
          /\ UNCHANGED <<log, nextId, check, tampered>>
        BY <1>1, <1>7 DEF Get
    <2>2. holder' \in [Locks -> Txs \cup {None}]
          /\ \A l \in Locks, u \in Txs : u # t /\ holder[l] # u => holder'[l] # u
        BY <1>3, <2>1
    <2> DEFINE pc == IF tx[t].wants = AuditLock THEN "locked" ELSE "open"
    <2>3. pc \in {"open", "locked", "read"} /\ None \in Locks \cup {None}
        OBVIOUS
    <2>4. tx' = [tx EXCEPT ![t] = At(pc, None, tx[t].own, tx[t].tail)]
        BY <1>7, Effects
    <2> HIDE DEF pc
    <2> QED
        BY <1>1, <1>3, <2>1, <2>2, <2>3, <2>4, TypeGoesOn
<1>8. CASE ReadTail(t)
    <2>1. UNCHANGED <<log, holder, nextId, check, tampered>>
        BY <1>8 DEF ReadTail
    <2>2. Topped(log \cup tx[t].own) /\ log \cup tx[t].own \in SUBSET Entries
        BY <1>1, <1>3, ToppedUnion DEF TypeInv, TypeOK
    <2>3. TailOf(log \cup tx[t].own) \in Seq(Texts)
        BY <2>2, TailTyped
    <2>5. tx' = [tx EXCEPT ![t] =
              At("read", None, tx[t].own, TailOf(log \cup tx[t].own))]
        BY <1>8, Effects
    <2>6. holder' \in [Locks -> Txs \cup {None}]
          /\ \A l \in Locks, u \in Txs : u # t /\ holder[l] # u => holder'[l] # u
        BY <1>3, <2>1
    <2> QED
        BY <1>1, <1>3, <2>1, <2>3, <2>5, <2>6, TypeGoesOn
<1>9. ASSUME NEW c \in Contents, Insert(t, c)
      PROVE  TypeInv'
    <2>1. UNCHANGED <<log, holder, check, tampered>> /\ nextId' = nextId + 1
        BY <1>9 DEF Insert
    <2>2. Entry(t, c) \in Entries
        <3>1. tx[t].tail \in Seq(Texts) /\ c \in Texts /\ nextId \in Nat \ {0}
            BY <1>1 DEF TypeInv, TypeOK, Texts
        <3> QED
            BY <3>1 DEF Entry, Entries, Hash
    <2>3. Topped(tx[t].own \cup {Entry(t, c)}) /\ tx[t].own \cup {Entry(t, c)} \in SUBSET Entries
        BY <1>1, <1>3, <2>2, ToppedUnion, ToppedOne
    <2>4. Genesis \in Seq(Texts)
        BY DEF Genesis
    <2>5. tx' = [tx EXCEPT ![t] =
              At("open", None, tx[t].own \cup {Entry(t, c)}, Genesis)]
        BY <1>9, Effects
    <2>6. holder' \in [Locks -> Txs \cup {None}]
          /\ \A l \in Locks, u \in Txs : u # t /\ holder[l] # u => holder'[l] # u
        BY <1>3, <2>1
    <2> QED
        BY <1>1, <1>3, <2>1, <2>3, <2>4, <2>5, <2>6, TypeGoesOn
<1> QED
    BY <1>4, <1>5, <1>6, <1>7, <1>8, <1>9

(* A transaction that ends, with or without its entries.                   *)
LEMMA TypeEnd ==
    ASSUME TypeInv, NEW t \in Txs, tx' = [tx EXCEPT ![t] = Idle], Release(t),
           log' = log \/ log' = log \cup tx[t].own, UNCHANGED <<check, tampered>>,
           nextId' = nextId \/ nextId' = nextId + 1
    PROVE  TypeInv'
<1>1. /\ tx \in [Txs -> Transaction] /\ tx[t].own \in SUBSET Entries /\ log \in SUBSET Entries
      /\ holder \in [Locks -> Txs \cup {None}] /\ nextId \in Nat \ {0}
    BY DEF TypeInv, TypeOK, Transaction
<1>2. Idle \in Transaction /\ Idle.own = {}
    BY DEF Idle, Genesis, Transaction
<1>3. tx' \in [Txs -> Transaction]
    BY <1>1, <1>2
<1>4. holder' \in [Locks -> Txs \cup {None}] /\ nextId' \in Nat \ {0}
    BY <1>1 DEF Release
<1>5. log' \subseteq Entries /\ Topped(log')
    <2>1. Topped(log) /\ Topped(tx[t].own)
        BY DEF TypeInv
    <2>2. Topped(log \cup tx[t].own)
        BY <1>1, <2>1, ToppedUnion
    <2> QED
        BY <1>1, <2>1, <2>2
<1>6. Topped({})
    BY FS_EmptySet DEF Topped, HasNewest
<1>7. \A u \in Txs : tx'[u] = IF u = t THEN Idle ELSE tx[u]
    BY <1>1
<1>8. \A u \in Txs : Topped(tx'[u].own)
    BY <1>2, <1>6, <1>7 DEF TypeInv
<1>9. \A u \in Txs : tx'[u].pc = "idle" => tx'[u] = Idle /\ \A l \in Locks : holder'[l] # u
    <2>1. None \notin Txs
        BY LocksAssumption
    <2>2. \A l \in Locks : holder'[l] = IF holder[l] = t THEN None ELSE holder[l]
        BY DEF Release
    <2>3. \A u \in Txs : tx[u].pc = "idle" => tx[u] = Idle /\ \A l \in Locks : holder[l] # u
        BY DEF TypeInv, TypeOK
    <2>4. \A l \in Locks : holder'[l] # t
        BY <2>1, <2>2
    <2>5. \A u \in Txs, l \in Locks : u # t /\ holder[l] # u => holder'[l] # u
        BY <2>1, <2>2
    <2> QED
        BY <1>7, <2>3, <2>4, <2>5
<1> QED
    BY <1>3, <1>4, <1>5, <1>8, <1>9 DEF TypeInv, TypeOK

(* A verification.                                                         *)
LEMMA PassedTyped ==
    ASSUME NEW c \in [pc: {"none", "running", "valid", "broken"}, limit: Limits \cup {0},
                      expected: Seq(Texts), checked: Nat, last: Nat, at: Nat, old: BOOLEAN],
           NEW expected \in Seq(Texts), NEW checked \in Nat, NEW last \in Nat
    PROVE  [c EXCEPT !.expected = expected, !.checked = checked, !.last = last]
             \in [pc: {"none", "running", "valid", "broken"}, limit: Limits \cup {0},
                  expected: Seq(Texts), checked: Nat, last: Nat, at: Nat, old: BOOLEAN]
OBVIOUS

LEMMA TypeVerify ==
    ASSUME TypeInv, Verify
    PROVE  TypeInv'
<1>1. UNCHANGED <<log, tx, holder, nextId, tampered>>
    BY DEF Verify, CheckBatch, ReportValid, ReportBroken, StartCheck
<1>2. SUFFICES check' \in [pc: {"none", "running", "valid", "broken"}, limit: Limits \cup {0},
                           expected: Seq(Texts), checked: Nat, last: Nat, at: Nat, old: BOOLEAN]
    BY <1>1 DEF TypeInv, TypeOK
<1>3. check \in [pc: {"none", "running", "valid", "broken"}, limit: Limits \cup {0},
                 expected: Seq(Texts), checked: Nat, last: Nat, at: Nat, old: BOOLEAN]
    BY DEF TypeInv, TypeOK
<1>4. NextBatch \in SUBSET log /\ NextBatch \in SUBSET Entries /\ Topped(NextBatch)
    <2>1. NextBatch \in SUBSET log
        BY DEF NextBatch, After
    <2> QED
        BY <2>1, ToppedSubset DEF TypeInv, TypeOK
<1>5. CASE CheckBatch
    <2>1. Cardinality(NextBatch) \in Nat
        BY <1>4, FS_CardinalityType DEF Topped
    <2>2. TailOf(NextBatch) \in Seq(Texts) /\ Newest(NextBatch) \in Entries
        BY <1>4, <1>5, TailTyped DEF CheckBatch
    <2>3. Newest(NextBatch).id \in Nat
        BY <2>2 DEF Entries
    <2>4. check' = [check EXCEPT !.expected = TailOf(NextBatch),
                                 !.checked = @ + Cardinality(NextBatch),
                                 !.last = Newest(NextBatch).id]
        BY <1>5 DEF CheckBatch
    <2>5. check.checked + Cardinality(NextBatch) \in Nat
        BY <1>3, <2>1
    <2> QED
        BY <1>3, <2>2, <2>3, <2>4, <2>5, PassedTyped
<1>6. CASE ReportValid
    BY <1>3, <1>6 DEF ReportValid
<1>7. CASE ReportBroken
    <2>1. PICK e \in BadIn(NextBatch) : check' = [check EXCEPT !.pc = "broken", !.at = e.id]
        BY <1>7 DEF ReportBroken
    <2>2. e.id \in Nat
        BY <1>4 DEF BadIn, Entries
    <2> QED
        BY <1>3, <2>1, <2>2
<1>8. ASSUME NEW limit \in Limits, StartCheck(limit)
      PROVE  check' \in [pc: {"none", "running", "valid", "broken"}, limit: Limits \cup {0},
                         expected: Seq(Texts), checked: Nat, last: Nat, at: Nat, old: BOOLEAN]
    <2>1. tampered.old \in BOOLEAN
        BY DEF TypeInv, TypeOK
    <2>2. check' = [pc |-> "running", limit |-> limit, expected |-> <<>>, checked |-> 0,
                    last |-> 0, at |-> 0, old |-> tampered.old]
        BY <1>8 DEF StartCheck, NoCheck, Genesis
    <2> QED
        BY <2>1, <2>2
<1> QED
    BY <1>5, <1>6, <1>7, <1>8 DEF Verify

(* The table edited from outside.                                          *)
LEMMA TypeTamper ==
    ASSUME TypeInv, NEW id \in 1..MaxId, Tamper(id)
    PROVE  TypeInv'
<1> DEFINE others == {e \in log : e.id # id}
<1>1. PICK S \in {{}} \cup {{f} : f \in Forged(id)} : log' = others \cup S
    BY DEF Tamper
<1>2. id \in Nat \ {0}
    BY NumbersAssumption
<1>3. Forged(id) \subseteq Entries
    <2> DEFINE known == {Genesis} \cup {e.hash : e \in log}
    <2>1. \A h \in known : h \in Seq(Texts)
        <3>1. Genesis \in Seq(Texts)
            BY DEF Genesis
        <3>2. \A e \in log : e.hash \in Seq(Texts)
            BY DEF TypeInv, TypeOK, Entries
        <3> QED
            BY <3>1, <3>2
    <2>2. Fingerprints \subseteq Seq(Texts)
        <3> HIDE DEF known
        <3>1. \A h \in known, c \in Forgeries : Hash(h, c) \in Seq(Texts)
            BY <2>1 DEF Hash, Texts
        <3>2. Fingerprints = known \cup {Hash(h, c) : h \in known, c \in Forgeries}
            BY DEF Fingerprints, known
        <3> QED
            BY <2>1, <3>1, <3>2
    <2> QED
        BY <1>2, <2>2 DEF Forged, Entries, Texts
<1>4. S \in SUBSET Entries /\ Topped(S)
    <2>1. CASE S = {}
        BY <2>1, FS_EmptySet DEF Topped, HasNewest
    <2>2. ASSUME NEW f \in Forged(id), S = {f}
          PROVE  S \in SUBSET Entries /\ Topped(S)
        BY <1>3, <2>2, ToppedOne
    <2> QED
        BY <2>1, <2>2
<1>5. others \in SUBSET log /\ others \in SUBSET Entries /\ Topped(others)
    <2>1. others \in SUBSET log
        OBVIOUS
    <2> HIDE DEF others
    <2> QED
        BY <2>1, ToppedSubset DEF TypeInv, TypeOK
<1>6. log' \subseteq Entries /\ Topped(log')
    <2> HIDE DEF others
    <2> QED
        BY <1>1, <1>4, <1>5, ToppedUnion
<1>7. tampered' \in [id: Nat, old: BOOLEAN]
    BY <1>2 DEF Tamper
<1>8. UNCHANGED <<tx, holder, nextId, check>>
    BY DEF Tamper
<1> QED
    BY <1>6, <1>7, <1>8 DEF TypeInv, TypeOK

(* What a step of the system is.                                           *)
LEMMA Steps ==
    ASSUME Next
    PROVE  \/ \E t \in Txs :
                \/ Open(t) \/ (\E r \in Rows : Update(t, r)) \/ BeginAppend(t) \/ Get(t)
                \/ ReadTail(t) \/ \E c \in Contents : Insert(t, c)
           \/ \E t \in Txs : Commit(t)
           \/ \E t \in Txs :
                Undo(t) /\ (nextId' = nextId \/ (tx[t].pc = "read" /\ nextId' = nextId + 1))
           \/ Verify
           \/ \E id \in 1..MaxId : Tamper(id)
BY DEF Next, Step, BreakDeadlock, Rollback, Refused

LEMMA TypeNext == TypeInv /\ [Next]_vars => TypeInv'
<1> SUFFICES ASSUME TypeInv, [Next]_vars PROVE TypeInv'
    OBVIOUS
<1>1. CASE UNCHANGED vars
    BY <1>1 DEF vars, TypeInv, TypeOK
<1>2. CASE Next
    <2>1. ASSUME NEW t \in Txs, Commit(t) PROVE TypeInv'
        BY <2>1, TypeEnd DEF Commit
    <2>2. ASSUME NEW t \in Txs, Undo(t), nextId' = nextId \/ nextId' = nextId + 1
          PROVE  TypeInv'
        BY <2>2, TypeEnd DEF Undo
    <2> QED
        BY <1>2, <2>1, <2>2, Steps, TypeStep, TypeVerify, TypeTamper
<1> QED
    BY <1>1, <1>2

(* The table, the transactions and the verification keep their shape,      *)
(* whatever is done to the table (TypeOK).                                 *)
THEOREM TypeCorrect == Spec => []TypeOK
<1>1. TypeInv => TypeOK
    BY DEF TypeInv
<1> QED
    BY <1>1, TypeInit, TypeNext, PTL DEF Spec

-----------------------------------------------------------------------------
(* Chains.  An entry is good if it has the fingerprint of what it says and *)
(* points at the entry before it.                                          *)

Good(S, e) == e.hash = Hash(e.prev, e.content) /\ e.prev = TailOf(Before(S, e.id))

Distinct(S) == \A e, f \in S : e.id = f.id => e = f

(* The entry tampered with and the one that follows it may not be good:    *)
(* all others are.  An id of 0 is of no entry: all are good.               *)
Trusted(S, e, id) == id = 0 \/ e.id < id \/ \E g \in S : id < g.id /\ g.id < e.id
Sound(S, id) == \A e \in S : Trusted(S, e, id) => Good(S, e)

(* A fingerprint tells its contents apart, and is never that of the entry  *)
(* before.                                                                 *)
LEMMA HashTells ==
    ASSUME NEW h \in Seq(Texts), NEW c \in Texts, NEW d \in Texts
    PROVE  Hash(h, c) # h /\ (Hash(h, c) = Hash(h, d) => c = d)
<1>1. Len(Append(h, c)) # Len(h)
    OBVIOUS
<1>2. Append(h, c)[Len(h) + 1] = c /\ Append(h, d)[Len(h) + 1] = d
    OBVIOUS
<1> QED
    BY <1>1, <1>2 DEF Hash

(* The first of a set of ids.                                              *)
LEMMA Least ==
    ASSUME NEW S \in SUBSET Nat, S # {}
    PROVE  \E m \in S : \A n \in S : m <= n
<1> DEFINE R == OpToRel(<, Nat)
<1>1. IsWellFoundedOn(R, Nat)
    BY NatLessThanWellFounded, Zenon
<1>2. \A x, y \in Nat : x < y => <<x, y>> \in R
    BY Zenon DEF OpToRel
<1> HIDE DEF R
<1>3. \E m \in S : \A n \in S : ~(<<n, m>> \in R)
    BY <1>1, WFMin
<1>4. PICK m \in S : \A n \in S : ~(<<n, m>> \in R)
    BY <1>3
<1>5. \A n \in S : ~(n < m)
    BY <1>2, <1>4
<1> QED
    BY <1>5

(* The newest entry is the one no other has an id above.                   *)
LEMMA NewestIs ==
    ASSUME NEW S \in SUBSET Entries, Distinct(S), NEW m \in S, \A f \in S : f.id <= m.id
    PROVE  Newest(S) = m
<1>1. \A x \in S : (\A f \in S : f.id <= x.id) => x.id = m.id
    BY DEF Entries
<1>2. \A x \in S : (\A f \in S : f.id <= x.id) => x = m
    BY <1>1 DEF Distinct
<1> QED
    BY <1>2 DEF Newest

(* Only the newest entries count.                                          *)
LEMMA SameTail ==
    ASSUME NEW A \in SUBSET Entries, NEW B \in SUBSET Entries, Topped(A), Distinct(A), Distinct(B),
           NEW g \in A, \A x \in Entries : x.id >= g.id => (x \in A <=> x \in B)
    PROVE  TailOf(A) = TailOf(B)
<1>1. PICK m \in A : \A f \in A : f.id <= m.id
    BY DEF Topped, HasNewest
<1>2. g.id \in Nat /\ m.id \in Nat /\ \A f \in B : f.id \in Nat
    BY DEF Entries
<1>3. m \in B /\ m.id >= g.id
    BY <1>1, <1>2
<1>4. \A f \in B : f.id <= m.id
    BY <1>1, <1>2, <1>3
<1>5. Newest(A) = m /\ Newest(B) = m
    BY <1>1, <1>3, <1>4, NewestIs
<1> QED
    BY <1>3, <1>5 DEF TailOf

(* An entry that points at the newest of a chain prolongs it.              *)
LEMMA SoundAppend ==
    ASSUME NEW S \in SUBSET Entries, NEW e \in Entries, NEW id \in Nat, Sound(S, id),
           \A f \in S : f.id < e.id, e.hash = Hash(e.prev, e.content),
           Trusted(S \cup {e}, e, id) => e.prev = TailOf(S)
    PROVE  Sound(S \cup {e}, id)
<1>1. Before(S \cup {e}, e.id) = S
    BY DEF Before, Entries
<1>2. \A f \in S : Before(S \cup {e}, f.id) = Before(S, f.id)
    BY DEF Before, Entries
<1>3. \A f \in S : Trusted(S \cup {e}, f, id) => Trusted(S, f, id)
    BY DEF Trusted, Entries
<1>4. \A f \in S : Good(S \cup {e}, f) <=> Good(S, f)
    BY <1>2 DEF Good
<1>5. Trusted(S \cup {e}, e, id) => Good(S \cup {e}, e)
    BY <1>1 DEF Good
<1> QED
    BY <1>3, <1>4, <1>5 DEF Sound

(* Whatever is done to one entry, only it and the next one show it.        *)
LEMMA SoundTamper ==
    ASSUME NEW S \in SUBSET Entries, NEW T \in SUBSET Entries, Topped(S), Distinct(S), Distinct(T),
           NEW id \in Nat \ {0}, Sound(S, 0),
           \A x \in Entries : x.id # id => (x \in S <=> x \in T)
    PROVE  Sound(T, id)
<1> SUFFICES ASSUME NEW e \in T, Trusted(T, e, id) PROVE Good(T, e)
    BY DEF Sound
<1>1. e.id \in Nat /\ \A x \in Entries : x.id \in Nat
    BY DEF Entries
<1>2. e.id # id
    BY <1>1 DEF Trusted
<1>3. Good(S, e)
    BY <1>2 DEF Sound, Trusted
<1>4. CASE e.id < id
    <2>1. Before(T, e.id) = Before(S, e.id)
        BY <1>1, <1>4 DEF Before
    <2> QED
        BY <1>3, <2>1 DEF Good
<1>5. ASSUME NEW g \in T, id < g.id, g.id < e.id PROVE Good(T, e)
    <2>1. g.id \in Nat /\ g \in S
        BY <1>1, <1>5
    <2> DEFINE A == Before(S, e.id)
               B == Before(T, e.id)
    <2>2. A \in SUBSET S /\ B \in SUBSET T /\ g \in A
        BY <1>5, <2>1 DEF Before
    <2>3. Topped(A) /\ Distinct(A) /\ Distinct(B)
        BY <2>2, ToppedSubset DEF Distinct
    <2>4. \A x \in Entries : x.id >= g.id => (x \in A <=> x \in B)
        BY <1>1, <1>5, <2>1 DEF Before
    <2> HIDE DEF A, B
    <2>5. TailOf(A) = TailOf(B)
        BY <2>2, <2>3, <2>4, SameTail
    <2> QED
        BY <1>3, <2>5 DEF Good, A, B
<1> QED
    BY <1>2, <1>4, <1>5 DEF Trusted

-----------------------------------------------------------------------------
(* The log.  Whoever makes an entry holds the lock until it is committed   *)
(* or undone: so nobody else has entries of their own, their ids are the   *)
(* last ones drawn, and what was read as the newest entry still is when    *)
(* the next one is made, unless it was tampered with.                      *)

Mine(t) == tx[t].own # {} \/ tx[t].pc \in {"locked", "read"}

Current(t) ==
    \/ tx[t].tail = TailOf(log \cup tx[t].own)
    \/ tampered.id # 0 /\ \A e \in log \cup tx[t].own : e.id <= tampered.id

ChainInv ==
    /\ tampered.id < nextId
    /\ tampered.old => tampered.id # 0 /\ \E e \in log : ~Good(log, e)
    /\ Distinct(log) /\ Sound(log, tampered.id)
    /\ \A e \in log : e.id < nextId
    /\ \A t \in Txs : \A e \in tx[t].own : e.id < nextId /\ \A f \in log : f.id < e.id
    /\ \A t \in Txs : \A e \in tx[t].own, n \in Nat :
          e.id <= n /\ n < nextId => \E f \in tx[t].own : f.id = n
    /\ \A t \in Txs : Sound(log \cup tx[t].own, tampered.id) /\ Distinct(tx[t].own)
    /\ \A t \in Txs : Mine(t) => holder[AuditLock] = t
    /\ \A t \in Txs : tx[t].pc = "read" => Current(t)

LEMMA ChainInit == Init => ChainInv
BY DEF Init, ChainInv, Distinct, Mine, Sound, Idle

LEMMA ChainTyped ==
    ASSUME TypeInv
    PROVE  /\ log \in SUBSET Entries /\ Topped(log) /\ nextId \in Nat /\ tampered.id \in Nat
           /\ \A t \in Txs : tx[t].own \in SUBSET Entries /\ Topped(tx[t].own)
BY DEF TypeInv, TypeOK, Transaction

(* Nobody but the holder of the lock has anything in the making.           *)
LEMMA OneAtATime ==
    ASSUME ChainInv, NEW t \in Txs, NEW u \in Txs, Mine(t), Mine(u)
    PROVE  t = u
BY DEF ChainInv

(* Steps that leave a transaction's entries and what it read alone.        *)
LEMMA ChainQuiet ==
    ASSUME TypeInv, ChainInv, NEW t \in Txs, NEW pc, NEW wants, NEW tail,
           tx' = [tx EXCEPT ![t] = At(pc, wants, tx[t].own, tail)],
           pc = "read" => tail = TailOf(log \cup tx[t].own),
           pc \in {"locked", "read"} => holder'[AuditLock] = t,
           \A u \in Txs : holder[AuditLock] = u => holder'[AuditLock] = u,
           UNCHANGED <<log, nextId, tampered>>
    PROVE  ChainInv'
<1>1. \A u \in Txs : tx'[u].own = tx[u].own
    BY Effects DEF At
<1>2. tx'[t].pc = pc /\ tx'[t].tail = tail
    BY Effects DEF At
<1>3. \A u \in Txs : u # t => tx'[u] = tx[u]
    BY Effects
<1>4. \A u \in Txs : Mine(u)' => holder'[AuditLock] = u
    <2>1. \A u \in Txs : u # t /\ Mine(u)' => Mine(u)
        BY <1>1, <1>3 DEF Mine
    <2>2. Mine(t)' => Mine(t) \/ pc \in {"locked", "read"}
        BY <1>1, <1>2 DEF Mine
    <2> QED
        BY <2>1, <2>2 DEF ChainInv
<1>5. \A u \in Txs : tx'[u].pc = "read" => Current(u)'
    <2>1. ASSUME NEW u \in Txs, u # t, tx'[u].pc = "read" PROVE Current(u)'
        <3>1. Current(u)
            BY <1>3, <2>1 DEF ChainInv
        <3> QED
            BY <1>1, <1>3, <2>1, <3>1 DEF Current
    <2>2. tx'[t].pc = "read" => Current(t)'
        BY <1>1, <1>2 DEF Current
    <2> QED
        BY <2>1, <2>2
<1>6. \A u \in Txs : Sound(log' \cup tx'[u].own, tampered'.id) /\ Distinct(tx'[u].own)
    BY <1>1 DEF ChainInv
<1>7. /\ Sound(log', tampered'.id) /\ Distinct(log') /\ tampered'.id < nextId'
      /\ tampered'.old => tampered'.id # 0 /\ \E e \in log' : ~Good(log', e)
      /\ \A e \in log' : e.id < nextId'
    BY DEF ChainInv
<1>8. \A u \in Txs : \A e \in tx'[u].own : e.id < nextId' /\ \A f \in log' : f.id < e.id
    BY <1>1 DEF ChainInv
<1>9. \A u \in Txs : \A e \in tx'[u].own, n \in Nat :
          e.id <= n /\ n < nextId' => \E f \in tx'[u].own : f.id = n
    BY <1>1 DEF ChainInv
<1> QED
    BY <1>4, <1>5, <1>6, <1>7, <1>8, <1>9 DEF ChainInv

(* The entry that is made.                                                 *)
LEMMA ChainInsert ==
    ASSUME TypeInv, ChainInv, NEW t \in Txs, NEW c \in Contents, Insert(t, c)
    PROVE  ChainInv'
<1> DEFINE e == Entry(t, c)
<1>1. /\ tx' = [tx EXCEPT ![t] = At("open", None, tx[t].own \cup {e}, Genesis)]
      /\ tx[t].pc = "read" /\ UNCHANGED <<log, holder, tampered>> /\ nextId' = nextId + 1
    BY Effects DEF Insert
<1>2. /\ e \in Entries /\ e.id = nextId /\ e.prev = tx[t].tail /\ e.hash = Hash(e.prev, e.content)
    <2>1. tx[t].tail \in Seq(Texts) /\ c \in Texts /\ nextId \in Nat \ {0}
        BY DEF TypeInv, TypeOK, Texts, Transaction
    <2> QED
        BY <2>1 DEF Entry, Entries, Hash
<1>3. /\ log \in SUBSET Entries /\ nextId \in Nat /\ tampered.id \in Nat
      /\ \A u \in Txs : tx[u].own \in SUBSET Entries
    BY ChainTyped
<1> HIDE DEF e
<1>4. tx'[t].own = tx[t].own \cup {e} /\ tx'[t].pc = "open"
    BY <1>1, Effects DEF At
<1>5. \A u \in Txs : u # t => tx'[u] = tx[u] /\ tx[u].own = {} /\ tx[u].pc \notin {"locked", "read"}
    BY <1>1, Effects, OneAtATime DEF Mine
<1>6. Sound(log \cup (tx[t].own \cup {e}), tampered.id)
    <2> DEFINE S == log \cup tx[t].own
    <2>1. S \in SUBSET Entries
        BY <1>3
    <2>2. \A f \in S : f.id < e.id
        BY <1>2 DEF ChainInv
    <2>3. Sound(S, tampered.id)
        BY DEF ChainInv
    <2>4. Trusted(S \cup {e}, e, tampered.id) => e.prev = TailOf(S)
        <3>1. Current(t) /\ tampered.id < e.id
            BY <1>1, <1>2 DEF ChainInv
        <3>2. \A g \in S : g.id \in Nat
            BY <2>1 DEF Entries
        <3> QED
            BY <1>2, <1>3, <3>1, <3>2 DEF Current, Trusted
    <2>5. log \cup (tx[t].own \cup {e}) = S \cup {e}
        OBVIOUS
    <2> HIDE DEF S
    <2>6. Sound(S \cup {e}, tampered.id)
        BY <1>2, <1>3, <2>1, <2>2, <2>3, <2>4, SoundAppend
    <2> QED
        BY <2>5, <2>6
<1>7. \A u \in Txs : Sound(log' \cup tx'[u].own, tampered'.id) /\ Distinct(tx'[u].own)
    <2>1. \A f \in tx[t].own : f.id < e.id
        BY <1>2 DEF ChainInv
    <2>2. Distinct(tx[t].own) /\ \A f \in tx[t].own : f.id # e.id
        <3>1. e.id \in Nat /\ \A f \in tx[t].own : f.id \in Nat
            BY <1>2, <1>3 DEF Entries
        <3>2. \A f \in tx[t].own : f.id # e.id
            BY <2>1, <3>1
        <3> QED
            BY <3>2 DEF ChainInv
    <2>3. Distinct(tx[t].own \cup {e})
        BY <2>2 DEF Distinct
    <2> QED
        BY <1>1, <1>4, <1>5, <1>6, <2>3 DEF ChainInv
<1>8. \A u \in Txs : \A f \in tx'[u].own : f.id < nextId' /\ \A g \in log' : g.id < f.id
    <2>1. \A g \in log : g.id < nextId /\ g.id \in Nat
        BY <1>3 DEF ChainInv, Entries
    <2>2. \A f \in tx[t].own : f.id < nextId + 1 /\ \A g \in log : g.id < f.id
        BY <1>3 DEF ChainInv, Entries
    <2>3. \A f \in tx'[t].own : f.id < nextId + 1 /\ \A g \in log : g.id < f.id
        BY <1>2, <1>3, <1>4, <2>1, <2>2
    <2> QED
        BY <1>1, <1>5, <2>3
<1>9. \A u \in Txs : \A f \in tx'[u].own, n \in Nat :
          f.id <= n /\ n < nextId' => \E g \in tx'[u].own : g.id = n
    <2>1. ASSUME NEW f \in tx'[t].own, NEW n \in Nat, f.id <= n, n < nextId + 1
          PROVE  \E g \in tx'[t].own : g.id = n
        <3>1. CASE n = nextId
            BY <1>2, <1>4, <3>1
        <3>2. CASE n # nextId
            <4>1. n < nextId /\ f \in tx[t].own
                BY <1>2, <1>3, <1>4, <2>1, <3>2
            <4> QED
                BY <1>4, <2>1, <4>1 DEF ChainInv
        <3> QED
            BY <3>1, <3>2
    <2> QED
        BY <1>1, <1>5, <2>1
<1>10. \A u \in Txs : Mine(u)' => holder'[AuditLock] = u
    <2>1. holder[AuditLock] = t
        BY <1>1 DEF ChainInv, Mine
    <2> QED
        BY <1>1, <1>5, <2>1 DEF Mine
<1>11. \A u \in Txs : tx'[u].pc # "read"
    BY <1>4, <1>5
<1>12. /\ Sound(log', tampered'.id) /\ Distinct(log') /\ tampered'.id < nextId'
       /\ tampered'.old => tampered'.id # 0 /\ \E f \in log' : ~Good(log', f)
       /\ \A f \in log' : f.id < nextId'
    BY <1>1, <1>3 DEF ChainInv, Entries
<1> QED
    BY <1>7, <1>8, <1>9, <1>10, <1>11, <1>12 DEF ChainInv

(* What is committed changes nothing for the entries before it.            *)
LEMMA GoodStays ==
    ASSUME TypeInv, ChainInv, NEW t \in Txs, NEW e \in log
    PROVE  Good(log \cup tx[t].own, e) <=> Good(log, e)
<1>1. e.id \in Nat /\ \A f \in tx[t].own : f.id \in Nat /\ e.id < f.id
    BY ChainTyped DEF ChainInv, Entries
<1>2. Before(log \cup tx[t].own, e.id) = Before(log, e.id)
    BY <1>1 DEF Before
<1> QED
    BY <1>2 DEF Good

(* The end of a transaction.                                               *)
LEMMA ChainEnd ==
    ASSUME TypeInv, ChainInv, NEW t \in Txs, tx' = [tx EXCEPT ![t] = Idle], Release(t),
           log' = log \/ log' = log \cup tx[t].own, UNCHANGED tampered,
           nextId' = nextId \/ (tx[t].pc = "read" /\ nextId' = nextId + 1)
    PROVE  ChainInv'
<1>1. \A u \in Txs : tx'[u] = IF u = t THEN Idle ELSE tx[u]
    BY Effects
<1>2. Idle.own = {} /\ Idle.pc = "idle"
    BY DEF Idle
<1>3. /\ log \in SUBSET Entries /\ nextId \in Nat /\ tampered.id \in Nat
      /\ \A u \in Txs : tx[u].own \in SUBSET Entries
    BY ChainTyped
<1>4. (\A e \in log' : e.id < nextId') /\ tampered'.id < nextId'
    BY <1>3 DEF ChainInv, Entries
<1>5. Sound(log', tampered'.id) /\ Distinct(log')
    <2>1. \A e \in tx[t].own, f \in log : e.id # f.id
        <3>1. \A e \in tx[t].own : e.id \in Nat
            BY <1>3 DEF Entries
        <3>2. \A f \in log : f.id \in Nat
            BY <1>3 DEF Entries
        <3> QED
            BY <3>1, <3>2 DEF ChainInv
    <2>2. Distinct(log) /\ Distinct(tx[t].own)
        BY DEF ChainInv
    <2>3. Distinct(log \cup tx[t].own)
        BY <2>1, <2>2 DEF Distinct
    <2> QED
        BY <2>2, <2>3 DEF ChainInv
<1>6. \A u \in Txs : u # t /\ Mine(u) => log' = log /\ nextId' = nextId
    <2>1. ASSUME NEW u \in Txs, u # t, Mine(u) PROVE tx[t].own = {} /\ tx[t].pc # "read"
        BY <2>1, OneAtATime DEF Mine
    <2> QED
        BY <2>1
<1>7. \A u \in Txs : Mine(u)' =>
          u # t /\ Mine(u) /\ tx'[u] = tx[u] /\ log' = log /\ nextId' = nextId
    BY <1>1, <1>2, <1>6 DEF Mine
<1>8. \A u \in Txs : \A e \in tx'[u].own :
          /\ e.id < nextId' /\ \A f \in log' : f.id < e.id
          /\ \A n \in Nat : e.id <= n /\ n < nextId' => \E f \in tx'[u].own : f.id = n
    <2>1. \A u \in Txs : \A e \in tx'[u].own : Mine(u)'
        BY DEF Mine
    <2> QED
        BY <1>7, <2>1 DEF ChainInv
<1>9. \A u \in Txs : Sound(log' \cup tx'[u].own, tampered'.id) /\ Distinct(tx'[u].own)
    <2>1. ASSUME NEW u \in Txs, Mine(u)'
          PROVE  Sound(log' \cup tx'[u].own, tampered'.id) /\ Distinct(tx'[u].own)
        BY <1>7, <2>1 DEF ChainInv
    <2>2. ASSUME NEW u \in Txs, ~Mine(u)'
          PROVE  Sound(log' \cup tx'[u].own, tampered'.id) /\ Distinct(tx'[u].own)
        <3>1. tx'[u].own = {}
            BY <2>2 DEF Mine
        <3>2. log' \cup tx'[u].own = log'
            BY <3>1
        <3> QED
            BY <1>5, <3>1, <3>2 DEF Distinct
    <2> QED
        BY <2>1, <2>2
<1>10. \A u \in Txs : Mine(u)' => holder'[AuditLock] = u
    BY <1>7 DEF ChainInv, Release, Locks
<1>11. ASSUME NEW u \in Txs, tx'[u].pc = "read" PROVE Current(u)'
    <2>1. tx'[u] = tx[u] /\ log' = log
        BY <1>7, <1>11 DEF Mine
    <2>2. Current(u)
        BY <1>11, <2>1 DEF ChainInv
    <2> QED
        BY <2>1, <2>2 DEF Current
<1>12. tampered'.old => tampered'.id # 0 /\ \E e \in log' : ~Good(log', e)
    <2>1. CASE log' = log
        BY <2>1 DEF ChainInv
    <2>2. CASE log' = log \cup tx[t].own
        BY <2>2, GoodStays DEF ChainInv
    <2> QED
        BY <2>1, <2>2
<1> QED
    BY <1>4, <1>5, <1>8, <1>9, <1>10, <1>11, <1>12 DEF ChainInv

-----------------------------------------------------------------------------
(* The table edited from outside.                                          *)

(* One entry is put in, replaced or taken out, and it is no transaction's. *)
LEMMA Edited ==
    ASSUME TypeInv, ChainInv, NEW id \in 1..MaxId, Tamper(id)
    PROVE  /\ id \in Nat \ {0} /\ id < nextId
           /\ \A x \in Entries : x.id # id => (x \in log <=> x \in log')
           /\ log' # log /\ Distinct(log')
           /\ \A x \in log', t \in Txs : \A e \in tx[t].own : x.id = id => x.id # e.id
<1> DEFINE others == {e \in log : e.id # id}
<1>1. PICK S \in {{}} \cup {{f} : f \in Forged(id)} :
          /\ log' = others \cup S /\ others \cup S # log
          /\ \A f \in S, t \in Txs : \A e \in tx[t].own : f.id # e.id
    BY DEF Tamper
<1>2. id \in Nat \ {0} /\ id < nextId
    BY NumbersAssumption DEF Tamper
<1>3. (\A f \in S : f.id = id) /\ \A f, g \in S : f = g
    BY DEF Forged
<1>4. Distinct(log)
    BY DEF ChainInv
<1> QED
    BY <1>1, <1>2, <1>3, <1>4 DEF Distinct

(* What the entry that follows an id points at, in a good chain.           *)
LEMMA NextPointsAt ==
    ASSUME NEW S \in SUBSET Entries, Distinct(S), NEW id \in Nat, NEW e \in Entries, id < e.id,
           \A x \in S : ~(id < x.id /\ x.id < e.id)
    PROVE  /\ (\A x \in S : x.id # id) => Before(S, e.id) = Before(S, id)
           /\ \A x \in S : x.id = id => TailOf(Before(S, e.id)) = x.hash
<1>1. e.id \in Nat /\ \A x \in S : x.id \in Nat
    BY DEF Entries
<1>2. (\A x \in S : x.id # id) => Before(S, e.id) = Before(S, id)
    BY <1>1 DEF Before
<1>3. ASSUME NEW x \in S, x.id = id PROVE TailOf(Before(S, e.id)) = x.hash
    <2> DEFINE B == Before(S, e.id)
    <2>1. B \in SUBSET Entries /\ Distinct(B) /\ x \in B
        BY <1>1, <1>3 DEF Before, Distinct
    <2>2. \A f \in B : f.id <= x.id
        BY <1>1, <1>3 DEF Before
    <2> HIDE DEF B
    <2>3. Newest(B) = x
        BY <2>1, <2>2, NewestIs
    <2> QED
        BY <2>1, <2>3 DEF TailOf, B
<1> QED
    BY <1>2, <1>3

(* An edit of an entry that others follow leaves an entry that is not good.*)
LEMMA EditShows ==
    ASSUME TypeInv, ChainInv, NEW id \in 1..MaxId, Tamper(id), After(id) # {}
    PROVE  \E e \in log' : ~Good(log', e)
<1> SUFFICES ASSUME \A e \in log' : Good(log', e) PROVE FALSE
    OBVIOUS
<1>0. /\ log \in SUBSET Entries /\ log' \in SUBSET Entries /\ Distinct(log) /\ Distinct(log')
      /\ id \in Nat \ {0} /\ log' # log /\ \A e \in log : Good(log, e)
      /\ \A x \in Entries : x.id # id => (x \in log <=> x \in log')
      /\ \A x \in Entries : x.id \in Nat
    <2>1. log' \in SUBSET Entries
        BY TypeTamper DEF TypeInv, TypeOK
    <2>2. \A e \in log : Good(log, e)
        BY DEF Tamper, ChainInv, Sound, Trusted
    <2> QED
        BY <2>1, <2>2, ChainTyped, Edited DEF ChainInv, Entries
<1>1. PICK e \in log : id < e.id /\ \A x \in log : ~(id < x.id /\ x.id < e.id)
    <2> DEFINE ids == {x.id : x \in After(id)}
    <2>1. ids \in SUBSET Nat /\ ids # {}
        BY <1>0 DEF After
    <2>2. \A x \in log : id < x.id => x.id \in ids
        BY <1>0 DEF After
    <2>3. \A n \in ids : \E x \in log : x.id = n /\ id < n
        BY <1>0 DEF After
    <2> HIDE DEF ids
    <2>4. PICK m \in ids : \A n \in ids : m <= n
        BY <2>1, Least
    <2>5. \A x \in log : ~(id < x.id /\ x.id < m)
        BY <1>0, <2>1, <2>2, <2>4
    <2> QED
        BY <2>3, <2>4, <2>5
<1>2. e \in log' /\ \A x \in log' : ~(id < x.id /\ x.id < e.id)
    BY <1>0, <1>1
<1>3. Before(log, id) = Before(log', id)
    BY <1>0 DEF Before
<1> DEFINE h == TailOf(Before(log, id))
<1>4. h \in Seq(Texts)
    <2>1. Before(log, id) \in SUBSET log
        BY DEF Before
    <2> QED
        BY <1>0, <2>1, ChainTyped, ToppedSubset, TailTyped
<1>5. e.prev = TailOf(Before(log, e.id)) /\ e.prev = TailOf(Before(log', e.id))
    BY <1>0, <1>1, <1>2 DEF Good
<1>6. \A x \in log : x.id = id => x.prev = h /\ x.hash = Hash(h, x.content) /\ e.prev = x.hash
    BY <1>0, <1>1, <1>5, NextPointsAt DEF Good
<1>7. \A x \in log' : x.id = id => x.prev = h /\ x.hash = Hash(h, x.content) /\ e.prev = x.hash
    BY <1>0, <1>1, <1>2, <1>3, <1>5, NextPointsAt DEF Good
<1>8. /\ (\A x \in log : x.id # id) => e.prev = h
      /\ (\A x \in log' : x.id # id) => e.prev = h
    BY <1>0, <1>1, <1>2, <1>3, <1>5, NextPointsAt
<1> HIDE DEF h
<1>9. \A x \in Entries : x.content \in Texts
    BY DEF Entries
<1>10. ASSUME NEW x \in log, x.id = id PROVE FALSE
    <2>1. PICK y \in log' : y.id = id
        BY <1>0, <1>4, <1>6, <1>8, <1>9, <1>10, HashTells
    <2>2. x.prev = y.prev /\ x.hash = y.hash /\ x.content = y.content
        <3>1. Hash(h, x.content) = Hash(h, y.content) /\ x.content \in Texts /\ y.content \in Texts
            BY <1>0, <1>6, <1>7, <1>9, <1>10, <2>1
        <3>2. x.content = y.content
            BY <1>4, <3>1, HashTells
        <3> QED
            BY <1>6, <1>7, <1>10, <2>1, <3>2
    <2>3. x = y
        <3>1. x \in Entries /\ y \in Entries /\ x.id = y.id
            BY <1>0, <1>10, <2>1
        <3> QED
            BY <2>2, <3>1 DEF Entries
    <2>4. \A z \in Entries : z \in log <=> z \in log'
        BY <1>0, <1>10, <2>1, <2>3 DEF Distinct
    <2> QED
        BY <1>0, <2>4
<1>11. ASSUME NEW y \in log', y.id = id PROVE FALSE
    BY <1>0, <1>4, <1>7, <1>8, <1>9, <1>10, <1>11, HashTells
<1>12. \A z \in Entries : z \in log <=> z \in log'
    BY <1>0, <1>10, <1>11
<1> QED
    BY <1>0, <1>12

(* What is done to one entry is seen at that entry or the next one only.   *)
LEMMA ChainTamper ==
    ASSUME TypeInv, ChainInv, NEW id \in 1..MaxId, Tamper(id)
    PROVE  ChainInv'
<1>1. /\ tampered.id = 0 /\ tampered'.id = id /\ (tampered'.old => After(id) # {})
      /\ UNCHANGED <<tx, holder, nextId>>
    <2>1. PICK b \in BOOLEAN : b = (After(id) # {})
        BY Zenon
    <2>2. tampered' = [id |-> id, old |-> After(id) # {}]
        BY DEF Tamper
    <2>3. tampered' = [id |-> id, old |-> b]
        BY <2>1, <2>2, Zenon
    <2>4. tampered'.id = id /\ tampered'.old = b
        BY <2>3
    <2>5. tampered'.old => After(id) # {}
        BY <2>1, <2>4, Zenon
    <2>6. tampered.id = 0 /\ UNCHANGED <<tx, holder, nextId>>
        BY DEF Tamper
    <2> QED
        BY <2>4, <2>5, <2>6
<1>2. /\ id \in Nat \ {0} /\ id < nextId /\ Distinct(log')
      /\ \A x \in Entries : x.id # id => (x \in log <=> x \in log')
      /\ \A x \in log', t \in Txs : \A e \in tx[t].own : x.id = id => x.id # e.id
    BY Edited
<1>3. /\ log \in SUBSET Entries /\ Topped(log) /\ log' \in SUBSET Entries /\ Topped(log')
      /\ nextId \in Nat /\ \A t \in Txs : tx[t].own \in SUBSET Entries /\ Topped(tx[t].own)
    BY ChainTyped, TypeTamper DEF TypeInv, TypeOK
<1>4. /\ Distinct(log) /\ Sound(log, 0) /\ \A e \in log : e.id < nextId
      /\ \A t \in Txs : Sound(log \cup tx[t].own, 0) /\ Distinct(tx[t].own)
      /\ \A t \in Txs : \A e \in tx[t].own : \A f \in log : f.id < e.id
    BY <1>1 DEF ChainInv
<1>5. Sound(log', id)
    BY <1>2, <1>3, <1>4, SoundTamper
<1>6. tampered'.old => \E e \in log' : ~Good(log', e)
    BY <1>1, EditShows
<1>7. \A t \in Txs : \A e \in tx[t].own : \A f \in log' : f.id < e.id
    <2> SUFFICES ASSUME NEW t \in Txs, NEW e \in tx[t].own, NEW f \in log' PROVE f.id < e.id
        OBVIOUS
    <2>1. CASE f.id # id
        BY <1>2, <1>3, <1>4, <2>1
    <2>2. CASE f.id = id
        <3>1. \A g \in tx[t].own : g.id # id /\ g.id \in Nat
            BY <1>2, <1>3, <2>2 DEF Entries
        <3>2. ~(e.id <= id)
            BY <1>2, <3>1 DEF ChainInv
        <3> QED
            BY <1>2, <2>2, <3>1, <3>2
    <2> QED
        BY <2>1, <2>2
<1>8. ASSUME NEW t \in Txs
      PROVE  /\ Sound(log' \cup tx[t].own, id)
             /\ \/ \A e \in log' \cup tx[t].own : e.id <= id
                \/ TailOf(log' \cup tx[t].own) = TailOf(log \cup tx[t].own)
    <2> DEFINE S == log \cup tx[t].own
               T == log' \cup tx[t].own
    <2>1. S \in SUBSET Entries /\ T \in SUBSET Entries /\ Topped(S)
        BY <1>3, ToppedUnion
    <2>2. Distinct(S) /\ Distinct(T)
        <3>1. \A e \in tx[t].own : e.id \in Nat
            BY <1>3 DEF Entries
        <3>2. \A e \in tx[t].own : (\A f \in log : f.id # e.id) /\ \A f \in log' : f.id # e.id
            BY <1>3, <1>4, <1>7, <3>1
        <3> QED
            BY <1>2, <1>4, <3>2 DEF Distinct
    <2>3. \A x \in Entries : x.id # id => (x \in S <=> x \in T)
        BY <1>2
    <2>4. Sound(S, 0)
        BY <1>4
    <2> HIDE DEF S, T
    <2>5. Sound(T, id)
        BY <1>2, <2>1, <2>2, <2>3, <2>4, SoundTamper
    <2>6. ASSUME NEW g \in T, ~(g.id <= id) PROVE TailOf(T) = TailOf(S)
        <3>1. \A x \in Entries : x.id \in Nat
            BY DEF Entries
        <3>2. g \in S /\ \A x \in Entries : x.id >= g.id => (x \in S <=> x \in T)
            BY <1>2, <2>1, <2>3, <2>6, <3>1
        <3> QED
            BY <2>1, <2>2, <3>2, SameTail
    <2> QED
        BY <2>5, <2>6 DEF S, T
<1>9. ASSUME NEW t \in Txs, tx[t].pc = "read" PROVE Current(t)'
    <2>1. tx[t].tail = TailOf(log \cup tx[t].own)
        BY <1>1, <1>9 DEF ChainInv, Current
    <2> QED
        BY <1>1, <1>2, <1>8, <2>1 DEF Current
<1>10. \A e \in log' : e.id < nextId
    BY <1>2, <1>3, <1>4
<1>11. \A t \in Txs : Mine(t)' => holder'[AuditLock] = t
    BY <1>1 DEF ChainInv, Mine
<1>12. \A t \in Txs : \A e \in tx'[t].own : e.id < nextId' /\ \A f \in log' : f.id < e.id
    <2>1. \A t \in Txs : \A e \in tx[t].own : e.id < nextId
        BY DEF ChainInv
    <2> QED
        BY <1>1, <1>7, <2>1
<1>13. \A t \in Txs : \A e \in tx'[t].own, n \in Nat :
           e.id <= n /\ n < nextId' => \E f \in tx'[t].own : f.id = n
    BY <1>1 DEF ChainInv
<1>14. \A t \in Txs : Sound(log' \cup tx'[t].own, tampered'.id) /\ Distinct(tx'[t].own)
    BY <1>1, <1>4, <1>8
<1>15. \A t \in Txs : tx'[t].pc = "read" => Current(t)'
    BY <1>1, <1>9
<1>16. /\ tampered'.id < nextId' /\ (\A e \in log' : e.id < nextId')
       /\ Sound(log', tampered'.id) /\ Distinct(log')
       /\ tampered'.old => tampered'.id # 0 /\ \E e \in log' : ~Good(log', e)
    BY <1>1, <1>2, <1>5, <1>6, <1>10
<1> QED
    BY <1>11, <1>12, <1>13, <1>14, <1>15, <1>16 DEF ChainInv

LEMMA ChainNext == TypeInv /\ ChainInv /\ [Next]_vars => ChainInv'
<1> SUFFICES ASSUME TypeInv, ChainInv, [Next]_vars PROVE ChainInv'
    OBVIOUS
<1>1. CASE UNCHANGED <<log, tx, holder, nextId, tampered>>
    BY <1>1 DEF ChainInv, Mine, Current
<1>2. None \notin Txs /\ AuditLock \in Locks /\ holder \in [Locks -> Txs \cup {None}]
    BY LocksAssumption DEF TypeInv, TypeOK, Locks
<1>3. ASSUME NEW t \in Txs, Open(t) PROVE ChainInv'
    <2>1. UNCHANGED <<log, holder, nextId, tampered>>
        BY <1>3 DEF Open
    <2>2. tx' = [tx EXCEPT ![t] = At("open", tx[t].wants, tx[t].own, tx[t].tail)]
        BY <1>3, Effects
    <2>3. "open" # "read" /\ "open" \notin {"locked", "read"}
        OBVIOUS
    <2> HIDE <1>3
    <2> QED
        BY <2>1, <2>2, <2>3, ChainQuiet
<1>4. ASSUME NEW t \in Txs, NEW r \in Rows, Update(t, r) PROVE ChainInv'
    <2>1. UNCHANGED <<log, holder, nextId, tampered>> /\ tx[t].pc = "open"
        BY <1>4 DEF Update, Running
    <2>2. tx' = [tx EXCEPT ![t] = At("open", r, tx[t].own, tx[t].tail)]
        BY <1>4, <2>1, Effects
    <2> QED
        BY <2>1, <2>2, ChainQuiet
<1>5. ASSUME NEW t \in Txs, BeginAppend(t) PROVE ChainInv'
    <2>1. UNCHANGED <<log, holder, nextId, tampered>> /\ tx[t].pc = "open"
        BY <1>5 DEF BeginAppend, Running
    <2>2. CASE holder[AuditLock] = t
        <3>1. tx' = [tx EXCEPT ![t] = At("locked", tx[t].wants, tx[t].own, tx[t].tail)]
            BY <1>5, <2>2, Effects
        <3> QED
            BY <2>1, <2>2, <3>1, ChainQuiet
    <2>3. CASE holder[AuditLock] # t
        <3>1. tx' = [tx EXCEPT ![t] = At("open", AuditLock, tx[t].own, tx[t].tail)]
            BY <1>5, <2>1, <2>3, Effects
        <3> QED
            BY <2>1, <3>1, ChainQuiet
    <2> QED
        BY <2>2, <2>3
<1>6. ASSUME NEW t \in Txs, Get(t) PROVE ChainInv'
    <2>1. /\ UNCHANGED <<log, nextId, tampered>> /\ holder[tx[t].wants] = None
          /\ holder' = [holder EXCEPT ![tx[t].wants] = t]
        BY <1>6 DEF Get
    <2>2. \A u \in Txs : holder[AuditLock] = u => holder'[AuditLock] = u
        BY <1>2, <2>1
    <2>3. CASE tx[t].wants = AuditLock
        <3>1. tx' = [tx EXCEPT ![t] = At("locked", None, tx[t].own, tx[t].tail)]
            BY <1>6, <2>3, Effects
        <3>2. holder'[AuditLock] = t
            BY <1>2, <2>1, <2>3
        <3> QED
            BY <2>1, <2>2, <3>1, <3>2, ChainQuiet
    <2>4. CASE tx[t].wants # AuditLock
        <3>1. tx' = [tx EXCEPT ![t] = At("open", None, tx[t].own, tx[t].tail)]
            BY <1>6, <2>4, Effects
        <3>2. "open" # "read" /\ "open" \notin {"locked", "read"}
            OBVIOUS
        <3> QED
            BY <2>1, <2>2, <3>1, <3>2, ChainQuiet
    <2> QED
        BY <2>3, <2>4
<1>7. ASSUME NEW t \in Txs, ReadTail(t) PROVE ChainInv'
    <2>1. UNCHANGED <<log, holder, nextId, tampered>> /\ tx[t].pc = "locked"
        BY <1>7 DEF ReadTail
    <2>2. tx' = [tx EXCEPT ![t] = At("read", None, tx[t].own, TailOf(log \cup tx[t].own))]
        BY <1>7, Effects
    <2>3. holder[AuditLock] = t
        BY <2>1 DEF ChainInv, Mine
    <2> QED
        BY <2>1, <2>2, <2>3, ChainQuiet
<1>8. ASSUME NEW t \in Txs, Commit(t) PROVE ChainInv'
    BY <1>8, ChainEnd DEF Commit
<1>9. ASSUME NEW t \in Txs, Undo(t),
              nextId' = nextId \/ (tx[t].pc = "read" /\ nextId' = nextId + 1)
       PROVE  ChainInv'
    BY <1>9, ChainEnd DEF Undo
<1>10. CASE Verify
    BY <1>1, <1>10 DEF Verify, CheckBatch, ReportValid, ReportBroken, StartCheck
<1>11. CASE UNCHANGED vars
    BY <1>1, <1>11 DEF vars
<1> QED
    BY <1>3, <1>4, <1>5, <1>6, <1>7, <1>8, <1>9, <1>10, <1>11, Steps, ChainInsert, ChainTamper

(* However transactions interleave, the committed log nobody has edited is *)
(* one chain (append_event).                                               *)
THEOREM OneChainAlways == Spec => []OneChain
<1>1. TypeInv /\ ChainInv => OneChain
    BY DEF ChainInv, Sound, Trusted, Good, OneChain, Linked
<1>2. Init => TypeInv /\ ChainInv
    BY TypeInit, ChainInit
<1>3. (TypeInv /\ ChainInv) /\ [Next]_vars => (TypeInv /\ ChainInv)'
    BY TypeNext, ChainNext
<1> QED
    BY <1>1, <1>2, <1>3, PTL DEF Spec
-----------------------------------------------------------------------------
(* A verification.  What it expects next is the fingerprint of the last    *)
(* entry it has seen, unless that one was edited after it was; an entry    *)
(* edited before it started is found because one that is not good is still *)
(* to come.                                                                *)

Seen == Before(log, check.last + 1)

Underway ==
    /\ check.last < nextId
    /\ \A t \in Txs : \A e \in tx[t].own : check.last < e.id
    /\ check.last \in {0, tampered.id} \/ \E e \in log : e.id = check.last
    /\ tampered.id = 0 \/ check.last # tampered.id \/ check.old => check.expected = TailOf(Seen)
    /\ check.old => \A e \in log : ~Good(log, e) => check.last < e.id

Named ==
    /\ tampered.id # 0 /\ check.at >= tampered.id
    /\ \E e \in log : e.id = check.at
    /\ \A e \in log : tampered.id < e.id => check.at <= e.id

CheckInv ==
    /\ check.old => tampered.old
    /\ check.pc = "running" => Underway
    /\ TamperingIsFound
    /\ check.pc = "broken" => Named

LEMMA CheckTyped ==
    ASSUME TypeInv
    PROVE  /\ check.last \in Nat /\ BatchSize \in Int
           /\ log \in SUBSET Entries /\ Topped(log)
           /\ NextBatch \in SUBSET log /\ Topped(NextBatch)
           /\ \A e \in log : e \in NextBatch => check.last < e.id
<1>1. check.last \in Nat /\ check.checked \in Nat /\ check.limit \in Nat
    <2>1. check \in [pc: {"none", "running", "valid", "broken"}, limit: Limits \cup {0},
                     expected: Seq(Texts), checked: Nat, last: Nat, at: Nat, old: BOOLEAN]
        BY DEF TypeInv, TypeOK
    <2>2. Limits \cup {0} \subseteq Nat
        BY NumbersAssumption
    <2> QED
        BY <2>1, <2>2
<1>2. BatchSize \in Int
    BY <1>1, NumbersAssumption DEF BatchSize
<1>3. NextBatch \in SUBSET log
    BY DEF NextBatch, After
<1>4. log \in SUBSET Entries /\ Topped(log)
    BY DEF TypeInv, TypeOK
<1>5. \A e \in log : e \in NextBatch => check.last < e.id
    BY <1>1, <1>4 DEF NextBatch, After, Entries
<1> QED
    BY <1>1, <1>2, <1>3, <1>4, <1>5, ToppedSubset

(* A batch leaves out nothing between its entries.                         *)
LEMMA BatchClosed ==
    ASSUME TypeInv, NEW e \in NextBatch, NEW f \in log, f.id <= e.id, check.last < f.id
    PROVE  f \in NextBatch
<1> DEFINE Upto(x) == {g \in After(check.last) : g.id <= x.id}
<1>1. /\ check.last \in Nat /\ BatchSize \in Int /\ e \in log
      /\ log \in SUBSET Entries /\ IsFiniteSet(log)
    BY CheckTyped DEF Topped
<1>2. Upto(f) \in SUBSET Upto(e)
    <2>1. \A g \in log : g.id \in Nat
        BY <1>1 DEF Entries
    <2>2. \A g \in log : g.id <= f.id => g.id <= e.id
        BY <1>1, <2>1
    <2> QED
        BY <2>2 DEF After
<1>3. IsFiniteSet(Upto(e))
    <2>1. Upto(e) \in SUBSET log
        BY DEF After
    <2> QED
        BY <1>1, <2>1, FS_Subset
<1>4. /\ Cardinality(Upto(f)) <= Cardinality(Upto(e))
      /\ Cardinality(Upto(e)) \in Nat /\ Cardinality(Upto(f)) \in Nat
    BY <1>2, <1>3, FS_Subset, FS_CardinalityType
<1>5. Cardinality(Upto(e)) <= BatchSize
    BY DEF NextBatch
<1>6. Cardinality(Upto(f)) <= BatchSize
    <2> HIDE DEF Upto
    <2> QED
        BY <1>1, <1>4, <1>5
<1>7. f \in After(check.last)
    BY <1>1 DEF After, Entries
<1> QED
    BY <1>6, <1>7 DEF NextBatch

(* What an entry of the batch is compared with is the entry before it.     *)
LEMMA ExpectedIsTail ==
    ASSUME TypeInv, Distinct(log), NEW e \in NextBatch,
           check.expected = TailOf(Seen) \/ Before(NextBatch, e.id) # {}
    PROVE  Expected(NextBatch, e) = TailOf(Before(log, e.id))
<1> DEFINE B == Before(NextBatch, e.id)
<1> DEFINE L == Before(log, e.id)
<1>1. /\ check.last \in Nat /\ log \in SUBSET Entries /\ NextBatch \in SUBSET log
      /\ Topped(log) /\ Topped(NextBatch) /\ check.last < e.id /\ e \in log
    BY CheckTyped
<1>2. \A f \in log : f.id \in Nat
    BY <1>1 DEF Entries
<1>3. B \in SUBSET L /\ L \in SUBSET log /\ B \in SUBSET NextBatch
    BY <1>1 DEF Before
<1>4. \A f \in L : f.id <= check.last \/ f \in B
    <2>1. ASSUME NEW f \in log, f.id < e.id, check.last < f.id
          PROVE  f \in NextBatch
        <3>1. f.id <= e.id
            BY <1>1, <1>2, <2>1
        <3> QED
            BY <2>1, <3>1, BatchClosed
    <2> QED
        BY <1>1, <1>2, <2>1 DEF Before
<1>5. CASE B = {}
    <2>1. L = Seen
        BY <1>1, <1>2, <1>4, <1>5 DEF Before, Seen
    <2> QED
        BY <1>5, <2>1 DEF Expected
<1>6. CASE B # {}
    <2>1. Topped(B) /\ B \in SUBSET Entries
        BY <1>1, <1>3, ToppedSubset
    <2>2. PICK m \in B : m = Newest(B) /\ \A f \in B : f.id <= m.id
        BY <1>6, <2>1, TailTyped
    <2>3. m \in L /\ m \in log /\ check.last < m.id
        BY <1>1, <1>3, <2>2, CheckTyped
    <2>4. \A f \in L : f.id <= m.id
        BY <1>1, <1>2, <1>3, <1>4, <2>2, <2>3
    <2>5. L \in SUBSET Entries /\ Distinct(L)
        BY <1>1, <1>3 DEF Distinct
    <2>6. Newest(L) = m
        BY <2>3, <2>4, <2>5, NewestIs
    <2> QED
        BY <1>6, <2>2, <2>3, <2>6 DEF Expected, TailOf
<1> QED
    BY <1>5, <1>6

(* An entry of the batch is found bad if it is not good.                   *)
LEMMA BatchGood ==
    ASSUME TypeInv, Distinct(log), NEW e \in NextBatch,
           check.expected = TailOf(Seen) \/ Before(NextBatch, e.id) # {}
    PROVE  Bad(NextBatch, e) <=> ~Good(log, e)
BY ExpectedIsTail DEF Bad, Good

(* A verification without a limit does not stop before the last entry.     *)
LEMMA BatchThere ==
    ASSUME TypeInv, Distinct(log), check.limit = 0, NEW f \in log, check.last < f.id
    PROVE  NextBatch # {}
<1>1. check.last \in Nat /\ log \in SUBSET Entries /\ \A x \in log : x.id \in Nat
    BY CheckTyped DEF Entries
<1>2. BatchSize \in Nat /\ 1 <= BatchSize
    BY NumbersAssumption DEF BatchSize
<1>3. PICK e \in After(check.last) : \A g \in After(check.last) : e.id <= g.id
    <2> DEFINE ids == {x.id : x \in After(check.last)}
    <2>1. ids \in SUBSET Nat /\ ids # {}
        BY <1>1 DEF After
    <2>2. \A x \in After(check.last) : x.id \in ids
        OBVIOUS
    <2>3. \A n \in ids : \E x \in After(check.last) : x.id = n
        OBVIOUS
    <2> HIDE DEF ids
    <2>4. PICK m \in ids : \A n \in ids : m <= n
        BY <2>1, Least
    <2> QED
        BY <2>2, <2>3, <2>4
<1> DEFINE U == {g \in After(check.last) : g.id <= e.id}
<1>4. U = {e}
    <2>1. \A g \in After(check.last) : g.id <= e.id => g.id = e.id
        BY <1>1, <1>3 DEF After
    <2>2. e \in log /\ \A g \in After(check.last) : g \in log
        BY <1>3 DEF After
    <2>3. \A g \in After(check.last) : g.id <= e.id => g = e
        BY <2>1, <2>2 DEF Distinct
    <2>4. e.id <= e.id
        BY <1>1, <2>2
    <2> QED
        BY <1>3, <2>3, <2>4
<1>5. Cardinality(U) = 1
    <2> HIDE DEF U
    <2> QED
        BY <1>4, FS_Singleton, Zenon
<1> QED
    BY <1>2, <1>3, <1>5 DEF NextBatch

(* A bad entry is the one tampered with or the one that follows it.        *)
LEMMA BadIsNear ==
    ASSUME TypeInv, ChainInv, Underway, NEW e \in NextBatch, Bad(NextBatch, e)
    PROVE  /\ tampered.id # 0 /\ e.id >= tampered.id
           /\ \A f \in log : tampered.id < f.id => e.id <= f.id
<1>1. /\ e \in log /\ check.last < e.id /\ check.last \in Nat /\ tampered.id \in Nat
      /\ Distinct(log) /\ Sound(log, tampered.id)
    BY CheckTyped, ChainTyped DEF ChainInv
<1>2. \A f \in log : f.id \in Nat
    BY CheckTyped DEF Entries
<1>3. tampered.id = 0 \/ check.last # tampered.id => check.expected = TailOf(Seen)
    BY DEF Underway
<1>4. Trusted(log, e, tampered.id) => Good(log, e)
    BY <1>1 DEF Sound
<1>5. tampered.id # 0 /\ e.id >= tampered.id
    <2>1. ASSUME tampered.id = 0 \/ e.id < tampered.id PROVE FALSE
        <3>1. Trusted(log, e, tampered.id)
            BY <2>1 DEF Trusted
        <3>2. tampered.id = 0 \/ check.last # tampered.id
            BY <1>1, <1>2, <2>1
        <3> QED
            BY <1>1, <1>3, <1>4, <3>1, <3>2, BatchGood
    <2> QED
        BY <1>1, <1>2, <2>1
<1>6. ASSUME NEW f \in log, tampered.id < f.id, f.id < e.id PROVE FALSE
    <2>1. Good(log, e)
        BY <1>4, <1>6 DEF Trusted
    <2>2. CASE check.last # tampered.id
        BY <1>1, <1>3, <2>1, <2>2, BatchGood
    <2>3. CASE check.last = tampered.id
        <3>1. f \in NextBatch
            BY <1>1, <1>2, <1>6, <2>3, BatchClosed
        <3>2. Before(NextBatch, e.id) # {}
            BY <1>6, <3>1 DEF Before
        <3> QED
            BY <1>1, <2>1, <3>2, BatchGood
    <2> QED
        BY <2>2, <2>3
<1> QED
    BY <1>1, <1>2, <1>5, <1>6

LEMMA CheckInit == Init => CheckInv
BY DEF Init, CheckInv, NoCheck, TamperingIsFound

(* A batch that is as expected brings the verification further.            *)
LEMMA CheckGoesOn ==
    ASSUME TypeInv, Distinct(log), CheckBatch, log' = log
    PROVE  /\ check'.expected = TailOf(Seen)'
           /\ \E e \in log : e.id = check'.last
           /\ check'.pc = "running"
<1>1. /\ log \in SUBSET Entries /\ NextBatch \in SUBSET log /\ Topped(NextBatch)
      /\ NextBatch \in SUBSET Entries
    BY CheckTyped
<1>2. PICK m \in NextBatch : m = Newest(NextBatch) /\ \A f \in NextBatch : f.id <= m.id
    BY <1>1, TailTyped DEF CheckBatch
<1>3. m \in log /\ check.last < m.id /\ m.id \in Nat /\ check.last \in Nat
    BY <1>1, <1>2, CheckTyped DEF Entries
<1>4. check'.expected = m.hash /\ check'.last = m.id /\ check'.pc = "running"
    BY <1>2 DEF CheckBatch, TailOf, TypeInv, TypeOK
<1> DEFINE S == Before(log, m.id + 1)
<1>5. m \in S /\ \A f \in S : f.id <= m.id
    BY <1>1, <1>3 DEF Before, Entries
<1>6. S \in SUBSET Entries /\ Distinct(S)
    BY <1>1 DEF Before, Distinct
<1>7. TailOf(S) = m.hash
    BY <1>5, <1>6, NewestIs DEF TailOf
<1>8. Seen' = S
    BY <1>4 DEF Seen, Before
<1> QED
    BY <1>3, <1>4, <1>7, <1>8 DEF TailOf, Newest

(* Steps that have nothing to do with the table or a verification.         *)
LEMMA CheckQuiet ==
    ASSUME TypeInv, CheckInv, UNCHANGED <<log, check, tampered>>,
           nextId' \in {nextId, nextId + 1},
           \A t \in Txs : \A e \in tx'[t].own : e \in tx[t].own \/ e.id = nextId
    PROVE  CheckInv'
<1>1. check.last \in Nat /\ nextId \in Nat
    BY CheckTyped, ChainTyped
<1>2. ASSUME check.pc = "running" PROVE Underway'
    <2>1. /\ check.last < nextId
          /\ \A t \in Txs : \A e \in tx[t].own : check.last < e.id
        BY <1>2 DEF CheckInv, Underway
    <2>2. check'.last < nextId' /\ \A t \in Txs : \A e \in tx'[t].own : check'.last < e.id
        BY <1>1, <2>1
    <2>3. /\ check'.last \in {0, tampered'.id} \/ \E e \in log' : e.id = check'.last
          /\ \/ tampered'.id = 0 \/ check'.last # tampered'.id \/ check'.old
             => check'.expected = TailOf(Seen)'
          /\ check'.old => \A e \in log' : ~Good(log', e) => check'.last < e.id
        <3>1. Seen' = Seen
            BY DEF Seen
        <3> QED
            BY <1>2, <3>1 DEF CheckInv, Underway, TailOf, Newest
    <2> QED
        BY <2>2, <2>3 DEF Underway
<1>3. check.pc = "broken" => Named'
    BY DEF CheckInv, Named
<1> QED
    BY <1>2, <1>3 DEF CheckInv, TamperingIsFound

(* Entries that are committed come after all that was seen.                *)
LEMMA CheckCommit ==
    ASSUME TypeInv, ChainInv, CheckInv, NEW t \in Txs, Commit(t)
    PROVE  CheckInv'
<1>1. /\ log' = log \cup tx[t].own /\ UNCHANGED <<nextId, check, tampered>>
      /\ \A u \in Txs : \A e \in tx'[u].own : e \in tx[u].own
    <2>1. tx' = [tx EXCEPT ![t] = Idle] /\ tx \in [Txs -> Transaction]
        BY DEF Commit, TypeInv, TypeOK
    <2>2. \A u \in Txs : tx'[u].own \subseteq tx[u].own
        BY <2>1 DEF Idle
    <2> QED
        BY <2>2 DEF Commit
<1>2. /\ check.last \in Nat /\ tampered.id \in Nat
      /\ \A e \in log : e.id \in Nat
      /\ \A e \in tx[t].own : e.id \in Nat /\ \A f \in log : f.id < e.id
    BY CheckTyped, ChainTyped DEF ChainInv, Entries
<1>3. ASSUME check.pc = "running" PROVE Underway'
    <2>1. Underway
        BY <1>3 DEF CheckInv
    <2>2. \A e \in tx[t].own : ~(e.id < check.last + 1)
        BY <1>2, <2>1 DEF Underway
    <2>3. Seen' = Seen
        BY <1>1, <2>2 DEF Seen, Before
    <2>4. \A e \in log' : check.old /\ ~Good(log', e) => check.last < e.id
        <3>1. ASSUME NEW e \in log, check.old, ~Good(log', e) PROVE check.last < e.id
            BY <1>1, <2>1, <3>1, GoodStays DEF Underway
        <3>2. \A e \in tx[t].own : check.last < e.id
            BY <2>1 DEF Underway
        <3> QED
            BY <1>1, <3>1, <3>2
    <2>5. check'.last < nextId' /\ \A u \in Txs : \A e \in tx'[u].own : check'.last < e.id
        BY <1>1, <2>1 DEF Underway
    <2>6. check'.last \in {0, tampered'.id} \/ \E e \in log' : e.id = check'.last
        BY <1>1, <2>1 DEF Underway
    <2>7. \/ tampered'.id = 0 \/ check'.last # tampered'.id \/ check'.old
          => check'.expected = TailOf(Seen)'
        <3>1. TailOf(Seen)' = TailOf(Seen)
            BY <2>3 DEF TailOf, Newest
        <3> QED
            BY <1>1, <2>1, <3>1 DEF Underway
    <2> QED
        BY <1>1, <2>4, <2>5, <2>6, <2>7 DEF Underway
<1>4. ASSUME check.pc = "broken" PROVE Named'
    <2>1. Named
        BY <1>4 DEF CheckInv
    <2>2. PICK f \in log : f.id = check.at
        BY <2>1 DEF Named
    <2>3. \A e \in tx[t].own : check.at <= e.id
        BY <1>2, <2>2
    <2> QED
        BY <1>1, <2>1, <2>3 DEF Named
<1> QED
    BY <1>1, <1>3, <1>4 DEF CheckInv, TamperingIsFound

(* A step of the verification itself.                                      *)
LEMMA CheckVerify ==
    ASSUME TypeInv, ChainInv, CheckInv, Verify
    PROVE  CheckInv'
<1>1. /\ UNCHANGED <<log, tx, nextId, tampered>>
      /\ Distinct(log) /\ log \in SUBSET Entries /\ NextBatch \in SUBSET log
      /\ check.last \in Nat /\ nextId \in Nat /\ tampered.id \in Nat
      /\ \A e \in log : e.id \in Nat
      /\ \A t \in Txs : \A e \in tx[t].own : e.id \in Nat
    <2>1. UNCHANGED <<log, tx, nextId, tampered>>
        BY DEF Verify, CheckBatch, ReportValid, ReportBroken, StartCheck
    <2>2. /\ log \in SUBSET Entries /\ NextBatch \in SUBSET log /\ check.last \in Nat
          /\ nextId \in Nat /\ tampered.id \in Nat
          /\ \A t \in Txs : tx[t].own \in SUBSET Entries
        BY CheckTyped, ChainTyped
    <2> QED
        BY <2>1, <2>2 DEF ChainInv, Entries
<1>2. check \in [pc: {"none", "running", "valid", "broken"}, limit: Limits \cup {0},
                 expected: Seq(Texts), checked: Nat, last: Nat, at: Nat, old: BOOLEAN]
    BY DEF TypeInv, TypeOK
<1>3. ASSUME NEW limit \in Limits, StartCheck(limit) PROVE CheckInv'
    <2>1. check' = [pc |-> "running", limit |-> limit, expected |-> <<>>, checked |-> 0,
                    last |-> 0, at |-> 0, old |-> tampered.old]
        BY <1>3 DEF StartCheck, NoCheck, Genesis
    <2>2. tampered.old \in BOOLEAN
        BY DEF TypeInv, TypeOK
    <2>3. /\ check'.pc = "running" /\ check'.expected = Genesis /\ check'.last = 0
          /\ check'.old = tampered.old
        BY <2>1, <2>2 DEF Genesis
    <2>4. \A e \in Entries : 0 < e.id /\ ~(e.id < 0 + 1)
        BY DEF Entries
    <2>5. TailOf(Seen)' = Genesis
        <3>1. Seen' = {}
            BY <1>1, <2>3, <2>4 DEF Seen, Before
        <3> QED
            BY <3>1 DEF TailOf
    <2>6. /\ check'.last < nextId'
          /\ \A t \in Txs : \A e \in tx'[t].own : check'.last < e.id
          /\ \A e \in log' : check'.last < e.id
        <3>1. nextId # 0 /\ \A t \in Txs : tx[t].own \in SUBSET Entries
            BY ChainTyped DEF TypeInv, TypeOK
        <3> QED
            BY <1>1, <2>3, <2>4, <3>1
    <2>7. Underway'
        BY <2>3, <2>5, <2>6 DEF Underway
    <2> QED
        BY <1>1, <2>3, <2>7 DEF CheckInv, TamperingIsFound
<1>4. CASE CheckBatch
    <2>1. Underway /\ check.pc = "running"
        BY <1>4 DEF CheckBatch, CheckInv
    <2>2. /\ check'.expected = TailOf(Seen)'
          /\ \E e \in log : e.id = check'.last
        BY <1>1, <1>4, CheckGoesOn
    <2>3. check'.pc = "running" /\ check'.old = check.old
        BY <1>2, <1>4 DEF CheckBatch
    <2>4. PICK m \in NextBatch : check'.last = m.id /\ \A f \in NextBatch : f.id <= m.id
        <3>1. check'.last = Newest(NextBatch).id /\ NextBatch # {}
            BY <1>2, <1>4 DEF CheckBatch
        <3>2. Newest(NextBatch) \in NextBatch
              /\ \A f \in NextBatch : f.id <= Newest(NextBatch).id
            BY <1>1, <3>1, CheckTyped, TailTyped
        <3> QED
            BY <3>1, <3>2
    <2>5. m \in log /\ m.id < nextId /\ \A t \in Txs : \A e \in tx[t].own : m.id < e.id
        BY <1>1 DEF ChainInv
    <2>6. ASSUME check.old, NEW e \in log, ~Good(log, e) PROVE m.id < e.id
        <3>1. check.last < e.id /\ check.expected = TailOf(Seen)
            BY <2>1, <2>6 DEF Underway
        <3>2. ASSUME e.id <= m.id PROVE FALSE
            <4>1. e \in NextBatch
                BY <3>1, <3>2, BatchClosed
            <4>2. Bad(NextBatch, e)
                BY <1>1, <2>6, <3>1, <4>1, BatchGood
            <4> QED
                BY <1>4, <4>1, <4>2 DEF CheckBatch, BadIn
        <3> QED
            BY <1>1, <2>5, <3>2
    <2>7. /\ check'.last < nextId'
          /\ \A t \in Txs : \A e \in tx'[t].own : check'.last < e.id
        BY <1>1, <2>4, <2>5
    <2>8. check'.old => \A e \in log' : ~Good(log', e) => check'.last < e.id
        BY <1>1, <2>3, <2>4, <2>6
    <2>9. Underway'
        BY <1>1, <2>2, <2>7, <2>8 DEF Underway
    <2>10. check'.old => tampered'.old
        BY <1>1, <2>3 DEF CheckInv
    <2> QED
        BY <2>3, <2>9, <2>10 DEF CheckInv, TamperingIsFound
<1>5. CASE ReportValid
    <2>1. /\ check'.pc = "valid" /\ check'.limit = check.limit /\ check'.old = check.old
          /\ check.pc = "running" /\ NextBatch = {}
        BY <1>2, <1>5 DEF ReportValid
    <2>2. ASSUME check.limit = 0, check.old PROVE FALSE
        <3>1. \E e \in log : ~Good(log, e)
            BY <2>2 DEF CheckInv, ChainInv
        <3>2. PICK e \in log : check.last < e.id
            BY <2>1, <2>2, <3>1 DEF CheckInv, Underway
        <3> QED
            BY <1>1, <2>1, <2>2, <3>2, BatchThere
    <2>3. check'.old => tampered'.old
        BY <1>1, <2>1 DEF CheckInv
    <2> QED
        BY <2>1, <2>2, <2>3 DEF CheckInv, TamperingIsFound
<1>6. CASE ReportBroken
    <2>1. PICK e \in BadIn(NextBatch) : check' = [check EXCEPT !.pc = "broken", !.at = e.id]
        BY <1>6 DEF ReportBroken
    <2>2. check'.pc = "broken" /\ check'.at = e.id /\ check'.old = check.old
        BY <1>2, <2>1
    <2>3. e \in NextBatch /\ Bad(NextBatch, e) /\ e \in log /\ Underway
        BY <1>1, <1>6 DEF BadIn, ReportBroken, CheckInv
    <2>4. /\ tampered.id # 0 /\ e.id >= tampered.id
          /\ \A f \in log : tampered.id < f.id => e.id <= f.id
        BY <2>3, BadIsNear
    <2>5. Named'
        BY <1>1, <2>2, <2>3, <2>4 DEF Named
    <2>6. check'.old => tampered'.old
        BY <1>1, <2>2 DEF CheckInv
    <2> QED
        BY <2>2, <2>5, <2>6 DEF CheckInv, TamperingIsFound
<1> QED
    BY <1>3, <1>4, <1>5, <1>6 DEF Verify

(* What is edited while a verification is under way is nothing it has to   *)
(* find, and leaves what it expects next right, unless it is the very      *)
(* entry that was the last one seen.                                       *)
LEMMA CheckTamper ==
    ASSUME TypeInv, ChainInv, CheckInv, NEW id \in 1..MaxId, Tamper(id)
    PROVE  CheckInv'
<1>1. tampered.id = 0 /\ tampered'.id = id /\ UNCHANGED <<tx, nextId, check>>
    BY DEF Tamper
<1>2. ~check.old /\ check.pc # "broken"
    BY <1>1 DEF CheckInv, ChainInv, Named
<1>3. /\ id \in Nat \ {0} /\ Distinct(log')
      /\ \A x \in Entries : x.id # id => (x \in log <=> x \in log')
    BY Edited
<1>4. /\ log \in SUBSET Entries /\ log' \in SUBSET Entries /\ check.last \in Nat
      /\ Topped(log) /\ Distinct(log)
    BY CheckTyped, TypeTamper DEF TypeInv, TypeOK, ChainInv
<1>5. ASSUME check.pc = "running" PROVE Underway'
    <2>1. Underway
        BY <1>5 DEF CheckInv
    <2>2. check.last # 0 => \E e \in log : e.id = check.last
        BY <1>1, <2>1 DEF Underway
    <2>3. check'.last \in {0, tampered'.id} \/ \E e \in log' : e.id = check'.last
        BY <1>1, <1>3, <1>4, <2>2
    <2>4. ASSUME check.last # id PROVE TailOf(Seen') = TailOf(Seen)
        <3>1. \A x \in Entries : x.id \in Nat
            BY DEF Entries
        <3>2. Seen' = {x \in log' : x.id < check.last + 1}
              /\ Seen = {x \in log : x.id < check.last + 1}
            BY <1>1 DEF Seen, Before
        <3>3. CASE check.last < id
            <4>1. \A x \in Entries : x.id < check.last + 1 => x.id # id
                BY <1>3, <1>4, <3>1, <3>3
            <4>2. Seen' = Seen
                BY <1>3, <1>4, <3>2, <4>1
            <4> QED
                BY <4>2
        <3>4. CASE id < check.last
            <4>1. PICK g \in log : g.id = check.last
                BY <1>3, <1>4, <2>2, <3>4
            <4>2. Seen \in SUBSET log /\ Seen' \in SUBSET log' /\ g \in Seen
                BY <1>4, <3>2, <4>1
            <4>3. Topped(Seen) /\ Distinct(Seen) /\ Distinct(Seen')
                BY <1>3, <1>4, <4>2, ToppedSubset DEF Distinct
            <4>4. \A x \in Entries : x.id >= g.id => (x \in Seen <=> x \in Seen')
                BY <1>3, <1>4, <3>1, <3>2, <3>4, <4>1
            <4>5. Seen \in SUBSET Entries /\ Seen' \in SUBSET Entries
                BY <1>4, <4>2
            <4> QED
                BY <4>2, <4>3, <4>4, <4>5, SameTail
        <3> QED
            BY <1>3, <1>4, <2>4, <3>3, <3>4
    <2>5. check.expected = TailOf(Seen)
        BY <1>1, <2>1 DEF Underway
    <2>6. \/ tampered'.id = 0 \/ check'.last # tampered'.id \/ check'.old
          => check'.expected = TailOf(Seen)'
        <3>1. TailOf(Seen)' = TailOf(Seen')
            BY DEF TailOf, Newest
        <3> QED
            BY <1>1, <1>2, <1>3, <2>4, <2>5, <3>1
    <2>7. check'.last < nextId' /\ \A t \in Txs : \A e \in tx'[t].own : check'.last < e.id
        BY <1>1, <2>1 DEF Underway
    <2> QED
        BY <1>1, <1>2, <2>3, <2>6, <2>7 DEF Underway
<1> QED
    BY <1>1, <1>2, <1>5 DEF CheckInv, TamperingIsFound

LEMMA CheckNext == TypeInv /\ ChainInv /\ CheckInv /\ [Next]_vars => CheckInv'
<1> SUFFICES ASSUME TypeInv, ChainInv, CheckInv, [Next]_vars PROVE CheckInv'
    OBVIOUS
<1>1. ASSUME UNCHANGED <<tx, log, check, tampered, nextId>> PROVE CheckInv'
    BY <1>1, CheckQuiet
<1>2. ASSUME NEW t \in Txs, NEW row, tx' = [tx EXCEPT ![t] = row],
             \A e \in row.own : e \in tx[t].own \/ e.id = nextId,
             nextId' \in {nextId, nextId + 1}, UNCHANGED <<log, check, tampered>>
      PROVE  CheckInv'
    <2>1. \A u \in Txs : tx'[u] = IF u = t THEN row ELSE tx[u]
        BY <1>2, Effects
    <2>2. \A u \in Txs : \A e \in tx'[u].own : e \in tx[u].own \/ e.id = nextId
        BY <1>2, <2>1
    <2> QED
        BY <1>2, <2>2, CheckQuiet
<1>3. ASSUME NEW t \in Txs,
             \/ Open(t) \/ (\E r \in Rows : Update(t, r)) \/ BeginAppend(t) \/ Get(t)
             \/ ReadTail(t)
      PROVE  CheckInv'
    <2>1. UNCHANGED <<log, check, tampered, nextId>>
        BY <1>3 DEF Open, Update, BeginAppend, Get, ReadTail
    <2>2. ASSUME NEW pc, NEW wants, NEW tail,
                 tx' = [tx EXCEPT ![t] = At(pc, wants, tx[t].own, tail)]
          PROVE  CheckInv'
        <3>1. At(pc, wants, tx[t].own, tail).own = tx[t].own
            BY DEF At
        <3> QED
            BY <1>2, <2>1, <2>2, <3>1
    <2>3. CASE Open(t)
        <3>1. tx' = [tx EXCEPT ![t] =
                  At("open", tx[t].wants, tx[t].own, tx[t].tail)]
            BY <2>3, Effects
        <3> QED
            BY <2>2, <3>1
    <2>4. ASSUME NEW r \in Rows, Update(t, r) PROVE CheckInv'
        <3>1. tx' = [tx EXCEPT ![t] =
                  At(tx[t].pc, r, tx[t].own, tx[t].tail)]
            BY <2>4, Effects
        <3> QED
            BY <2>2, <3>1
    <2>5. CASE BeginAppend(t)
        <3>1. CASE holder[AuditLock] = t
            <4>1. tx' = [tx EXCEPT ![t] = At("locked", tx[t].wants, tx[t].own, tx[t].tail)]
                BY <2>5, <3>1, Effects
            <4> QED
                BY <2>2, <4>1
        <3>2. CASE holder[AuditLock] # t
            <4>1. tx' = [tx EXCEPT ![t] = At(tx[t].pc, AuditLock, tx[t].own, tx[t].tail)]
                BY <2>5, <3>2, Effects
            <4> QED
                BY <2>2, <4>1
        <3> QED
            BY <3>1, <3>2
    <2>6. CASE Get(t)
        <3> DEFINE pc == IF tx[t].wants = AuditLock THEN "locked" ELSE "open"
        <3>1. tx' = [tx EXCEPT ![t] = At(pc, None, tx[t].own, tx[t].tail)]
            BY <2>6, Effects
        <3> HIDE DEF pc
        <3> QED
            BY <2>2, <3>1
    <2>7. CASE ReadTail(t)
        <3>1. tx' = [tx EXCEPT ![t] =
                  At("read", None, tx[t].own, TailOf(log \cup tx[t].own))]
            BY <2>7, Effects
        <3> QED
            BY <2>2, <3>1
    <2> QED
        BY <1>3, <2>3, <2>4, <2>5, <2>6, <2>7
<1>4. ASSUME NEW t \in Txs, NEW c \in Contents, Insert(t, c) PROVE CheckInv'
    <2>1. tx' = [tx EXCEPT ![t] = At("open", None, tx[t].own \cup {Entry(t, c)}, Genesis)]
        BY <1>4, Effects
    <2>2. At("open", None, tx[t].own \cup {Entry(t, c)}, Genesis).own
          = tx[t].own \cup {Entry(t, c)}
        BY DEF At
    <2>3. Entry(t, c).id = nextId
        BY DEF Entry
    <2>4. UNCHANGED <<log, check, tampered>> /\ nextId' = nextId + 1
        BY <1>4 DEF Insert
    <2>5. \A e \in tx[t].own \cup {Entry(t, c)} : e \in tx[t].own \/ e.id = nextId
        BY <2>3
    <2> QED
        BY <1>2, <2>1, <2>2, <2>4, <2>5
<1>5. ASSUME NEW t \in Txs, Undo(t),
             nextId' = nextId \/ (tx[t].pc = "read" /\ nextId' = nextId + 1)
      PROVE  CheckInv'
    <2>1. Idle \in Transaction /\ Idle.own = {}
        BY DEF Idle, Genesis, Transaction
    <2> QED
        BY <1>2, <1>5, <2>1 DEF Undo
<1>6. CASE UNCHANGED vars
    BY <1>1, <1>6 DEF vars
<1> QED
    BY <1>3, <1>4, <1>5, <1>6, Steps, CheckCommit, CheckVerify, CheckTamper

(* A verification that runs while entries are being committed reports no   *)
(* break in a log nobody has edited (verify_chain).                        *)
THEOREM NoFalseAlarmAlways == Spec => []NoFalseAlarm
<1>1. CheckInv => NoFalseAlarm
    BY DEF CheckInv, Named, NoFalseAlarm
<1>2. Init => TypeInv /\ ChainInv /\ CheckInv
    BY TypeInit, ChainInit, CheckInit
<1>3. (TypeInv /\ ChainInv /\ CheckInv) /\ [Next]_vars => (TypeInv /\ ChainInv /\ CheckInv)'
    BY TypeNext, ChainNext, CheckNext
<1> QED
    BY <1>1, <1>2, <1>3, PTL DEF Spec

(* An entry edited, deleted or put in, while others follow it, before a    *)
(* full verification starts, is found by it; and whatever a verification   *)
(* reports is that entry or the one that follows it ("the verify check     *)
(* tells you which entry broke").                                          *)
THEOREM TamperingIsFoundAlways == Spec => []TamperingIsFoundAndNamed
<1>1. CheckInv => TamperingIsFoundAndNamed
    BY DEF CheckInv, Named, TamperingIsFoundAndNamed, NamesTheBreak
<1>2. Init => TypeInv /\ ChainInv /\ CheckInv
    BY TypeInit, ChainInit, CheckInit
<1>3. (TypeInv /\ ChainInv /\ CheckInv) /\ [Next]_vars => (TypeInv /\ ChainInv /\ CheckInv)'
    BY TypeNext, ChainNext, CheckNext
<1> QED
    BY <1>1, <1>2, <1>3, PTL DEF Spec
=============================================================================
