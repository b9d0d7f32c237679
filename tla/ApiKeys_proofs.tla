--------------------------- MODULE ApiKeys_proofs ----------------------------
(***************************************************************************)
(* Theorems about API keys, for any sets of clients, keys, requests and    *)
(* selections.  What a transaction read under a row lock still holds when  *)
(* it commits (Held), because conflicting locks exclude each other         *)
(* (Exclusive); the properties follow from these two.                      *)
(***************************************************************************)
EXTENDS ApiKeys, TLAPS

Active(a) == tx[a] # NoTx

\* What an active transaction has asked for and what its locks protect.
Held(a) == LET t == tx[a] IN Active(a) =>
  /\ t.op \in {"rotate", "revoke", "access"} => t.key \in Key
  /\ t.op \in {"issue", "access"} => t.selection # None
  /\ t.op = "rotate" => t.until \in Nat /\ (~t.inherits => t.selection # None)
  /\ t.pc = "start" => t.locks = {}
  /\ t.pc = "keyed" => t.locks \subseteq Key \X Mode /\ t.op \in {"rotate", "revoke", "access"}
  /\ t.pc # "start" /\ t.op = "rotate" =>
       /\ <<t.key, "update">> \in t.locks
       /\ owner[t.key] = t.client /\ successor[t.key] = None
       /\ t.selection # None /\ (t.inherits => t.selection = access[t.key])
  /\ t.pc # "start" /\ t.op \in {"revoke", "access"} =>
       <<t.key, "write">> \in t.locks /\ owner[t.key] = t.client
  /\ t.pc = "ready" /\ t.op \in {"issue", "rotate"} =>
       <<t.client, "update">> \in t.locks /\ enabled[t.client]
  /\ t.pc = "ready" /\ t.op = "disable" => <<t.client, "write">> \in t.locks

Exclusive ==
  \A a, b \in Admin : a # b /\ Active(a) /\ Active(b) =>
    \A r \in Row, m, n \in Mode :
      <<r, m>> \in tx[a].locks /\ <<r, n>> \in tx[b].locks => ~Conflict(m, n)

\* A row is not referred to before it is there.
Fresh == \A k \in Key : ~Issued(k) => predecessor[k] = None

KeyInv == /\ TypeOK
          /\ \A a \in Admin : Held(a)
          /\ Exclusive
          /\ Fresh
          /\ RotationPairs

-----------------------------------------------------------------------------
(* The kinds of step.                                                      *)

\* An active transaction is a Transaction.
LEMMA ActiveType ==
  ASSUME TypeOK, NEW a \in Admin, Active(a) PROVE tx[a] \in Transaction
BY DEF TypeOK, Active

LEMMA TransactionActive ==
  ASSUME NEW t \in Transaction PROVE t # NoTx
BY DEF Transaction, Operation, NoTx

LEMMA NextLockType ==
  ASSUME NEW t \in Transaction, t.op \in {"rotate", "revoke", "access"} => t.key \in Key,
         t.pc # "ready", t.pc = "keyed" => t.op \in {"rotate", "revoke", "access"}
  PROVE  NextLock(t) \in Row \X Mode
BY DEF NextLock, Transaction, Operation, Row, Mode

\* a is the transaction that begins.
Begins(a) == /\ ~Active(a) /\ tx' = [tx EXCEPT ![a] = tx'[a]]
             /\ tx'[a] \in Transaction
             /\ tx'[a].pc = "start" /\ tx'[a].locks = {}
             /\ tx'[a].op \in {"rotate", "revoke", "access"} => tx'[a].key \in Key
             /\ tx'[a].op \in {"issue", "access"} => tx'[a].selection # None
             /\ tx'[a].op = "rotate" =>
                  tx'[a].until \in Nat /\ (~tx'[a].inherits => tx'[a].selection # None)
             /\ UNCHANGED <<now, enabled, keyVars>>

LEMMA BeginStep ==
  ASSUME TypeOK, NEW a \in Admin, BeginAny(a) PROVE Begins(a)
<1> USE KeyAssumption DEF TypeOK, Transaction, Operation, Begins, Active
<1>1. ASSUME NEW c \in Client, NEW s \in Selection, NEW t \in 1..MaxTime \cup {Never},
             BeginIssue(a, c, t, s)
      PROVE  Begins(a)
  <2>1. t \in Time
    BY DEF Time
  <2> QED
    BY <1>1, <2>1, ZenonT(60) DEF BeginIssue, Begin, Request, Time
<1>2. ASSUME NEW c \in Client, BeginDisable(a, c) PROVE Begins(a)
  BY <1>2 DEF BeginDisable, Begin, Request, Time
<1>3. ASSUME NEW c \in Client, NEW k \in Key, NEW g \in Grace, NEW s \in Selection \cup {None},
             BeginRotate(a, c, k, g, s)
      PROVE  Begins(a)
  BY <1>3, ZenonT(60) DEF BeginRotate, Begin, Request, Time
<1>4. ASSUME NEW c \in Client, NEW k \in Key, BeginRevoke(a, c, k) PROVE Begins(a)
  BY <1>4 DEF BeginRevoke, Begin, Request, Time
<1>5. ASSUME NEW c \in Client, NEW k \in Key, NEW s \in Selection \cup {None},
             BeginAccess(a, c, k, s)
      PROVE  Begins(a)
  BY <1>5, ZenonT(60) DEF BeginAccess, Begin, Request, Time
<1> HIDE DEF TypeOK, Transaction, Operation, Begins, Active
<1> QED
  BY <1>1, <1>2, <1>3, <1>4, <1>5 DEF BeginAny

\* a is granted its next lock: what it then knows is what the rows say now.
Locks(a) == /\ Active(a) /\ tx' = [tx EXCEPT ![a] = tx'[a]]
            /\ tx[a].pc # "ready" /\ tx'[a] \in Transaction
            /\ \A b \in Admin : ~Blocks(b, a)
            /\ tx'[a].op = tx[a].op /\ tx'[a].client = tx[a].client
            /\ tx'[a].key = tx[a].key /\ tx'[a].inherits = tx[a].inherits
            /\ tx'[a].locks = tx[a].locks \cup {NextLock(tx[a])}
            /\ tx'[a].pc = IF tx[a].pc = "start" /\ tx[a].op \in {"rotate", "revoke", "access"}
                             THEN "keyed" ELSE "ready"
            /\ tx[a].op = "rotate" => tx'[a].until \in Nat
            /\ tx'[a].selection = IF tx[a].op = "rotate" /\ tx[a].pc = "start" /\ tx[a].inherits
                                    THEN access[tx[a].key] ELSE tx[a].selection
            /\ tx'[a].pc = "keyed" => owner[tx[a].key] = tx[a].client
            /\ tx'[a].pc = "keyed" /\ tx[a].op = "rotate" => successor[tx[a].key] = None
            /\ tx'[a].pc = "ready" /\ tx[a].op \in {"issue", "rotate"} => enabled[tx[a].client]
            /\ UNCHANGED <<now, enabled, keyVars>>

LEMMA LockStep ==
  ASSUME KeyInv, NEW a \in Admin, LockAny(a) PROVE Locks(a)
<1> DEFINE t == tx[a]
<1>1. /\ Active(a) /\ t \in Transaction /\ Held(a) /\ t.pc # "ready"
      /\ now \in Nat /\ tx \in [Admin -> Transaction \cup {NoTx}]
  BY ActiveType DEF KeyInv, LockAny, LockRotated, LockIssuer, LockRevoked, LockUpdated,
     LockAudited, LockDisabled, At, Active, TypeOK
<1>2. NextLock(t) \in Row \X Mode
  BY <1>1, NextLockType DEF Held
<1>3. access \in [Key -> Selection \cup {None}]
  BY DEF KeyInv, TypeOK
<1> HIDE DEF t
<1> USE <1>1, <1>2 DEF Locks, Acquire, At
<1>4. CASE LockRotated(a)
  <2>1. t.op = "rotate" /\ t.pc = "start" /\ t.key \in Key /\ t.until \in Nat
    BY <1>4 DEF LockRotated, Held, t
  <2> QED
    BY <1>3, <1>4, <2>1, ZenonT(60) DEF LockRotated, Transaction, Operation, t
<1>5. CASE LockIssuer(a)
  <2>1. t.op = "rotate" => t.until \in Nat /\ now + t.until \in Nat
    BY DEF Held, t
  <2> QED
    BY <1>5, <2>1, ZenonT(60) DEF LockIssuer, Transaction, Operation, Time, t
<1>6. CASE LockRevoked(a)
  BY <1>6 DEF LockRevoked, Transaction, Operation, t
<1>7. CASE LockUpdated(a)
  BY <1>7 DEF LockUpdated, Transaction, Operation, t
<1>8. CASE LockAudited(a)
  BY <1>8 DEF LockAudited, Transaction, Operation, t
<1>9. CASE LockDisabled(a)
  BY <1>9 DEF LockDisabled, Transaction, Operation, t
<1> QED
  BY <1>4, <1>5, <1>6, <1>7, <1>8, <1>9 DEF LockAny

-----------------------------------------------------------------------------
(* The invariant is inductive.                                             *)

LEMMA InitKeyInv == ASSUME Init PROVE KeyInv
<1>1. TypeOK
  BY KeyAssumption DEF Init, TypeOK, Time
<1>2. \A a \in Admin : ~Active(a)
  BY DEF Init, Active
<1>3. (\A a \in Admin : Held(a)) /\ Exclusive
  BY <1>2 DEF Held, Exclusive
<1>4. Fresh /\ RotationPairs
  BY KeyAssumption DEF Init, Fresh, RotationPairs
<1> QED
  BY <1>1, <1>3, <1>4 DEF KeyInv

\* What a commit knows.
LEMMA Committing ==
  ASSUME KeyInv, NEW a \in Admin, tx[a] # NoTx
  PROVE  tx[a] \in Transaction /\ Held(a)
BY ActiveType DEF KeyInv, Active

LEMMA TypePreserved ==
  ASSUME KeyInv, [Next]_vars PROVE TypeOK'
<1>0. TypeOK
  BY DEF KeyInv
<1>1. ASSUME NEW a \in Admin, tx' = [tx EXCEPT ![a] = tx'[a]], tx'[a] \in Transaction,
             UNCHANGED <<now, enabled, keyVars>>
      PROVE  TypeOK'
  <2>1. tx' \in [Admin -> Transaction \cup {NoTx}]
    BY <1>0, <1>1 DEF TypeOK
  <2> QED
    BY <1>0, <1>1, <2>1 DEF TypeOK, keyVars
<1>2. ASSUME NEW a \in Admin, BeginAny(a) \/ LockAny(a) PROVE TypeOK'
  BY <1>0, <1>1, <1>2, BeginStep, LockStep DEF Begins, Locks
<1>3. ASSUME NEW a \in Admin, End(a) PROVE tx' \in [Admin -> Transaction \cup {NoTx}] /\ now' \in Nat
  BY <1>0, <1>3 DEF TypeOK, End
<1>4. ASSUME NEW a \in Admin, NEW n \in Key, IssueKey(a, n) PROVE TypeOK'
  <2>1. tx[a] \in Transaction /\ Held(a) /\ tx[a].op = "issue" /\ tx[a] # NoTx
    BY <1>4, Committing DEF IssueKey, At
  <2>2. /\ tx[a].client \in Client /\ tx[a].until \in Time
        /\ tx[a].selection \in Selection \cup {None} /\ tx[a].selection # None
    BY <2>1 DEF Transaction, Held, Active
  <2> QED
    BY <1>0, <1>3, <1>4, <2>2 DEF IssueKey, InsertKey, TypeOK
<1>5. ASSUME NEW a \in Admin, NEW n \in Key, RotateKey(a, n) PROVE TypeOK'
  <2>1. /\ tx[a] \in Transaction /\ Held(a) /\ tx[a] # NoTx
        /\ tx[a].op = "rotate" /\ tx[a].pc = "ready"
    BY <1>5, Committing DEF RotateKey, At
  <2>2. /\ tx[a].client \in Client /\ tx[a].until \in Nat /\ tx[a].key \in Key
        /\ tx[a].selection \in Selection \cup {None} /\ tx[a].selection # None
    BY <2>1 DEF Transaction, Held, Active
  <2>3. Earlier(expires[tx[a].key], tx[a].until) \in Time
    BY <1>0, <2>2 DEF Earlier, TypeOK, Time
  <2>4. expires' \in [Key -> Time]
    BY <1>0, <1>5, <2>2, <2>3 DEF RotateKey, TypeOK, Time
  <2> QED
    BY <1>0, <1>3, <1>5, <2>2, <2>4 DEF RotateKey, InsertKey, TypeOK
<1>6. ASSUME NEW a \in Admin, RevokeKey(a) \/ DisableClient(a) \/ Rollback(a) PROVE TypeOK'
  BY <1>0, <1>3, <1>6 DEF RevokeKey, DisableClient, Rollback, TypeOK, keyVars
<1>7. ASSUME NEW a \in Admin, UpdateKeyTemplateAccess(a) PROVE TypeOK'
  <2>1. tx[a] \in Transaction /\ Held(a) /\ tx[a].op = "access" /\ tx[a] # NoTx
    BY <1>7, Committing DEF UpdateKeyTemplateAccess, At
  <2>2. tx[a].selection \in Selection \cup {None} /\ tx[a].selection # None
    BY <2>1 DEF Transaction, Held, Active
  <2> QED
    BY <1>0, <1>3, <1>7, <2>2 DEF UpdateKeyTemplateAccess, TypeOK
<1>8. CASE Tick
  BY <1>0, <1>8 DEF Tick, TypeOK, keyVars
<1>9. CASE UNCHANGED vars
  BY <1>0, <1>9 DEF vars, TypeOK
<1> QED
  BY <1>2, <1>4, <1>5, <1>6, <1>7, <1>8, <1>9 DEF Next, CommitAny

\* Locks that conflict are never held by two transactions.
LEMMA ExclusivePreserved ==
  ASSUME KeyInv, [Next]_vars PROVE Exclusive'
<1>0. Exclusive /\ TypeOK /\ \A a \in Admin : Held(a)
  BY DEF KeyInv
<1>1. ASSUME NEW a \in Admin, Begins(a) PROVE Exclusive'
  <2>1. \A b \in Admin \ {a} : tx'[b] = tx[b]
    BY <1>0, <1>1 DEF Begins, TypeOK
  <2>2. tx'[a].locks = {}
    BY <1>1 DEF Begins
  <2> QED
    BY <1>0, <2>1, <2>2 DEF Exclusive, Active
<1>2. ASSUME NEW a \in Admin, Locks(a) PROVE Exclusive'
  <2>1. \A b \in Admin \ {a} : tx'[b] = tx[b]
    BY <1>0, <1>2 DEF Locks, TypeOK
  <2>2. Active(a) /\ tx'[a].locks = tx[a].locks \cup {NextLock(tx[a])} /\ tx[a].pc # "ready"
    BY <1>2 DEF Locks
  <2>3. \A m, n \in Mode : Conflict(m, n) => Conflict(n, m)
    BY DEF Conflict
  <2>4. ASSUME NEW b \in Admin \ {a}, Active(b), NEW r \in Row, NEW m \in Mode, NEW n \in Mode,
               <<r, m>> \in tx'[a].locks, <<r, n>> \in tx[b].locks
        PROVE  ~Conflict(m, n)
    <3>1. CASE <<r, m>> \in tx[a].locks
      BY <1>0, <2>2, <2>4, <3>1 DEF Exclusive
    <3>2. CASE <<r, m>> = NextLock(tx[a])
      <4>1. ~Blocks(b, a)
        BY <1>2 DEF Locks
      <4>2. NextLock(tx[a])[1] = r /\ NextLock(tx[a])[2] = m
        BY <3>2
      <4>3. ~Conflict(n, m)
        BY <2>2, <2>4, <4>1, <4>2 DEF Blocks, Active
      <4> QED
        BY <2>3, <4>3
    <3> QED
      BY <2>2, <2>4, <3>1, <3>2
  <2>5. ASSUME NEW x \in Admin, NEW y \in Admin, x # y, Active(x)', Active(y)',
               NEW r \in Row, NEW m \in Mode, NEW n \in Mode,
               <<r, m>> \in tx'[x].locks, <<r, n>> \in tx'[y].locks
        PROVE  ~Conflict(m, n)
    <3>1. CASE x = a
      BY <2>1, <2>4, <2>5, <3>1 DEF Active
    <3>2. CASE y = a
      BY <2>1, <2>3, <2>4, <2>5, <3>2 DEF Active
    <3>3. CASE x # a /\ y # a
      BY <1>0, <2>1, <2>5, <3>3 DEF Exclusive, Active
    <3> QED
      BY <3>1, <3>2, <3>3
  <2> QED
    BY <2>5 DEF Exclusive
<1>3. ASSUME NEW a \in Admin, End(a) PROVE Exclusive'
  <2>1. tx'[a] = NoTx /\ \A b \in Admin \ {a} : tx'[b] = tx[b]
    BY <1>0, <1>3 DEF End, TypeOK
  <2> QED
    BY <1>0, <2>1 DEF Exclusive, Active
<1>4. ASSUME NEW a \in Admin, CommitAny(a) \/ Rollback(a) PROVE Exclusive'
  BY <1>3, <1>4 DEF CommitAny, IssueKey, RotateKey, RevokeKey, UpdateKeyTemplateAccess,
     DisableClient, Rollback
<1>5. CASE Tick \/ UNCHANGED vars
  BY <1>0, <1>5 DEF Tick, vars, Exclusive, Active
<1> QED
  BY <1>0, <1>1, <1>2, <1>4, <1>5, BeginStep, LockStep DEF Next

\* A commit leaves the rows alone that another transaction has locked.
LEMMA Protected ==
  ASSUME KeyInv, NEW a \in Admin, CommitAny(a), NEW x \in Admin, x # a, Active(x)
  PROVE  LET t == tx[x] IN
         /\ t.pc # "start" /\ t.op = "rotate" =>
              /\ owner'[t.key] = owner[t.key] /\ successor'[t.key] = successor[t.key]
              /\ access'[t.key] = access[t.key]
         /\ t.pc # "start" /\ t.op \in {"revoke", "access"} => owner'[t.key] = owner[t.key]
         /\ t.pc = "ready" /\ t.op \in {"issue", "rotate"} =>
              enabled'[t.client] = enabled[t.client]
<1> DEFINE t == tx[x]
<1>1. /\ TypeOK /\ Exclusive /\ t \in Transaction /\ Held(x)
      /\ tx[a] \in Transaction /\ Held(a) /\ Active(a)
  BY Committing DEF KeyInv, Active, CommitAny, IssueKey, RotateKey, RevokeKey,
     UpdateKeyTemplateAccess, DisableClient, At
<1>2. \A r \in Row, m, n \in Mode :
        <<r, m>> \in t.locks /\ <<r, n>> \in tx[a].locks => ~Conflict(m, n)
  BY <1>1 DEF Exclusive
<1>3. t.pc # "start" /\ t.op \in {"rotate", "revoke", "access"} =>
        t.key \in Key /\ owner[t.key] = t.client /\ t.client # None /\ Issued(t.key)
  <2>1. t.client \in Client
    BY <1>1 DEF Transaction
  <2> QED
    BY <1>1, <2>1, KeyAssumption DEF Held, Issued
<1>4. CASE \E n \in Key : IssueKey(a, n)
  <2> PICK n \in Key : IssueKey(a, n)
    BY <1>4
  <2>1. /\ \A k \in Key \ {n} : owner'[k] = owner[k] /\ access'[k] = access[k]
        /\ ~Issued(n) /\ UNCHANGED <<successor, enabled>>
    BY <1>1 DEF IssueKey, InsertKey, TypeOK
  <2> QED
    BY <1>3, <2>1
<1>5. CASE \E n \in Key : RotateKey(a, n)
  <2> PICK n \in Key : RotateKey(a, n)
    BY <1>5
  <2>1. /\ tx[a].key \in Key /\ <<tx[a].key, "update">> \in tx[a].locks
    BY <1>1 DEF Held, RotateKey, At
  <2>2. /\ \A k \in Key \ {n} : owner'[k] = owner[k] /\ access'[k] = access[k]
        /\ \A k \in Key \ {tx[a].key} : successor'[k] = successor[k]
        /\ ~Issued(n) /\ UNCHANGED enabled
    BY <1>1 DEF RotateKey, InsertKey, TypeOK
  <2>3. t.pc # "start" /\ t.op = "rotate" => t.key # tx[a].key
    BY <1>1, <1>2, <1>3, <2>1 DEF Held, Row, Mode, Conflict
  <2> QED
    BY <1>3, <2>2, <2>3
<1>6. CASE UpdateKeyTemplateAccess(a)
  <2>1. /\ tx[a].key \in Key /\ <<tx[a].key, "write">> \in tx[a].locks
    BY <1>1, <1>6 DEF Held, UpdateKeyTemplateAccess, At
  <2>2. /\ \A k \in Key \ {tx[a].key} : access'[k] = access[k]
        /\ UNCHANGED <<owner, successor, enabled>>
    BY <1>1, <1>6 DEF UpdateKeyTemplateAccess, TypeOK
  <2>3. t.pc # "start" /\ t.op = "rotate" => t.key # tx[a].key
    BY <1>1, <1>2, <1>3, <2>1 DEF Held, Row, Mode, Conflict
  <2> QED
    BY <1>3, <2>2, <2>3
<1>7. CASE DisableClient(a)
  <2>1. tx[a].client \in Client /\ <<tx[a].client, "write">> \in tx[a].locks
    BY <1>1, <1>7 DEF Held, DisableClient, At, Transaction
  <2>2. /\ \A c \in Client \ {tx[a].client} : enabled'[c] = enabled[c]
        /\ UNCHANGED keyVars
    BY <1>1, <1>7 DEF DisableClient, TypeOK
  <2>3. t.client \in Client
    BY <1>1 DEF Transaction
  <2>4. t.pc = "ready" /\ t.op \in {"issue", "rotate"} => t.client # tx[a].client
    BY <1>1, <1>2, <2>1 DEF Held, Row, Mode, Conflict
  <2> QED
    BY <2>2, <2>3, <2>4 DEF keyVars
<1>8. CASE RevokeKey(a)
  BY <1>8 DEF RevokeKey
<1> QED
  BY <1>4, <1>5, <1>6, <1>7, <1>8 DEF CommitAny

LEMMA HeldPreserved ==
  ASSUME KeyInv, [Next]_vars PROVE \A x \in Admin : Held(x)'
<1> SUFFICES ASSUME NEW x \in Admin PROVE Held(x)'
  OBVIOUS
<1>0. TypeOK /\ Held(x)
  BY DEF KeyInv
<1>1. ASSUME NEW a \in Admin, Begins(a) PROVE Held(x)'
  <2>1. CASE x = a
    BY <1>1, <2>1 DEF Begins, Held
  <2>2. CASE x # a
    <3>1. tx'[x] = tx[x]
      BY <1>0, <1>1, <2>2 DEF Begins, TypeOK
    <3> QED
      BY <1>0, <1>1, <3>1 DEF Begins, Held, Active, keyVars
  <2> QED
    BY <2>1, <2>2
<1>2. ASSUME NEW a \in Admin, Locks(a) PROVE Held(x)'
  <2>1. CASE x # a
    <3>1. tx'[x] = tx[x]
      BY <1>0, <1>2, <2>1 DEF Locks, TypeOK
    <3> QED
      BY <1>0, <1>2, <3>1 DEF Locks, Held, Active, keyVars
  <2>2. CASE x = a
    <3> DEFINE t == tx[a]  u == tx'[a]
    <3>1. /\ t \in Transaction /\ u \in Transaction /\ t # NoTx /\ Held(a) /\ TypeOK
          /\ u.op = t.op /\ u.client = t.client /\ u.key = t.key /\ u.inherits = t.inherits
          /\ u.locks = t.locks \cup {NextLock(t)}
      BY <1>0, <1>2, <2>2, Committing DEF Locks, Active
    <3>2. t.op \in {"rotate", "revoke", "access"} => t.key \in Key
      BY <3>1 DEF Held, Active
    <3>3. UNCHANGED <<owner, successor, access, enabled>>
      BY <1>2 DEF Locks, keyVars
    <3>4. CASE t.pc = "start" /\ t.op = "rotate"
      <4>1. u.pc = "keyed" /\ t.locks = {} /\ NextLock(t) = <<t.key, "update">>
        BY <1>2, <3>1, <3>4 DEF Locks, Held, Active, NextLock
      <4>2. owner[t.key] = t.client /\ owner[t.key] # None /\ access[t.key] # None
        BY <1>2, <3>1, <3>2, <3>4, <4>1, KeyAssumption DEF Locks, Transaction, TypeOK
      <4>3. /\ successor[t.key] = None /\ u.until \in Nat
            /\ u.selection = IF t.inherits THEN access[t.key] ELSE t.selection
        BY <1>2, <3>4, <4>1 DEF Locks
      <4>4. u.selection # None
        BY <3>1, <3>4, <4>2, <4>3 DEF Held, Active
      <4> QED
        BY <2>2, <3>1, <3>2, <3>3, <3>4, <4>1, <4>2, <4>3, <4>4 DEF Held, Mode
    <3>5. CASE t.pc = "start" /\ t.op \in {"revoke", "access"}
      <4>1. u.pc = "keyed" /\ t.locks = {} /\ NextLock(t) = <<t.key, "write">>
        BY <1>2, <3>1, <3>5 DEF Locks, Held, Active, NextLock
      <4>2. owner[t.key] = t.client /\ u.selection = t.selection
        BY <1>2, <3>5, <4>1 DEF Locks
      <4>3. u.op = "access" => u.selection # None
        BY <3>1, <4>2 DEF Held, Active
      <4> QED
        BY <2>2, <3>1, <3>2, <3>3, <3>5, <4>1, <4>2, <4>3 DEF Held, Mode
    <3>6. CASE t.pc = "start" /\ t.op \in {"issue", "disable"}
      <4>1. /\ u.pc = "ready" /\ u.selection = t.selection
            /\ t.op = "issue" => enabled[t.client]
        BY <1>2, <3>6 DEF Locks
      <4>2. NextLock(t) = <<t.client, IF t.op = "issue" THEN "update" ELSE "write">>
        BY <3>6 DEF NextLock
      <4>3. u.op = "issue" => u.selection # None
        BY <3>1, <4>1 DEF Held, Active
      <4> QED
        BY <2>2, <3>1, <3>3, <3>6, <4>1, <4>2, <4>3 DEF Held
    <3>7. CASE t.pc = "keyed"
      <4>1. /\ t.op \in {"rotate", "revoke", "access"} /\ u.pc = "ready"
            /\ u.selection = t.selection
            /\ t.op = "rotate" => u.until \in Nat /\ enabled[t.client]
        BY <1>2, <3>1, <3>7 DEF Locks, Held, Active
      <4>2. t.op = "rotate" => NextLock(t) = <<t.client, "update">>
        BY <3>7 DEF NextLock
      <4> QED
        BY <2>2, <3>1, <3>2, <3>3, <3>7, <4>1, <4>2 DEF Held, Active
    <3>8. t.pc \in {"start", "keyed"} /\ t.op \in Operation
      BY <1>2, <3>1 DEF Locks, Transaction
    <3> QED
      BY <3>4, <3>5, <3>6, <3>7, <3>8 DEF Operation
  <2> QED
    BY <2>1, <2>2
<1>3. ASSUME NEW a \in Admin, CommitAny(a) \/ Rollback(a) PROVE Held(x)'
  <2>1. End(a)
    BY <1>3 DEF CommitAny, IssueKey, RotateKey, RevokeKey, UpdateKeyTemplateAccess,
       DisableClient, Rollback
  <2>2. tx'[a] = NoTx /\ (x # a => tx'[x] = tx[x])
    BY <1>0, <2>1 DEF End, TypeOK
  <2>3. CASE x = a
    BY <2>2, <2>3 DEF Held, Active
  <2>4. CASE x # a /\ Rollback(a)
    BY <1>0, <2>2, <2>4 DEF Rollback, keyVars, Held, Active
  <2>5. CASE x # a /\ CommitAny(a)
    <3>1. CASE ~Active(x)
      BY <2>2, <2>5, <3>1 DEF Held, Active
    <3>2. CASE Active(x)
      <4>1. LET t == tx[x] IN
            /\ t.pc # "start" /\ t.op = "rotate" =>
                 /\ owner'[t.key] = owner[t.key] /\ successor'[t.key] = successor[t.key]
                 /\ access'[t.key] = access[t.key]
            /\ t.pc # "start" /\ t.op \in {"revoke", "access"} => owner'[t.key] = owner[t.key]
            /\ t.pc = "ready" /\ t.op \in {"issue", "rotate"} =>
                 enabled'[t.client] = enabled[t.client]
        BY <2>5, <3>2, Protected
      <4> QED
        BY <1>0, <2>2, <2>5, <3>2, <4>1 DEF Held, Active
    <3> QED
      BY <3>1, <3>2
  <2> QED
    BY <1>3, <2>3, <2>4, <2>5
<1>4. CASE Tick \/ UNCHANGED vars
  BY <1>0, <1>4 DEF Tick, vars, keyVars, Held, Active
<1> QED
  BY <1>0, <1>1, <1>2, <1>3, <1>4, BeginStep, LockStep DEF Next

LEMMA PairsPreserved ==
  ASSUME KeyInv, [Next]_vars PROVE Fresh' /\ RotationPairs'
<1>0. TypeOK /\ Fresh /\ RotationPairs
  BY DEF KeyInv
<1>1. ASSUME UNCHANGED <<owner, expires, successor, predecessor>> PROVE Fresh' /\ RotationPairs'
  BY <1>0, <1>1 DEF Fresh, RotationPairs, Issued
<1>2. ASSUME NEW a \in Admin, NEW n \in Key, IssueKey(a, n) PROVE Fresh' /\ RotationPairs'
  <2>1. /\ owner' = [owner EXCEPT ![n] = tx[a].client] /\ ~Issued(n) /\ UNCHANGED successor
        /\ predecessor' = [predecessor EXCEPT ![n] = None]
        /\ \A k \in Key \ {n} : expires'[k] = expires[k]
    BY <1>0, <1>2 DEF IssueKey, InsertKey, TypeOK
  <2>2. predecessor' = predecessor
    BY <1>0, <2>1 DEF Fresh, TypeOK
  <2>3. Fresh'
    BY <1>0, <2>1, <2>2, KeyAssumption DEF Fresh, Issued, TypeOK
  <2>4. ASSUME NEW k \in Key, successor[k] # None
        PROVE  k # n /\ successor[k] # n /\ successor[k] \in Key
    <3>1. Issued(k) /\ successor[k] \in Key /\ predecessor[successor[k]] = k /\ k # None
      BY <1>0, <2>4, KeyAssumption DEF RotationPairs, TypeOK
    <3> QED
      BY <1>0, <2>1, <3>1 DEF Fresh
  <2>5. RotationPairs'
    BY <1>0, <2>1, <2>2, <2>4 DEF RotationPairs, Issued, TypeOK
  <2> QED
    BY <2>3, <2>5
<1>3. ASSUME NEW a \in Admin, NEW n \in Key, RotateKey(a, n) PROVE Fresh' /\ RotationPairs'
  <2> DEFINE t == tx[a]
  <2>1. /\ t \in Transaction /\ Held(a) /\ Active(a) /\ t.op = "rotate" /\ t.pc = "ready"
    BY <1>3, Committing DEF RotateKey, At, Active
  <2>2. /\ t.key \in Key /\ owner[t.key] = t.client /\ t.client # None
        /\ successor[t.key] = None /\ t.until \in Nat
    BY <2>1, KeyAssumption DEF Held, Transaction
  <2>3. /\ owner' = [owner EXCEPT ![n] = t.client] /\ ~Issued(n) /\ t.key # n
        /\ predecessor' = [predecessor EXCEPT ![n] = t.key]
        /\ successor' = [successor EXCEPT ![t.key] = n]
    BY <1>3, <2>2 DEF RotateKey, InsertKey, Issued
  <2>4. /\ \A k \in Key \ {n, t.key} : expires'[k] = expires[k]
        /\ expires'[t.key] # Never
    <3>1. Earlier(expires[t.key], t.until) # Never
      BY <2>2, KeyAssumption DEF Earlier
    <3>2. expires' = [expires EXCEPT ![t.key] = Earlier(expires[t.key], t.until), ![n] = Never]
      BY <1>3 DEF RotateKey
    <3> HIDE DEF t
    <3> QED
      BY <1>0, <2>2, <2>3, <3>1, <3>2 DEF TypeOK
  <2>5. Fresh'
    BY <1>0, <2>2, <2>3, KeyAssumption DEF Fresh, Issued, TypeOK
  <2>6. predecessor[n] = None /\ successor[n] = None /\ \A k \in Key : successor[k] # n
    BY <1>0, <2>3, KeyAssumption DEF Fresh, RotationPairs, TypeOK
  <2>7. ASSUME NEW k \in Key, NEW m \in Key PROVE successor'[k] = m <=> predecessor'[m] = k
    <3>1. CASE k = t.key
      BY <1>0, <2>2, <2>3, <2>6, <3>1, KeyAssumption DEF RotationPairs, TypeOK
    <3>2. CASE k # t.key
      BY <1>0, <2>2, <2>3, <2>6, <3>2 DEF RotationPairs, TypeOK
    <3> QED
      BY <3>1, <3>2
  <2>8. ASSUME NEW k \in Key, successor'[k] # None
        PROVE  owner'[successor'[k]] = owner'[k] /\ Issued(k)' /\ expires'[k] # Never
    <3>1. CASE k = t.key
      BY <1>0, <2>2, <2>3, <2>4, <3>1 DEF TypeOK, Issued
    <3>2. CASE k # t.key
      <4>1. /\ successor'[k] = successor[k] /\ successor[k] # None /\ successor[k] \in Key
            /\ k # n /\ successor[k] # n
        BY <1>0, <2>2, <2>3, <2>6, <2>8, <3>2 DEF TypeOK
      <4> QED
        BY <1>0, <2>3, <2>4, <3>2, <4>1 DEF RotationPairs, TypeOK, Issued
    <3> QED
      BY <3>1, <3>2
  <2> QED
    BY <2>5, <2>7, <2>8 DEF RotationPairs
<1>4. ASSUME NEW a \in Admin, BeginAny(a) \/ LockAny(a) \/ RevokeKey(a) \/ DisableClient(a)
                                \/ UpdateKeyTemplateAccess(a) \/ Rollback(a)
      PROVE  UNCHANGED <<owner, expires, successor, predecessor>>
  BY <1>0, <1>4, BeginStep, LockStep DEF Begins, Locks, RevokeKey, DisableClient,
     UpdateKeyTemplateAccess, Rollback, keyVars
<1>5. CASE Tick \/ UNCHANGED vars
  BY <1>1, <1>5 DEF Tick, vars, keyVars
<1> QED
  BY <1>1, <1>2, <1>3, <1>4, <1>5 DEF Next, CommitAny

LEMMA Inductive ==
  ASSUME KeyInv, [Next]_vars PROVE KeyInv'
BY TypePreserved, HeldPreserved, ExclusivePreserved, PairsPreserved DEF KeyInv

-----------------------------------------------------------------------------
(* Theorems.                                                               *)

\* What a transaction read under its locks is still so when it commits, and conflicting
\* locks exclude each other.
THEOREM KeyInvariant == Spec => []KeyInv
<1>1. Init => KeyInv
  BY InitKeyInv
<1>2. KeyInv /\ [Next]_vars => KeyInv'
  BY Inductive
<1> QED
  BY <1>1, <1>2, PTL DEF Spec

\* Every variable keeps its type, and an issued key has a template selection.
THEOREM KeyTypes == Spec => []TypeOK
<1>1. KeyInv => TypeOK
  BY DEF KeyInv
<1> QED
  BY <1>1, KeyInvariant, PTL

\* Rotations pair keys one to one within a client, and a replaced key has an end.
THEOREM KeysArePaired == Spec => []RotationPairs
<1>1. KeyInv => RotationPairs
  BY DEF KeyInv
<1> QED
  BY <1>1, KeyInvariant, PTL

\* A transaction that waits for the client, holding its key, waits only for transactions
\* that wait for nothing; one that waits for a key holds nothing.  So none wait in a circle.
THEOREM NoDeadlock == Spec => []NoLockCycle
<1>1. ASSUME KeyInv, NEW a \in Admin, NEW b \in Admin, Blocks(b, a)
      PROVE  /\ tx[b].pc # "start"
             /\ tx[a].pc # "start" => tx[b].pc = "ready"
  <2>1. /\ Active(a) /\ Active(b) /\ tx[a].pc # "ready" /\ Held(a) /\ Held(b)
        /\ tx[a] \in Transaction /\ tx[b] \in Transaction
    BY <1>1, ActiveType DEF Blocks, Active, KeyInv
  <2>2. PICK m \in Mode : <<NextLock(tx[a])[1], m>> \in tx[b].locks
    BY <1>1 DEF Blocks
  <2>3. tx[b].pc # "start"
    BY <2>1, <2>2 DEF Held
  <2>4. ASSUME tx[a].pc # "start" PROVE tx[b].pc = "ready"
    <3>1. tx[a].pc = "keyed" /\ tx[a].op \in {"rotate", "revoke", "access"}
      BY <2>1, <2>4 DEF Held, Transaction
    <3>2. NextLock(tx[a])[1] = tx[a].client
      BY <3>1 DEF NextLock
    <3>3. <<tx[a].client, m>> \notin Key \X Mode
      BY <2>1, KeyAssumption DEF Transaction
    <3> QED
      BY <2>1, <2>2, <2>3, <3>2, <3>3 DEF Held, Transaction
  <2> QED
    BY <2>3, <2>4
<1>2. ASSUME KeyInv PROVE NoLockCycle
  <2> SUFFICES ASSUME NEW S \in SUBSET Admin, S # {}, \A a \in S : \E b \in S : Blocks(b, a)
               PROVE  FALSE
    BY DEF NoLockCycle
  <2> PICK a \in S : TRUE
    OBVIOUS
  <2> PICK b \in S : Blocks(b, a)
    OBVIOUS
  <2> PICK c \in S : Blocks(c, b)
    OBVIOUS
  <2>1. tx[b].pc # "start" /\ tx[c].pc = "ready"
    BY <1>1, <1>2
  <2> PICK d \in S : Blocks(d, c)
    OBVIOUS
  <2>2. tx[c].pc # "ready"
    BY DEF Blocks
  <2> QED
    BY <2>1, <2>2
<1> QED
  BY <1>2, KeyInvariant, PTL

\* A key that Authenticate refuses it refuses for good, and no expiry is moved later.
THEOREM KeysOnlyShrink == Spec => LifeOnlyShrinks
<1> DEFINE Shrinks ==
      /\ \A k \in Key : Issued(k) =>
           /\ owner'[k] = owner[k]
           /\ revoked[k] => revoked'[k]
           /\ expires[k] # Never => expires'[k] # Never /\ expires'[k] <= expires[k]
      /\ \A c \in Client : ~enabled[c] => ~enabled'[c]
<1>1. ASSUME KeyInv, [Next]_vars PROVE Shrinks
  <2>0. TypeOK
    BY <1>1 DEF KeyInv
  <2>1. \A k \in Key : expires[k] # Never => expires[k] \in Nat
    BY <2>0 DEF TypeOK, Time
  <2>2. ASSUME UNCHANGED <<owner, revoked, expires, enabled>> PROVE Shrinks
    BY <2>1, <2>2
  <2>3. ASSUME NEW a \in Admin, NEW n \in Key, IssueKey(a, n) PROVE Shrinks
    <3>1. /\ \A k \in Key \ {n} : owner'[k] = owner[k] /\ expires'[k] = expires[k]
          /\ ~Issued(n) /\ UNCHANGED <<revoked, enabled>>
      BY <2>0, <2>3 DEF IssueKey, InsertKey, TypeOK
    <3> QED
      BY <2>1, <3>1
  <2>4. ASSUME NEW a \in Admin, NEW n \in Key, RotateKey(a, n) PROVE Shrinks
    <3> DEFINE q == tx[a].key  d == tx[a].until
    <3>1. /\ tx[a] \in Transaction /\ Held(a) /\ Active(a)
          /\ tx[a].op = "rotate" /\ tx[a].pc = "ready"
      BY <1>1, <2>4, Committing DEF RotateKey, At, Active
    <3>2. q \in Key /\ d \in Nat /\ owner[q] # None
      BY <3>1, KeyAssumption DEF Held, Transaction
    <3>3. /\ owner' = [owner EXCEPT ![n] = tx[a].client] /\ ~Issued(n) /\ q # n
          /\ expires' = [expires EXCEPT ![q] = Earlier(expires[q], d), ![n] = Never]
          /\ UNCHANGED <<revoked, enabled>>
      BY <2>4, <3>2 DEF RotateKey, InsertKey, Issued
    <3>4. /\ Earlier(expires[q], d) # Never
          /\ expires[q] # Never => Earlier(expires[q], d) <= expires[q]
      BY <2>1, <3>2, KeyAssumption DEF Earlier
    <3> HIDE DEF q, d
    <3>5. /\ expires'[q] = Earlier(expires[q], d)
          /\ \A k \in Key \ {q, n} : expires'[k] = expires[k]
          /\ \A k \in Key \ {n} : owner'[k] = owner[k]
      BY <2>0, <3>2, <3>3 DEF TypeOK
    <3>6. ASSUME NEW k \in Key, Issued(k)
          PROVE  /\ owner'[k] = owner[k]
                 /\ revoked[k] => revoked'[k]
                 /\ expires[k] # Never => expires'[k] # Never /\ expires'[k] <= expires[k]
      <4>1. k # n
        BY <3>3, <3>6
      <4>2. CASE k = q
        BY <3>3, <3>4, <3>5, <4>1, <4>2
      <4>3. CASE k # q
        <5>1. expires'[k] = expires[k]
          BY <3>5, <4>1, <4>3
        <5>2. expires[k] # Never => expires[k] <= expires[k]
          BY <2>1
        <5> QED
          BY <3>3, <3>5, <4>1, <5>1, <5>2
      <4> QED
        BY <4>2, <4>3
    <3> QED
      BY <3>3, <3>6
  <2>5. ASSUME NEW a \in Admin, RevokeKey(a) PROVE Shrinks
    BY <2>0, <2>1, <2>5 DEF RevokeKey, TypeOK
  <2>6. ASSUME NEW a \in Admin, DisableClient(a) PROVE Shrinks
    BY <2>0, <2>1, <2>6 DEF DisableClient, TypeOK, keyVars
  <2>7. ASSUME NEW a \in Admin, BeginAny(a) \/ LockAny(a) \/ UpdateKeyTemplateAccess(a) \/ Rollback(a)
        PROVE  UNCHANGED <<owner, revoked, expires, enabled>>
    BY <1>1, <2>0, <2>7, BeginStep, LockStep DEF Begins, Locks, UpdateKeyTemplateAccess,
       Rollback, keyVars
  <2>8. CASE Tick \/ UNCHANGED vars
    BY <2>2, <2>8 DEF Tick, vars, keyVars
  <2> HIDE DEF Shrinks
  <2> QED
    BY <1>1, <2>2, <2>3, <2>4, <2>5, <2>6, <2>7, <2>8 DEF Next, CommitAny
<1> HIDE DEF Shrinks
<1>2. ASSUME KeyInv, [Next]_vars PROVE now \in Nat /\ now' \in Nat /\ now <= now'
  <2>0. TypeOK
    BY <1>2 DEF KeyInv
  <2>1. ASSUME UNCHANGED now PROVE now' \in Nat /\ now <= now'
    BY <2>0, <2>1 DEF TypeOK
  <2>2. CASE Tick
    BY <2>0, <2>2 DEF Tick, TypeOK
  <2>3. ASSUME NEW a \in Admin, BeginAny(a) \/ LockAny(a) \/ CommitAny(a) \/ Rollback(a)
        PROVE  UNCHANGED now
    BY <1>2, <2>0, <2>3, BeginStep, LockStep DEF Begins, Locks, CommitAny, IssueKey, RotateKey,
       RevokeKey, UpdateKeyTemplateAccess, DisableClient, Rollback, End
  <2> QED
    BY <1>2, <2>0, <2>1, <2>2, <2>3 DEF Next, vars, TypeOK
<1>3. ASSUME KeyInv, [Next]_vars, NEW k \in Key, Issued(k)
      PROVE  /\ Usable(k)' => Usable(k)
             /\ expires[k] # Never => expires'[k] # Never /\ expires'[k] <= expires[k]
  <2>1. Shrinks
    BY <1>1, <1>3
  <2>2. /\ owner'[k] = owner[k] /\ (revoked[k] => revoked'[k])
        /\ expires[k] # Never => expires'[k] # Never /\ expires'[k] <= expires[k]
    BY <1>3, <2>1 DEF Shrinks
  <2>3. /\ owner[k] \in Client /\ (~enabled[owner[k]] => ~enabled'[owner[k]])
        /\ expires[k] \in Nat \cup {Never} /\ expires'[k] \in Nat \cup {Never}
    <3>1. TypeOK /\ TypeOK'
      BY <1>3, Inductive DEF KeyInv
    <3> QED
      BY <1>3, <2>1, <3>1 DEF Shrinks, TypeOK, Issued, Time
  <2>4. Expired(expires[k]) => Expired(expires[k])'
    BY <1>2, <1>3, <2>2, <2>3 DEF Expired, EndsBy
  <2> QED
    BY <1>3, <2>2, <2>3, <2>4 DEF Usable, Issued
<1>4. KeyInv /\ [Next]_vars =>
        [\A k \in Key : Issued(k) =>
           /\ Usable(k)' => Usable(k)
           /\ expires[k] # Never => expires'[k] # Never /\ expires'[k] <= expires[k]]_vars
  BY <1>3
<1> QED
  BY <1>4, KeyInvariant, PTL DEF Spec, LifeOnlyShrinks

\* Which steps write a new key, and what they know.
LEMMA KeyWriters ==
  ASSUME KeyInv, [Next]_vars, NEW k \in Key, ~Issued(k), owner'[k] # None
  PROVE  \E a \in Admin : owner'[k] = tx[a].client /\ enabled[tx[a].client]
<1>0. TypeOK
  BY DEF KeyInv
<1>1. ASSUME NEW a \in Admin, NEW n \in Key, IssueKey(a, n) \/ RotateKey(a, n)
      PROVE  owner'[k] = tx[a].client /\ enabled[tx[a].client]
  <2>1. /\ tx[a] \in Transaction /\ Held(a) /\ Active(a)
        /\ tx[a].op \in {"issue", "rotate"} /\ tx[a].pc = "ready"
    BY <1>1, Committing DEF IssueKey, RotateKey, At, Active
  <2>2. owner' = [owner EXCEPT ![n] = tx[a].client]
    BY <1>1 DEF IssueKey, RotateKey, InsertKey
  <2> QED
    BY <1>0, <2>1, <2>2 DEF TypeOK, Held, Issued
<1>2. ASSUME UNCHANGED owner PROVE FALSE
  BY <1>2 DEF Issued
<1>3. ASSUME NEW a \in Admin, BeginAny(a) \/ LockAny(a) \/ RevokeKey(a) \/ DisableClient(a)
                                \/ UpdateKeyTemplateAccess(a) \/ Rollback(a)
      PROVE  UNCHANGED owner
  BY <1>0, <1>3, BeginStep, LockStep DEF Begins, Locks, RevokeKey, DisableClient,
     UpdateKeyTemplateAccess, Rollback, keyVars
<1>4. CASE Tick \/ UNCHANGED vars
  BY <1>2, <1>4 DEF Tick, vars, keyVars
<1> QED
  BY <1>1, <1>2, <1>3, <1>4 DEF Next, CommitAny

\* A disabled client gets no key from a request that was under way.
THEOREM DisabledGetsNoKey == Spec => NoKeyAfterDisable
<1>1. KeyInv /\ [Next]_vars =>
        [\A k \in Key : ~Issued(k) /\ owner'[k] # None => enabled[owner'[k]]]_vars
  BY KeyWriters
<1> QED
  BY <1>1, KeyInvariant, PTL DEF Spec, NoKeyAfterDisable

\* A replacement inherits the access its key has when the rotation commits.
THEOREM ReplacementKeepsAccess == Spec => RotationKeepsAccess
<1>1. ASSUME KeyInv, [Next]_vars, NEW a \in Admin, At(a, "rotate", "ready"), tx[a].inherits,
             successor'[tx[a].key] # successor[tx[a].key]
      PROVE  access'[successor'[tx[a].key]] = access[tx[a].key]
  <2> DEFINE q == tx[a].key
  <2>0. /\ TypeOK /\ Exclusive /\ Held(a) /\ Active(a) /\ tx[a] \in Transaction
    BY <1>1, Committing DEF KeyInv, At, Active
  <2>1. q \in Key /\ <<q, "update">> \in tx[a].locks /\ tx[a].selection = access[q]
    BY <1>1, <2>0 DEF Held, At
  <2>2. ASSUME UNCHANGED successor PROVE FALSE
    BY <1>1, <2>2
  <2>3. ASSUME NEW b \in Admin, NEW n \in Key, RotateKey(b, n)
        PROVE  access'[successor'[q]] = access[q]
    <3>1. /\ tx[b].key \in Key /\ <<tx[b].key, "update">> \in tx[b].locks /\ Active(b)
      BY <1>1, <2>3, Committing DEF RotateKey, At, Held, Active
    <3>2. successor' = [successor EXCEPT ![tx[b].key] = n]
      BY <2>3 DEF RotateKey
    <3>3. tx[b].key = q
      BY <1>1, <2>0, <2>1, <3>1, <3>2 DEF TypeOK
    <3>4. b = a
      BY <2>0, <2>1, <3>1, <3>3 DEF Exclusive, Row, Mode, Conflict
    <3>5. access' = [access EXCEPT ![n] = tx[a].selection]
      BY <2>3, <3>4 DEF RotateKey, InsertKey
    <3> QED
      BY <2>0, <2>1, <3>2, <3>4, <3>5 DEF TypeOK
  <2>4. ASSUME NEW b \in Admin, \/ BeginAny(b) \/ LockAny(b) \/ RevokeKey(b) \/ DisableClient(b)
                                 \/ UpdateKeyTemplateAccess(b) \/ Rollback(b)
                                 \/ \E n \in Key : IssueKey(b, n)
        PROVE  UNCHANGED successor
    BY <1>1, <2>0, <2>4, BeginStep, LockStep DEF Begins, Locks, RevokeKey, DisableClient,
       UpdateKeyTemplateAccess, Rollback, IssueKey, keyVars
  <2>5. CASE Tick \/ UNCHANGED vars
    BY <2>2, <2>5 DEF Tick, vars, keyVars
  <2> QED
    BY <1>1, <2>2, <2>3, <2>4, <2>5 DEF Next, CommitAny
<1>2. KeyInv /\ [Next]_vars =>
        [\A a \in Admin :
           At(a, "rotate", "ready") /\ tx[a].inherits /\ successor'[tx[a].key] # successor[tx[a].key]
             => access'[successor'[tx[a].key]] = access[tx[a].key]]_vars
  BY <1>1
<1> QED
  BY <1>2, KeyInvariant, PTL DEF Spec, RotationKeepsAccess

=============================================================================
