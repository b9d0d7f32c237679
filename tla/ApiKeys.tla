------------------------------- MODULE ApiKeys -------------------------------
(***************************************************************************)
(* API clients and their keys (internal/apiclients/service.go): issue,     *)
(* rotate with a grace period, revoke, change template access, disable.    *)
(*                                                                         *)
(* Every operation is a PostgreSQL transaction.  It takes row locks one    *)
(* after the other, by SELECT FOR UPDATE, by UPDATE and by the foreign     *)
(* keys of the audit event it inserts, waits for each, and writes rows it  *)
(* has locked, so its writes are applied when it commits.  It may also be  *)
(* rolled back anywhere: a check fails, the request is cancelled, the      *)
(* process dies.  Time is a number and all clocks agree.                   *)
(*                                                                         *)
(* Scopes and names never change once written and are left out, as is      *)
(* last_used_at, which nothing but its own rate limit reads.               *)
(***************************************************************************)
EXTENDS Naturals, FiniteSets

CONSTANTS
  Client,     \* api_clients
  Key,        \* ids an api_keys row may get
  Admin,      \* requests in progress
  Selection,  \* template selections: all, none, or some slugs
  Grace,      \* rotation grace periods
  MaxTime,    \* bound: the clock stops here
  Never,      \* NULL expires_at
  None        \* NULL id, or a selection that was not supplied

ASSUME KeyAssumption ==
  /\ Grace \subseteq Nat
  /\ MaxTime \in Nat
  /\ Never \notin Nat
  /\ None \notin Client \cup Key \cup Selection
  /\ Client \cap Key = {}

VARIABLES
  now,         \* the clock
  enabled,     \* api_clients.enabled
  owner,       \* api_keys.client_id, None for an id that is not in use
  expires,     \* api_keys.expires_at
  revoked,     \* api_keys.revoked_at is set
  access,      \* api_keys.template_slugs
  successor,   \* api_keys.replaced_by_id
  predecessor, \* api_keys.replaces_id
  tx           \* transactions in progress

keyVars == <<owner, expires, revoked, access, successor, predecessor>>
vars    == <<now, enabled, owner, expires, revoked, access, successor, predecessor, tx>>

Time == Nat \cup {Never}

(***************************************************************************)
(* Row locks: "update" is FOR UPDATE, "write" what an UPDATE of columns    *)
(* that no foreign key refers to takes, "share" what a foreign key takes   *)
(* on the row it refers to.                                                *)
(***************************************************************************)
Mode == {"update", "write", "share"}
Row  == Client \cup Key

Conflict(m, n) == "update" \in {m, n} \/ (m = "write" /\ n = "write")

Operation == {"issue", "rotate", "revoke", "access", "disable"}

Transaction ==
  [op : Operation, pc : {"start", "keyed", "ready"}, client : Client, key : Key \cup {None},
   selection : Selection \cup {None}, inherits : BOOLEAN, until : Time,
   locks : SUBSET (Row \X Mode)]

NoTx == [op |-> "none"]

TypeOK ==
  /\ now         \in Nat
  /\ enabled     \in [Client -> BOOLEAN]
  /\ owner       \in [Key -> Client \cup {None}]
  /\ expires     \in [Key -> Time]
  /\ revoked     \in [Key -> BOOLEAN]
  /\ access      \in [Key -> Selection \cup {None}]
  /\ \A k \in Key : owner[k] # None => access[k] # None
  /\ successor   \in [Key -> Key \cup {None}]
  /\ predecessor \in [Key -> Key \cup {None}]
  /\ tx          \in [Admin -> Transaction \cup {NoTx}]

Init ==
  /\ now         = 0
  /\ enabled     = [c \in Client |-> TRUE]
  /\ owner       = [k \in Key |-> None]
  /\ expires     = [k \in Key |-> Never]
  /\ revoked     = [k \in Key |-> FALSE]
  /\ access      = [k \in Key |-> None]
  /\ successor   = [k \in Key |-> None]
  /\ predecessor = [k \in Key |-> None]
  /\ tx          = [a \in Admin |-> NoTx]

Issued(k)    == owner[k] # None
EndsBy(t, d) == t # Never /\ t <= d
Expired(t)   == EndsBy(t, now)

\* What Authenticate asks of a key whose secret was presented.
Usable(k) == /\ Issued(k)
             /\ enabled[owner[k]] /\ ~revoked[k] /\ ~Expired(expires[k])

-----------------------------------------------------------------------------
(* Transactions begin.                                                     *)

Begin(a, t) ==
  /\ tx[a] = NoTx
  /\ tx' = [tx EXCEPT ![a] = t]
  /\ UNCHANGED <<now, enabled, keyVars>>

Request(op, c, k) ==
  [op |-> op, pc |-> "start", client |-> c, key |-> k, selection |-> None,
   inherits |-> FALSE, until |-> Never, locks |-> {}]

\* An expiry in the past is refused before the client is read.
BeginIssue(a, c, t, s) ==
  /\ ~Expired(t)
  /\ Begin(a, [Request("issue", c, None) EXCEPT !.until = t, !.selection = s])

\* Without a selection the replacement inherits that of the old key.  until is the grace
\* period g, and later the deadline.
BeginRotate(a, c, k, g, s) ==
  Begin(a, [Request("rotate", c, k) EXCEPT !.until = g, !.selection = s, !.inherits = (s = None)])

BeginRevoke(a, c, k) == Begin(a, Request("revoke", c, k))
BeginDisable(a, c)   == Begin(a, Request("disable", c, None))

\* The UPDATE reads the client and the time with which it starts and locks the key later.
BeginAccess(a, c, k, s) ==
  /\ enabled[c] /\ s # None
  /\ Begin(a, [Request("access", c, k) EXCEPT !.selection = s, !.until = now])

-----------------------------------------------------------------------------
(* Locks.                                                                  *)

\* Mutant: rotation locks the client before the key.
NextLockClientFirst(t) ==
  CASE t.op = "rotate" -> <<IF t.pc = "start" THEN t.client ELSE t.key, "update">>
    [] t.op \in {"revoke", "access"} /\ t.pc = "start" -> <<t.key, "write">>
    [] t.op \in {"revoke", "access"} /\ t.pc = "keyed" -> <<t.client, "share">>
    [] t.op = "issue" -> <<t.client, "update">>
    [] t.op = "disable" -> <<t.client, "write">>

\* The row and mode a transaction asks for next: the key first where there is one, then
\* the client, which the audit event of a revocation or access change refers to.
NextLock(t) ==
  CASE t.op = "rotate" -> <<IF t.pc = "start" THEN t.key ELSE t.client, "update">>
    [] t.op \in {"revoke", "access"} /\ t.pc = "start" -> <<t.key, "write">>
    [] t.op \in {"revoke", "access"} /\ t.pc = "keyed" -> <<t.client, "share">>
    [] t.op = "issue" -> <<t.client, "update">>
    [] t.op = "disable" -> <<t.client, "write">>

\* b keeps a from the lock it asks for.
Blocks(b, a) ==
  /\ a # b /\ {a, b} \subseteq {x \in Admin : tx[x] # NoTx} /\ tx[a].pc # "ready"
  /\ \E m \in Mode : /\ <<NextLock(tx[a])[1], m>> \in tx[b].locks
                     /\ Conflict(m, NextLock(tx[a])[2])

At(a, op, pc) == tx[a] # NoTx /\ tx[a].op = op /\ tx[a].pc = pc

\* The next lock is granted and the transaction goes on as t.
Acquire(a, t) ==
  /\ \A b \in Admin : ~Blocks(b, a)
  /\ tx' = [tx EXCEPT ![a] = [t EXCEPT !.locks = @ \cup {NextLock(tx[a])}]]
  /\ UNCHANGED <<now, enabled, keyVars>>

\* Mutant: a key is replaced twice.
LockRotatedTwice(a) ==
  LET t == tx[a]  k == tx[a].key IN
  /\ At(a, "rotate", "start")
  /\ owner[k] = t.client /\ ~revoked[k] /\ ~Expired(expires[k])
  /\ Acquire(a, [t EXCEPT !.pc = "keyed", !.selection = IF t.inherits THEN access[k] ELSE @])

\* Mutant: RotateKey reads the old key without FOR UPDATE.
ReadRotated(a) ==
  LET t == tx[a]  k == tx[a].key IN
  /\ At(a, "rotate", "start")
  /\ owner[k] = t.client /\ ~revoked[k] /\ successor[k] = None /\ ~Expired(expires[k])
  /\ tx' = [tx EXCEPT ![a] = [t EXCEPT !.pc = "keyed",
                                       !.selection = IF t.inherits THEN access[k] ELSE @]]
  /\ UNCHANGED <<now, enabled, keyVars>>

\* RotateKey reads the old key FOR UPDATE.
LockRotated(a) ==
  LET t == tx[a]  k == tx[a].key IN
  /\ At(a, "rotate", "start")
  /\ owner[k] = t.client /\ ~revoked[k] /\ successor[k] = None /\ ~Expired(expires[k])
  /\ Acquire(a, [t EXCEPT !.pc = "keyed", !.selection = IF t.inherits THEN access[k] ELSE @])

\* Mutant: issue reads the client without FOR UPDATE.
ReadIssuer(a) ==
  LET t == tx[a] IN
  /\ At(a, "issue", "start") \/ At(a, "rotate", "keyed")
  /\ enabled[t.client]
  /\ tx' = [tx EXCEPT ![a] = [t EXCEPT !.pc = "ready",
                                       !.until = IF t.op = "rotate" THEN now + @ ELSE @]]
  /\ UNCHANGED <<now, enabled, keyVars>>

\* issue reads the client FOR UPDATE; a rotation then computes the old key's deadline.
LockIssuer(a) ==
  LET t == tx[a] IN
  /\ At(a, "issue", "start") \/ At(a, "rotate", "keyed")
  /\ enabled[t.client]
  /\ Acquire(a, [t EXCEPT !.pc = "ready",
                          !.until = IF t.op = "rotate" THEN now + @ ELSE @])

LockRevoked(a) ==
  LET t == tx[a] IN
  /\ At(a, "revoke", "start")
  /\ owner[t.key] = t.client /\ ~revoked[t.key]
  /\ Acquire(a, [t EXCEPT !.pc = "keyed"])

LockUpdated(a) ==
  LET t == tx[a] IN
  /\ At(a, "access", "start")
  /\ owner[t.key] = t.client /\ ~revoked[t.key] /\ ~EndsBy(expires[t.key], t.until)
  /\ Acquire(a, [t EXCEPT !.pc = "keyed"])

\* The audit event refers to the client.
LockAudited(a) ==
  /\ At(a, "revoke", "keyed") \/ At(a, "access", "keyed")
  /\ Acquire(a, [tx[a] EXCEPT !.pc = "ready"])

LockDisabled(a) ==
  /\ At(a, "disable", "start")
  /\ enabled[tx[a].client]
  /\ Acquire(a, [tx[a] EXCEPT !.pc = "ready"])

-----------------------------------------------------------------------------
(* Transactions end.                                                       *)

End(a) == tx' = [tx EXCEPT ![a] = NoTx] /\ UNCHANGED now

\* The new row n, an id nobody has.
InsertKey(n, c, t, s, p) ==
  /\ ~Issued(n)
  /\ owner' = [owner EXCEPT ![n] = c]
  /\ access' = [access EXCEPT ![n] = s]
  /\ predecessor' = [predecessor EXCEPT ![n] = p]
  /\ UNCHANGED <<enabled, revoked>>

IssueKey(a, n) ==
  LET t == tx[a] IN
  /\ At(a, "issue", "ready") /\ End(a)
  /\ InsertKey(n, t.client, t.until, t.selection, None)
  /\ expires' = [expires EXCEPT ![n] = t.until]
  /\ UNCHANGED successor

\* Mutant: the deadline replaces whatever expiry the key had.
Deadline(e, d) == d

\* The old key's expiry: the deadline, unless it ends before.
Earlier(e, d) == IF e = Never \/ e > d THEN d ELSE e

RotateKey(a, n) ==
  LET t == tx[a] IN
  /\ At(a, "rotate", "ready") /\ End(a)
  /\ InsertKey(n, t.client, Never, t.selection, t.key)
  /\ successor' = [successor EXCEPT ![t.key] = n]
  /\ expires' = [expires EXCEPT ![t.key] = Earlier(@, t.until), ![n] = Never]

RevokeKey(a) ==
  /\ At(a, "revoke", "ready") /\ End(a)
  /\ revoked' = [revoked EXCEPT ![tx[a].key] = TRUE]
  /\ UNCHANGED <<enabled, owner, expires, access, successor, predecessor>>

UpdateKeyTemplateAccess(a) ==
  /\ At(a, "access", "ready") /\ End(a)
  /\ access' = [access EXCEPT ![tx[a].key] = tx[a].selection]
  /\ UNCHANGED <<enabled, owner, expires, revoked, successor, predecessor>>

DisableClient(a) ==
  /\ At(a, "disable", "ready") /\ End(a)
  /\ enabled' = [enabled EXCEPT ![tx[a].client] = FALSE]
  /\ UNCHANGED keyVars

Rollback(a) == tx[a] # NoTx /\ End(a) /\ UNCHANGED <<enabled, keyVars>>

Tick == /\ now < MaxTime
        /\ now' = now + 1
        /\ UNCHANGED <<enabled, keyVars, tx>>

-----------------------------------------------------------------------------

BeginAny(a) ==
  \E c \in Client, s \in Selection \cup {None} :
    \/ s # None /\ \E t \in 1..MaxTime \cup {Never} : BeginIssue(a, c, t, s)
    \/ BeginDisable(a, c)
    \/ \E k \in {x \in Key : Issued(x)} :
         \/ \E g \in Grace : BeginRotate(a, c, k, g, s)
         \/ BeginRevoke(a, c, k)
         \/ BeginAccess(a, c, k, s)

LockAny(a) == \/ LockRotated(a) \/ LockIssuer(a) \/ LockRevoked(a)
              \/ LockUpdated(a) \/ LockAudited(a) \/ LockDisabled(a)

CommitAny(a) == \/ \E n \in Key : IssueKey(a, n) \/ RotateKey(a, n)
                \/ RevokeKey(a) \/ UpdateKeyTemplateAccess(a) \/ DisableClient(a)

Next == \/ Tick
        \/ \E a \in Admin : BeginAny(a) \/ LockAny(a) \/ CommitAny(a) \/ Rollback(a)

Spec == Init /\ [][Next]_vars

-----------------------------------------------------------------------------
(* Properties.                                                             *)

\* Rotations pair keys one to one within a client, however many of them ran at once: a key
\* has at most one replacement and that replacement names it, and a replaced key has an end.
RotationPairs ==
  /\ \A k, n \in Key : successor[k] = n <=> predecessor[n] = k
  /\ \A k \in Key : successor[k] # None =>
       owner[successor[k]] = owner[k] /\ Issued(k) /\ expires[k] # Never

\* No operation gives life back.  A key that Authenticate refuses it refuses for good, and
\* a key's expiry is never moved later, not by a rotation whose grace is longer than what
\* the key had left.
LifeOnlyShrinks ==
  [][\A k \in Key : Issued(k) =>
       /\ Usable(k)' => Usable(k)
       /\ expires[k] # Never => expires'[k] # Never /\ expires'[k] <= expires[k]]_vars

\* A client that is disabled gets no key from an issue or rotation that was under way: its
\* keys are the ones that disabling it has shut off.
NoKeyAfterDisable ==
  [][\A k \in Key : ~Issued(k) /\ owner'[k] # None => enabled[owner'[k]]]_vars

\* A rotation that names no selection gives the replacement the access the old key has when
\* the rotation commits, not one that an access change has replaced meanwhile.
RotationKeepsAccess ==
  [][\A a \in Admin :
       At(a, "rotate", "ready") /\ tx[a].inherits /\ successor'[tx[a].key] # successor[tx[a].key]
         => access'[successor'[tx[a].key]] = access[tx[a].key]]_vars

\* No transactions wait for one another in a circle.
NoLockCycle ==
  \A S \in (SUBSET Admin) \ {{}} : \E a \in S : \A b \in S : ~Blocks(b, a)

=============================================================================
