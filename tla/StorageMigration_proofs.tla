------------------------ MODULE StorageMigration_proofs ------------------------
(***************************************************************************)
(* Theorems about storage migrations, for any migrations, objects and      *)
(* profiles, any number of dispatchers, copiers and administrators, and    *)
(* any number of faults.                                                   *)
(***************************************************************************)
EXTENDS StorageMigration, FiniteSetTheorems, TLAPS

MigrationRow  == [state : State, source : Profile \cup {None}, destination : Profile \cup {None}]
ItemRow       == [state : ItemState, attempts : Nat, lease : {None, "held", "expired"}]
DispatcherRow == [pc : {"idle", "enqueue", "release"}, m : Migration \cup {None},
                  o : Object \cup {None}, n : Nat]
CopierRow     == [pc : CopierPC, m : Migration \cup {None}, o : Object \cup {None}, n : Nat,
                  skip : BOOLEAN, last : BOOLEAN]
OperatorRow   == [pc : {"idle", "items", "settle"}, m : Migration \cup {None}]

-----------------------------------------------------------------------------
(* Who works on what.                                                      *)

\* What a task names: a migration with an item for the object.
Known(x) == x.m \in Migration /\ x.o \in Object /\ item[x.m][x.o].state # "none"

\* Everyone who is busy names such an item; a migration with an item has two profiles, and its
\* object is placed on the source.
References ==
  /\ \A d \in Dispatcher : IF dispatcher[d].pc = "idle" THEN dispatcher[d] = IdleDispatcher
                                                        ELSE Known(dispatcher[d])
  /\ \A t \in queue : Known(t)
  /\ \A c \in Copier : IF copier[c].pc = "idle" THEN copier[c] = IdleCopier ELSE Known(copier[c])
  /\ \A a \in Operator : IF operator[a].pc = "idle" THEN operator[a] = IdleOperator
                         ELSE operator[a].m \in Migration /\ migration[operator[a].m].state # "none"
  /\ \A m \in Migration : migration[m].state # "none" =>
       {migration[m].source, migration[m].destination} \subseteq Profile
  /\ \A m \in Migration, o \in Object : item[m][o].state # "none" =>
       migration[m].state # "none" /\ migration[m].source \in placed[o]

-----------------------------------------------------------------------------
(* What is stored where.                                                   *)

\* Placements have bytes; outside its homes, an object with a digest is stored well or not.
BytesOk ==
  /\ \A o \in Object : Home[o] \subseteq placed[o]
  /\ \A o \in Object : \A p \in placed[o] : stored[p][o] # "none"
  /\ \A o \in Digested : \A p \in Profile \ Home[o] : stored[p][o] \in {"none", "good"}

\* What a copier found or did on its way.
CopierOk(k) ==
  /\ k.skip => k.pc \in {"finish", "commit"}
  /\ k.pc \in {"copy", "put"} => migration[k.m].destination \notin Home[k.o]
  /\ k.pc = "put" /\ k.o \in Digested => stored[migration[k.m].source][k.o] = "good"
  /\ k.pc \in {"finish", "commit"} =>
       IF k.skip THEN migration[k.m].destination \in placed[k.o]
                 ELSE stored[migration[k.m].destination][k.o] # "none"

\* The object needs no copying, or is on the destination.
Placed(m, o) == item[m][o].state # "none" => migration[m].destination \in placed[o]

\* Items that are done are placed, and a migration completes when all are.
Progress ==
  /\ \A m \in Migration, o \in Object : item[m][o].state \in Done => Placed(m, o)
  /\ \A c \in Copier : copier[c].pc = "commit" /\ copier[c].last =>
       \A o \in Object \ {copier[c].o} : Placed(copier[c].m, o)
  /\ \A m \in Migration : migration[m].state = "completed" => \A o \in Object : Placed(m, o)

-----------------------------------------------------------------------------
(* One holder for each claim.                                              *)

Leased(m, o) == item[m][o].state = "running" /\ item[m][o].lease = "held"

HeldTo(p) == {w \in Migration \X Object : migration[w[1]].destination = p /\ Leased(w[1], w[2])}

WithinLimit == \A p \in Profile : IsFiniteSet(HeldTo(p)) /\ Cardinality(HeldTo(p)) <= Limit[p]

Same(x, y) == x.m = y.m /\ x.o = y.o
Busy(x) == x.pc # "idle"

\* Every dispatcher, task and copier has an item of its own, and the item's lease.
Exclusive ==
  /\ \A d \in Dispatcher : Busy(dispatcher[d]) => Leased(dispatcher[d].m, dispatcher[d].o)
  /\ \A t \in queue : Leased(t.m, t.o)
  /\ \A c \in Copier : Busy(copier[c]) => Leased(copier[c].m, copier[c].o)
  /\ \A d, e \in Dispatcher :
       Busy(dispatcher[d]) /\ Busy(dispatcher[e]) /\ Same(dispatcher[d], dispatcher[e]) => d = e
  /\ \A t, u \in queue : Same(t, u) => t = u
  /\ \A b, c \in Copier : Busy(copier[b]) /\ Busy(copier[c]) /\ Same(copier[b], copier[c]) => b = c
  /\ \A d \in Dispatcher, t \in queue : Busy(dispatcher[d]) => ~Same(dispatcher[d], t)
  /\ \A d \in Dispatcher, c \in Copier :
       Busy(dispatcher[d]) /\ Busy(copier[c]) => ~Same(dispatcher[d], copier[c])
  /\ \A t \in queue, c \in Copier : Busy(copier[c]) => ~Same(t, copier[c])

LeasesLast == Unspent({"early", "redis", "abort"})

-----------------------------------------------------------------------------
(* Work left.                                                              *)

Restarting(m) == \E a \in Operator : operator[a].pc = "items" /\ operator[a].m = m
Resumed(m)    == \E a \in Operator : operator[a].m = m

\* The item is left, and whoever is completing it completes the migration with it.
Awaits(m, o) ==
  /\ Left(m, o)
  /\ \A c \in Copier : copier[c].pc = "commit" /\ copier[c].m = m /\ copier[c].o = o => copier[c].last

\* A running migration has no failed item but for a resume on its way; and if no resume is under
\* way and no completion was overlooked, it awaits an item.
WorkLeft ==
  /\ \A m \in Migration, o \in Object :
       Running(m) /\ item[m][o].state = "failed" => Restarting(m)
  /\ \A m \in Migration \ overlooked : Running(m) /\ ~Resumed(m) => \E o \in Object : Awaits(m, o)

TypeInv == TypeOK /\ References

-----------------------------------------------------------------------------
(* What the writes of the actions do to the rows.                          *)

\* One migration gets another state.
StateWritten(m, s) ==
  /\ migration' \in [Migration -> MigrationRow]
  /\ migration'[m].state = s
  /\ \A x \in Migration : /\ x # m => migration'[x] = migration[x]
                          /\ migration'[x].source = migration[x].source
                          /\ migration'[x].destination = migration[x].destination

LEMMA SetStateWrites ==
  ASSUME TypeOK, NEW m \in Migration, NEW s \in State, SetState(m, s)
  PROVE  StateWritten(m, s)
<1>. DEFINE row == [migration[m] EXCEPT !.state = s]
<1>0. migration[m] \in MigrationRow BY DEF TypeOK, MigrationRow
<1>1. /\ row \in MigrationRow /\ row.state = s /\ row.source = migration[m].source
      /\ row.destination = migration[m].destination
  BY <1>0 DEF MigrationRow
<1>2. migration' = [migration EXCEPT ![m] = row] BY DEF SetState, TypeOK
<1>. HIDE DEF row
<1>3. migration' \in [Migration -> MigrationRow] BY <1>1, <1>2 DEF TypeOK, MigrationRow
<1>4. migration'[m] = row /\ \A x \in Migration \ {m} : migration'[x] = migration[x]
  BY <1>2 DEF TypeOK
<1>. QED BY <1>1, <1>3, <1>4 DEF StateWritten

\* One item gets another state and another lease.
ItemWritten(m, o, s, l) ==
  /\ item' \in [Migration -> [Object -> ItemRow]]
  /\ item'[m][o].state = s /\ item'[m][o].lease = l /\ item'[m][o].attempts = item[m][o].attempts
  /\ \A x \in Migration, y \in Object : x # m \/ y # o => item'[x][y] = item[x][y]

LEMMA ItemSet ==
  ASSUME TypeOK, NEW m \in Migration, NEW o \in Object, NEW s \in ItemState,
         NEW l \in {None, "held", "expired"},
         item' = [item EXCEPT ![m][o].state = s, ![m][o].lease = l]
  PROVE  ItemWritten(m, o, s, l)
<1>. DEFINE row == [item[m][o] EXCEPT !.state = s, !.lease = l]
            rows == [item[m] EXCEPT ![o] = row]
<1>0. item[m][o] \in ItemRow BY DEF TypeOK, ItemRow
<1>1. /\ row \in ItemRow /\ row.state = s /\ row.lease = l /\ row.attempts = item[m][o].attempts
  BY <1>0 DEF ItemRow
<1>2. item' = [item EXCEPT ![m] = rows] BY DEF TypeOK
<1>. HIDE DEF row
<1>3. /\ rows \in [Object -> ItemRow] /\ rows[o] = row
      /\ \A y \in Object \ {o} : rows[y] = item[m][y]
  BY <1>1 DEF TypeOK, ItemRow
<1>. HIDE DEF rows
<1>4. item' \in [Migration -> [Object -> ItemRow]] BY <1>2, <1>3 DEF TypeOK, ItemRow
<1>5. item'[m] = rows /\ \A x \in Migration \ {m} : item'[x] = item[x] BY <1>2 DEF TypeOK
<1>. QED BY <1>1, <1>3, <1>4, <1>5 DEF ItemWritten

LEMMA ItemSetLease ==
  ASSUME TypeOK, NEW m \in Migration, NEW o \in Object,
         item' = [item EXCEPT ![m][o].lease = "expired"]
  PROVE  ItemWritten(m, o, item[m][o].state, "expired")
<1>1. item[m][o] \in ItemRow BY DEF TypeOK, ItemRow
<1>2. item[m][o].state \in ItemState BY <1>1 DEF ItemRow
<1>3. item' = [item EXCEPT ![m][o].state = item[m][o].state, ![m][o].lease = "expired"]
  BY <1>1 DEF TypeOK, ItemRow
<1>. QED BY <1>2, <1>3, ItemSet

\* A dispatcher's and a copier's claim is released.
LEMMA ReleaseWrites ==
  ASSUME TypeOK, NEW m \in Migration, NEW o \in Object, NEW retry \in BOOLEAN, Release(m, o, retry)
  PROVE  /\ ItemWritten(m, o, IF retry THEN "pending" ELSE "failed", None)
         /\ \/ migration' = migration /\ (retry \/ ~Running(m))
            \/ StateWritten(m, "failed") /\ Running(m)
<1>1. ItemWritten(m, o, IF retry THEN "pending" ELSE "failed", None)
  BY ItemSet DEF Release, ItemState
<1>2. CASE retry \/ ~Running(m) BY <1>1, <1>2 DEF Release
<1>3. CASE ~retry /\ Running(m)
  <2>1. SetState(m, "failed") BY <1>3 DEF Release
  <2>. QED BY <1>1, <1>3, <2>1, SetStateWrites DEF State
<1>. QED BY <1>2, <1>3

\* Everyone else's row stays.
LEMMA CopierSet ==
  ASSUME TypeOK, NEW c \in Copier, NEW k \in CopierRow, copier' = [copier EXCEPT ![c] = k]
  PROVE  /\ copier' \in [Copier -> CopierRow] /\ copier'[c] = k
         /\ \A b \in Copier \ {c} : copier'[b] = copier[b]
BY DEF TypeOK, CopierRow

LEMMA IdleRows ==
  /\ IdleCopier \in CopierRow /\ IdleCopier.pc = "idle"
  /\ IdleDispatcher \in DispatcherRow /\ IdleDispatcher.pc = "idle"
  /\ IdleOperator \in OperatorRow /\ IdleOperator.pc = "idle"
BY DEF IdleCopier, CopierRow, CopierPC, IdleDispatcher, DispatcherRow, IdleOperator, OperatorRow

LEMMA CopierRowAt ==
  ASSUME NEW x \in CopierRow, NEW pc \in CopierPC
  PROVE  LET k == [x EXCEPT !.pc = pc]
         IN  /\ k \in CopierRow /\ k.pc = pc
             /\ k.m = x.m /\ k.o = x.o /\ k.n = x.n /\ k.skip = x.skip /\ k.last = x.last
BY DEF CopierRow

\* Going on to another step of the task, with row k.
GoesOnAs(c, pc, k) == /\ copier' = [copier EXCEPT ![c] = k]
                      /\ k.pc = pc /\ Same(k, copier[c])
                      /\ k.n = copier[c].n /\ k.skip = copier[c].skip /\ k.last = copier[c].last

LEMMA CopierAt ==
  ASSUME TypeOK, NEW c \in Copier, NEW pc \in CopierPC, Goto(c, pc)
  PROVE  \E k \in CopierRow : GoesOnAs(c, pc, k)
<1>. DEFINE k == [copier[c] EXCEPT !.pc = pc]
<1>1. /\ k \in CopierRow /\ k.pc = pc /\ Same(k, copier[c])
      /\ k.n = copier[c].n /\ k.skip = copier[c].skip /\ k.last = copier[c].last
  <2>1. copier[c] \in CopierRow BY DEF TypeOK, CopierRow
  <2>. QED BY <2>1, CopierRowAt DEF Same
<1>2. copier' = [copier EXCEPT ![c] = k] BY DEF Goto, TypeOK
<1>. HIDE DEF k
<1>. QED BY <1>1, <1>2 DEF GoesOnAs

\* One step of a task, up to the commit: the copier's row changes, and Put stores the object.
Move(c, k) ==
  LET x == copier[c]
      p == migration[x.m].destination
      s == migration[x.m].source IN
  /\ k \in CopierRow /\ copier' = [copier EXCEPT ![c] = k]
  /\ Busy(x) /\ Busy(k) /\ Same(k, x)
  /\ UNCHANGED <<migration, item, placed, queue, dispatcher, operator, budget>>
  /\ \/ /\ k.pc \in {"check", "stale", "transient", "fatal"}
        /\ x.pc \in {"load", "check", "copy", "put"} /\ k.skip = x.skip /\ stored' = stored
     \/ x.pc = "check" /\ k.pc = "finish" /\ k.skip /\ p \in placed[x.o] /\ stored' = stored
     \/ k.pc = "copy" /\ x.pc = "check" /\ k.skip = x.skip /\ p \notin placed[x.o] /\ stored' = stored
     \/ /\ x.pc = "copy" /\ k.pc = "put" /\ k.skip = x.skip /\ stored' = stored
        /\ x.o \in Digested => stored[s][x.o] = "good"
     \/ /\ x.pc = "put" /\ k.pc \in {"finish", "transient", "fatal"} /\ k.skip = x.skip
        /\ stored' = [stored EXCEPT ![p][x.o] = stored[s][x.o]]
     \/ /\ x.pc = "finish" /\ k.pc = "commit" /\ k.skip = x.skip /\ stored' = stored
        /\ k.last = (Running(x.m) /\ \A o \in Object \ {x.o} : ~Left(x.m, o))

LEMMA GotoMoves ==
  ASSUME TypeInv, NEW c \in Copier, NEW pc \in CopierPC, Goto(c, pc),
         UNCHANGED <<migration, item, placed, queue, dispatcher, operator, budget>>,
         LET x == copier[c]
             p == migration[x.m].destination
             s == migration[x.m].source IN
         \/ /\ pc \in {"stale", "transient", "fatal"} /\ x.pc \in {"load", "check", "copy", "put"}
            /\ stored' = stored
         \/ pc = "copy" /\ x.pc = "check" /\ p \notin placed[x.o] /\ stored' = stored
         \/ x.pc = "copy" /\ pc = "put" /\ stored' = stored /\ (x.o \in Digested => stored[s][x.o] = "good")
         \/ /\ x.pc = "put" /\ pc \in {"finish", "transient", "fatal"}
            /\ stored' = [stored EXCEPT ![p][x.o] = stored[s][x.o]]
  PROVE  \E k \in CopierRow : Move(c, k)
<1>0. TypeOK BY DEF TypeInv
<1>1. PICK k \in CopierRow : GoesOnAs(c, pc, k) BY <1>0, CopierAt
<1>2. /\ copier' = [copier EXCEPT ![c] = k]
      /\ k.pc = pc /\ Same(k, copier[c]) /\ k.skip = copier[c].skip
  BY <1>1 DEF GoesOnAs
<1>3. Busy(copier[c]) /\ Busy(k) BY <1>2 DEF Busy
<1>. QED BY <1>2, <1>3 DEF Move

LEMMA Moves ==
  ASSUME TypeInv, NEW c \in Copier, Load(c) \/ Check(c) \/ Copy(c) \/ Put(c) \/ Finish(c)
  PROVE  \E k \in CopierRow : Move(c, k)
<1>. USE DEF TypeInv
<1>. DEFINE x == copier[c]
<1>0. x \in CopierRow /\ {"load", "stale", "check", "copy", "put", "finish", "transient", "fatal"} \subseteq CopierPC
  BY DEF TypeOK, CopierRow, CopierPC
<1>1. CASE Load(c) /\ Goto(c, "stale") BY <1>0, <1>1, GotoMoves DEF Load, At
<1>2. CASE Load(c) /\ copier' = [copier EXCEPT ![c].pc = "check", ![c].n = item[x.m][x.o].attempts]
  <2>. DEFINE k == [x EXCEPT !.pc = "check", !.n = item[x.m][x.o].attempts]
  <2>1. x.m \in Migration /\ x.o \in Object
    BY <1>2 DEF Load, At, References, Known
  <2>2. item[x.m][x.o].attempts \in Nat BY <2>1 DEF TypeOK
  <2>3. /\ k \in CopierRow /\ k.pc = "check" /\ Same(k, x) /\ k.skip = x.skip
    BY <1>0, <2>2 DEF CopierRow, Same, CopierPC
  <2>4. copier' = [copier EXCEPT ![c] = k] BY <1>2 DEF TypeOK
  <2>. HIDE DEF k
  <2>. QED BY <1>2, <2>3, <2>4 DEF Load, At, Move, Busy
<1>3. CASE /\ Check(c) /\ migration[x.m].destination \in placed[x.o]
           /\ copier' = [copier EXCEPT ![c].pc = "finish", ![c].skip = TRUE]
  <2>. DEFINE k == [x EXCEPT !.pc = "finish", !.skip = TRUE]
  <2>1. /\ k \in CopierRow /\ k.pc = "finish" /\ Same(k, x) /\ k.skip
    BY <1>0 DEF CopierRow, Same, CopierPC
  <2>2. copier' = [copier EXCEPT ![c] = k] BY <1>3 DEF TypeOK
  <2>. HIDE DEF k
  <2>. QED BY <1>3, <2>1, <2>2 DEF Check, At, Move, Busy
<1>4. CASE /\ Check(c) /\ migration[x.m].destination \notin placed[x.o] /\ Goto(c, "copy")
  BY <1>0, <1>4, GotoMoves DEF Check, At
<1>5. CASE Check(c) /\ Goto(c, "transient") BY <1>0, <1>5, GotoMoves DEF Check, At
<1>6. CASE Copy(c) BY <1>0, <1>6, GotoMoves DEF Copy, At
<1>7. CASE Put(c) BY <1>0, <1>7, GotoMoves DEF Put, At
<1>8. CASE Finish(c)
  <2>. DEFINE last == Running(x.m) /\ \A o \in Object \ {x.o} : ~Left(x.m, o)
              k == [x EXCEPT !.pc = "commit", !.last = last]
  <2>1. last \in BOOLEAN OBVIOUS
  <2>2. copier' = [copier EXCEPT ![c].pc = "commit", ![c].last = last] BY <1>8 DEF Finish
  <2>3. /\ x.pc = "finish" /\ UNCHANGED <<migration, item, placed, stored, queue, dispatcher, operator, budget>>
    BY <1>8 DEF Finish, At
  <2>. HIDE DEF last
  <2>4. /\ k \in CopierRow /\ k.pc = "commit" /\ Same(k, x) /\ k.skip = x.skip
    BY <1>0, <2>1 DEF CopierRow, Same, CopierPC
  <2>5. k.last = last BY <1>0 DEF CopierRow
  <2>6. copier' = [copier EXCEPT ![c] = k] BY <2>2 DEF TypeOK
  <2>. HIDE DEF k
  <2>. QED BY <2>3, <2>4, <2>5, <2>6 DEF Move, Busy, last
<1>. QED BY <1>1, <1>2, <1>3, <1>4, <1>5, <1>6, <1>7, <1>8 DEF Load, Check

\* Expired items go back to pending; the rest stays.
LEMMA ResetRows ==
  ASSUME TypeOK, NEW m \in Migration, NEW o \in Object
  PROVE  /\ Reset[m][o] \in ItemRow /\ Reset[m][o].attempts = item[m][o].attempts
         /\ ~Expired(m, o) => Reset[m][o] = item[m][o]
         /\ Expired(m, o) => Reset[m][o].state = "pending" /\ Reset[m][o].lease = None
         /\ (Reset[m][o].state = "running") <=> (Reset[m][o].lease # None)
<1>1. item[m][o] \in ItemRow BY DEF TypeOK, ItemRow
<1>. DEFINE row == [item[m][o] EXCEPT !.state = "pending", !.lease = None]
<1>2. /\ row \in ItemRow /\ row.state = "pending" /\ row.lease = None
      /\ row.attempts = item[m][o].attempts
  BY <1>1 DEF ItemRow, ItemState
<1>3. Reset[m][o] = IF Expired(m, o) THEN row ELSE item[m][o] BY DEF Reset
<1>. HIDE DEF row
<1>4. (item[m][o].state = "running") <=> (item[m][o].lease # None) BY DEF TypeOK
<1>. QED BY <1>1, <1>2, <1>3, <1>4

\* A claim: a pending item, or an expired one, gets a fresh lease and an attempt number.
Claimed(d, m, o) ==
  /\ dispatcher[d] = IdleDispatcher /\ Running(m) /\ Reset[m][o].state = "pending"
  /\ BelowLimit(migration[m].destination)
  /\ item'[m][o].state = "running" /\ item'[m][o].lease = "held"
  /\ item'[m][o].attempts = item[m][o].attempts + 1
  /\ \A x \in Migration, y \in Object : x # m \/ y # o => item'[x][y] = Reset[x][y]
  /\ \E k \in DispatcherRow : /\ dispatcher' = [dispatcher EXCEPT ![d] = k]
                              /\ k.pc = "enqueue" /\ k.m = m /\ k.o = o

LEMMA ClaimWrites ==
  ASSUME TypeOK, NEW d \in Dispatcher, ClaimMigrationWork(d)
  PROVE  /\ item' \in [Migration -> [Object -> ItemRow]]
         /\ \/ item' = Reset /\ dispatcher' = dispatcher
            \/ \E m \in Migration, o \in Object : Claimed(d, m, o)
<1>1. Reset \in [Migration -> [Object -> ItemRow]]
  <2>1. Reset = [m \in Migration |-> [o \in Object |-> Reset[m][o]]] BY DEF Reset
  <2>. QED BY <2>1, ResetRows
<1>2. CASE item' = Reset /\ dispatcher' = dispatcher BY <1>1, <1>2
<1>3. CASE ~(item' = Reset /\ dispatcher' = dispatcher)
  <2>1. PICK m \in Migration, o \in Object :
          /\ Running(m) /\ Reset[m][o].state = "pending"
          /\ BelowLimit(migration[m].destination)
          /\ item' = [Reset EXCEPT ![m][o] = [state |-> "running", lease |-> "held",
                                              attempts |-> @.attempts + 1]]
          /\ dispatcher' = [dispatcher EXCEPT ![d] =
               [pc |-> "enqueue", m |-> m, o |-> o, n |-> item[m][o].attempts + 1]]
    BY <1>3 DEF ClaimMigrationWork
  <2>. DEFINE row == [state |-> "running", lease |-> "held", attempts |-> Reset[m][o].attempts + 1]
              k == [pc |-> "enqueue", m |-> m, o |-> o, n |-> item[m][o].attempts + 1]
  <2>2. Reset[m][o].attempts = item[m][o].attempts /\ item[m][o].attempts \in Nat
    BY ResetRows DEF TypeOK
  <2>3. row \in ItemRow /\ row.state = "running" /\ row.lease = "held"
        /\ row.attempts = item[m][o].attempts + 1
    BY <2>2 DEF ItemRow, ItemState
  <2>4. k \in DispatcherRow /\ k.pc = "enqueue" /\ k.m = m /\ k.o = o
    BY <2>2 DEF DispatcherRow
  <2>5. item' = [Reset EXCEPT ![m][o] = row] BY <2>1
  <2>6. dispatcher' = [dispatcher EXCEPT ![d] = k] BY <2>1
  <2>. HIDE DEF row, k
  <2>7. item' \in [Migration -> [Object -> ItemRow]] BY <1>1, <2>3, <2>5
  <2>8. item'[m][o] = row BY <1>1, <2>5
  <2>9. \A x \in Migration, y \in Object : x # m \/ y # o => item'[x][y] = Reset[x][y]
    BY <1>1, <2>5
  <2>10. dispatcher[d] = IdleDispatcher BY DEF ClaimMigrationWork
  <2>11. Claimed(d, m, o) BY <2>1, <2>3, <2>4, <2>6, <2>8, <2>9, <2>10 DEF Claimed
  <2>. QED BY <2>7, <2>11
<1>. QED BY <1>2, <1>3

\* Failed items of one migration go back to pending.
LEMMA ResumeItemsWrites ==
  ASSUME TypeOK, NEW a \in Operator, operator[a].m \in Migration, ResumeItems(a)
  PROVE  /\ item' \in [Migration -> [Object -> ItemRow]]
         /\ \A m \in Migration, o \in Object :
              /\ item'[m][o].attempts = item[m][o].attempts
              /\ \/ item'[m][o] = item[m][o] /\ (m = operator[a].m => item[m][o].state # "failed")
                 \/ /\ item[m][o].state = "failed" /\ m = operator[a].m
                    /\ item'[m][o].state = "pending" /\ item'[m][o].lease = None
<1>. DEFINE z == operator[a].m
            row(o) == [item[z][o] EXCEPT !.state = "pending", !.lease = None]
            rows == [o \in Object |-> IF item[z][o].state = "failed" THEN row(o) ELSE item[z][o]]
<1>1. item' = [item EXCEPT ![z] = rows] BY DEF ResumeItems
<1>2. ASSUME NEW o \in Object
      PROVE  /\ row(o) \in ItemRow /\ row(o).state = "pending" /\ row(o).lease = None
             /\ row(o).attempts = item[z][o].attempts /\ item[z][o] \in ItemRow
  <2>1. item[z][o] \in ItemRow BY DEF TypeOK, ItemRow
  <2>. QED BY <2>1 DEF ItemRow, ItemState
<1>. HIDE DEF row
<1>3. rows \in [Object -> ItemRow] BY <1>2
<1>4. \A o \in Object : rows[o] = IF item[z][o].state = "failed" THEN row(o) ELSE item[z][o] OBVIOUS
<1>. HIDE DEF rows
<1>5. item' \in [Migration -> [Object -> ItemRow]] BY <1>1, <1>3 DEF TypeOK, ItemRow
<1>6. item'[z] = rows /\ \A m \in Migration \ {z} : item'[m] = item[m] BY <1>1 DEF TypeOK
<1>. QED BY <1>2, <1>4, <1>5, <1>6

\* The commit of CompleteMigrationWork.
Committed(c, m, o) ==
  /\ copier[c].pc = "commit" /\ copier[c].m = m /\ copier[c].o = o
  /\ copier' = [copier EXCEPT ![c] = IdleCopier]
  /\ placed' = IF copier[c].skip THEN placed
               ELSE [placed EXCEPT ![o] = @ \cup {migration[m].destination}]
  /\ \E s \in Done : ItemWritten(m, o, s, None)
  /\ IF copier[c].last THEN StateWritten(m, "completed") ELSE migration' = migration
  /\ UNCHANGED <<stored, queue, dispatcher, operator, budget>>

LEMMA CommitWrites ==
  ASSUME TypeInv, NEW c \in Copier, Commit(c)
  PROVE  \E m \in Migration, o \in Object : Known(copier[c]) /\ Committed(c, m, o)
<1>. DEFINE m == copier[c].m
            o == copier[c].o
            s == IF copier[c].skip THEN "skipped" ELSE "completed"
<1>1. Known(copier[c]) /\ m \in Migration /\ o \in Object
  BY DEF Commit, At, TypeInv, References, Known
<1>2. item' = [item EXCEPT ![m][o].state = s, ![m][o].lease = None] BY DEF Commit
<1>3. s \in Done /\ s \in ItemState BY DEF Done, ItemState
<1>4. ItemWritten(m, o, s, None) BY <1>1, <1>2, <1>3, ItemSet DEF TypeInv
<1>5. IF copier[c].last THEN StateWritten(m, "completed") ELSE migration' = migration
  BY <1>1, SetStateWrites DEF Commit, TypeInv, State
<1>. HIDE DEF s
<1>6. Committed(c, m, o) BY <1>3, <1>4, <1>5 DEF Committed, Commit, At
<1>. QED BY <1>1, <1>6

LEMMA SpendWrites ==
  ASSUME TypeOK, NEW kind \in FaultKind, Spend(kind)
  PROVE  /\ budget' \in [Bounds -> Nat] /\ \A k \in Bounds : budget'[k] <= budget[k]
         /\ budget'[kind] < budget[kind]
<1>1. kind \in Bounds /\ "any" \in Bounds /\ kind # "any" BY DEF Bounds, FaultKind
<1>2. budget \in [Bounds -> Nat] BY DEF TypeOK
<1>3. budget' = [budget EXCEPT ![kind] = @ - 1, !["any"] = @ - 1] /\ budget[kind] > 0 /\ budget["any"] > 0
  BY DEF Spend
<1>4. budget[kind] - 1 \in Nat /\ budget["any"] - 1 \in Nat BY <1>1, <1>2, <1>3
<1>5. \A k \in Bounds : budget'[k] = IF k \in {kind, "any"} THEN budget[k] - 1 ELSE budget[k]
  BY <1>1, <1>2, <1>3
<1>6. budget' \in [Bounds -> Nat] BY <1>2, <1>3, <1>4
<1>. QED BY <1>1, <1>2, <1>5, <1>6

LEMMA SpendOneWrites ==
  ASSUME TypeOK, NEW kind \in Bounds, SpendOne(kind)
  PROVE  budget' \in [Bounds -> Nat] /\ \A k \in Bounds : budget'[k] <= budget[k]
<1>1. budget' = [budget EXCEPT ![kind] = @ - 1] /\ budget[kind] > 0 /\ budget \in [Bounds -> Nat]
  BY DEF SpendOne, TypeOK
<1>2. \A k \in Bounds : budget'[k] = IF k = kind THEN budget[k] - 1 ELSE budget[k] BY <1>1
<1>. QED BY <1>1, <1>2

-----------------------------------------------------------------------------
(* Types and references.                                                   *)

\* Migrations and items keep what they refer to, and placements are never taken back.
Kept ==
  /\ \A m \in Migration : /\ migration'[m].source = migration[m].source
                          /\ migration'[m].destination = migration[m].destination
                          /\ (migration'[m].state = "none") <=> (migration[m].state = "none")
  /\ \A m \in Migration, o \in Object : (item'[m][o].state = "none") <=> (item[m][o].state = "none")
  /\ \A o \in Object : placed[o] \subseteq placed'[o]

\* Everyone goes on as before, is free, or names an item that is there.
Workers ==
  /\ \A d \in Dispatcher : \/ dispatcher'[d] \in {dispatcher[d], IdleDispatcher}
                           \/ Busy(dispatcher'[d]) /\ Known(dispatcher'[d])
  /\ \A t \in queue' : t \in queue \/ Known(t)
  /\ \A c \in Copier : \/ copier'[c] \in {copier[c], IdleCopier}
                       \/ Busy(copier'[c]) /\ Known(copier'[c])
  /\ \A a \in Operator : \/ operator'[a] \in {operator[a], IdleOperator}
                         \/ /\ Busy(operator'[a]) /\ operator'[a].m \in Migration
                            /\ migration[operator'[a].m].state # "none"

LEMMA ReferencesKept == ASSUME References, Kept, Workers PROVE References'
<1>1. ASSUME NEW x, Known(x) PROVE x.m \in Migration /\ x.o \in Object /\ item'[x.m][x.o].state # "none"
  BY <1>1 DEF Known, Kept
<1>2. \A d \in Dispatcher : (IF dispatcher[d].pc = "idle" THEN dispatcher[d] = IdleDispatcher
                                                        ELSE Known(dispatcher[d]))'
  BY <1>1, IdleRows DEF References, Workers, Busy, Known
<1>3. \A t \in queue' : Known(t)' BY <1>1 DEF References, Workers, Known
<1>4. \A c \in Copier : (IF copier[c].pc = "idle" THEN copier[c] = IdleCopier ELSE Known(copier[c]))'
  BY <1>1, IdleRows DEF References, Workers, Busy, Known
<1>5. \A a \in Operator : (IF operator[a].pc = "idle" THEN operator[a] = IdleOperator
                         ELSE operator[a].m \in Migration /\ migration[operator[a].m].state # "none")'
  BY IdleRows DEF References, Workers, Busy, Kept
<1>6. \A m \in Migration : (migration[m].state # "none" =>
       {migration[m].source, migration[m].destination} \subseteq Profile)'
  BY DEF References, Kept
<1>7. \A m \in Migration, o \in Object : (item[m][o].state # "none" =>
       migration[m].state # "none" /\ migration[m].source \in placed[o])'
  BY DEF References, Kept
<1>. QED BY <1>2, <1>3, <1>4, <1>5, <1>6, <1>7 DEF References

StepOk == (overlooked' \in SUBSET Migration => TypeOK') /\ Kept /\ Workers

\* Migrations, items and objects after a step.
RowsOk ==
  /\ migration' \in [Migration -> MigrationRow]
  /\ item' \in [Migration -> [Object -> ItemRow]]
  /\ \A m \in Migration, o \in Object :
       (item'[m][o].state = "running") <=> (item'[m][o].lease # None)
  /\ Kept

LEMMA RowsSame == ASSUME TypeOK, UNCHANGED <<migration, item, placed>> PROVE RowsOk
BY DEF RowsOk, Kept, TypeOK, MigrationRow, ItemRow

LEMMA ItemRowsOk ==
  ASSUME TypeOK, NEW m \in Migration, NEW o \in Object, NEW s \in ItemState \ {"none"},
         NEW l \in {None, "held", "expired"}, ItemWritten(m, o, s, l), item[m][o].state # "none",
         (s = "running") <=> (l # None)
  PROVE  /\ item' \in [Migration -> [Object -> ItemRow]]
         /\ \A x \in Migration, y \in Object :
              /\ (item'[x][y].state = "running") <=> (item'[x][y].lease # None)
              /\ (item'[x][y].state = "none") <=> (item[x][y].state = "none")
<1>1. ASSUME NEW x \in Migration, NEW y \in Object
      PROVE  /\ (item'[x][y].state = "running") <=> (item'[x][y].lease # None)
             /\ (item'[x][y].state = "none") <=> (item[x][y].state = "none")
  <2>1. CASE x = m /\ y = o BY <2>1 DEF ItemWritten
  <2>2. CASE x # m \/ y # o BY <2>2 DEF ItemWritten, TypeOK
  <2>. QED BY <2>1, <2>2
<1>. QED BY <1>1 DEF ItemWritten

LEMMA StateRowsOk ==
  ASSUME TypeOK, NEW m \in Migration, NEW s \in State \ {"none"}, StateWritten(m, s),
         migration[m].state # "none"
  PROVE  /\ migration' \in [Migration -> MigrationRow]
         /\ \A x \in Migration :
              /\ migration'[x].source = migration[x].source
              /\ migration'[x].destination = migration[x].destination
              /\ (migration'[x].state = "none") <=> (migration[x].state = "none")
BY DEF StateWritten

LEMMA StepTypes ==
  ASSUME RowsOk, placed' \in [Object -> SUBSET Profile], stored' \in [Profile -> [Object -> Bytes]],
         queue' \in SUBSET Tasks, dispatcher' \in [Dispatcher -> DispatcherRow],
         copier' \in [Copier -> CopierRow], operator' \in [Operator -> OperatorRow],
         budget' \in [Bounds -> Nat], Workers
  PROVE  StepOk
BY DEF StepOk, TypeOK, RowsOk, MigrationRow, ItemRow, DispatcherRow, CopierRow, OperatorRow

\* A step that leaves the work alone.
LEMMA WorkersSame ==
  UNCHANGED <<queue, dispatcher, copier, operator>> => Workers
BY DEF Workers

LEMMA TypesNow ==
  ASSUME TypeOK
  PROVE  /\ migration \in [Migration -> MigrationRow] /\ item \in [Migration -> [Object -> ItemRow]]
         /\ placed \in [Object -> SUBSET Profile] /\ stored \in [Profile -> [Object -> Bytes]]
         /\ queue \in SUBSET Tasks /\ dispatcher \in [Dispatcher -> DispatcherRow]
         /\ copier \in [Copier -> CopierRow] /\ operator \in [Operator -> OperatorRow]
         /\ budget \in [Bounds -> Nat]
BY DEF TypeOK, MigrationRow, ItemRow, DispatcherRow, CopierRow, OperatorRow

-----------------------------------------------------------------------------

LEMMA ResumeOk ==
  ASSUME TypeInv, NEW a \in Operator, NEW m \in Migration, ResumeMigration(a, m) PROVE StepOk
<1>1. /\ SpendOne("resume") /\ SetState(m, "running") /\ migration[m].state # "none"
      /\ operator' = [operator EXCEPT ![a] = [pc |-> "items", m |-> m]]
      /\ UNCHANGED <<item, placed, stored, queue, dispatcher, copier>>
  BY DEF ResumeMigration
<1>2. budget' \in [Bounds -> Nat] BY <1>1, SpendOneWrites DEF TypeInv, Bounds
<1>3. StateWritten(m, "running") BY <1>1, SetStateWrites DEF TypeInv, State
<1>4. RowsOk BY <1>1, <1>3, StateRowsOk DEF TypeInv, TypeOK, RowsOk, Kept, State, ItemRow
<1>5. operator' \in [Operator -> OperatorRow] BY <1>1 DEF TypeInv, TypeOK, OperatorRow
<1>6. Workers BY <1>1 DEF Workers, Busy, TypeInv, TypeOK
<1>. QED BY <1>1, <1>2, <1>4, <1>5, <1>6, TypesNow, StepTypes DEF TypeInv

\* The migration a request is about.
LEMMA OperatorNow ==
  ASSUME TypeInv, NEW a \in Operator, Busy(operator[a])
  PROVE  operator[a].m \in Migration /\ migration[operator[a].m].state # "none"
BY DEF TypeInv, References, Busy

\* A request goes on, or is over.
LEMMA OperatorSet ==
  ASSUME TypeInv, NEW a \in Operator, UNCHANGED <<queue, dispatcher, copier>>,
         \/ operator' = [operator EXCEPT ![a] = IdleOperator]
         \/ Busy(operator[a]) /\ operator' = [operator EXCEPT ![a].pc = "settle"]
  PROVE  operator' \in [Operator -> OperatorRow] /\ Workers
<1>0. operator[a] \in OperatorRow /\ operator \in [Operator -> OperatorRow]
  BY TypesNow DEF TypeInv
<1>1. CASE operator' = [operator EXCEPT ![a] = IdleOperator]
  BY <1>0, <1>1, IdleRows DEF Workers
<1>2. CASE Busy(operator[a]) /\ operator' = [operator EXCEPT ![a].pc = "settle"]
  <2>. DEFINE k == [operator[a] EXCEPT !.pc = "settle"]
  <2>1. k \in OperatorRow /\ k.pc = "settle" /\ k.m = operator[a].m BY <1>0 DEF OperatorRow
  <2>2. operator' = [operator EXCEPT ![a] = k] BY <1>2, <1>0
  <2>. HIDE DEF k
  <2>. QED BY <1>0, <1>2, <2>1, <2>2, OperatorNow DEF Workers, Busy
<1>. QED BY <1>1, <1>2

LEMMA ResumeItemsOk == ASSUME TypeInv, NEW a \in Operator, ResumeItems(a) PROVE StepOk
<1>1. /\ Busy(operator[a]) /\ operator' = [operator EXCEPT ![a].pc = "settle"]
      /\ UNCHANGED <<migration, placed, stored, queue, dispatcher, copier, budget>>
  BY DEF ResumeItems, Busy
<1>2. operator' \in [Operator -> OperatorRow] /\ Workers BY <1>1, OperatorSet
<1>3. /\ item' \in [Migration -> [Object -> ItemRow]]
      /\ \A m \in Migration, o \in Object :
           \/ item'[m][o] = item[m][o]
           \/ item[m][o].state = "failed" /\ item'[m][o].state = "pending" /\ item'[m][o].lease = None
  BY <1>1, OperatorNow, ResumeItemsWrites DEF TypeInv
<1>4. \A m \in Migration, o \in Object :
        /\ (item'[m][o].state = "running") <=> (item'[m][o].lease # None)
        /\ (item'[m][o].state = "none") <=> (item[m][o].state = "none")
  BY <1>3 DEF TypeInv, TypeOK
<1>5. RowsOk BY <1>1, <1>3, <1>4 DEF RowsOk, Kept, TypeInv, TypeOK, MigrationRow
<1>. QED BY <1>1, <1>2, <1>5, TypesNow, StepTypes DEF TypeInv

LEMMA ResumeSettleOk == ASSUME TypeInv, NEW a \in Operator, ResumeSettle(a) PROVE StepOk
<1>1. /\ Busy(operator[a]) /\ operator' = [operator EXCEPT ![a] = IdleOperator]
      /\ UNCHANGED <<item, placed, stored, queue, dispatcher, copier, budget>>
  BY DEF ResumeSettle, Busy
<1>2. operator' \in [Operator -> OperatorRow] /\ Workers BY <1>1, OperatorSet
<1>3. CASE migration' = migration
  BY <1>1, <1>2, <1>3, RowsSame, TypesNow, StepTypes DEF TypeInv
<1>4. CASE SetState(operator[a].m, "completed")
  <2>1. StateWritten(operator[a].m, "completed")
    BY <1>1, <1>4, OperatorNow, SetStateWrites DEF TypeInv, State
  <2>2. RowsOk
    BY <1>1, <2>1, OperatorNow, StateRowsOk DEF TypeInv, TypeOK, RowsOk, Kept, State, ItemRow
  <2>. QED BY <1>1, <1>2, <2>2, TypesNow, StepTypes DEF TypeInv
<1>. QED BY <1>3, <1>4 DEF ResumeSettle

LEMMA AdministratorOk ==
  ASSUME TypeInv,
         \/ \E a \in Operator : ResumePartial(a)
         \/ \E m \in Migration : PauseMigration(m) \/ CancelMigration(m)
  PROVE  StepOk
<1>1. CASE \E a \in Operator : ResumePartial(a)
  <2>1. PICK a \in Operator : ResumePartial(a) BY <1>1
  <2>2. budget' \in [Bounds -> Nat] BY <2>1, SpendWrites DEF ResumePartial, TypeInv, FaultKind
  <2>3. operator' \in [Operator -> OperatorRow] /\ Workers BY <2>1, OperatorSet DEF ResumePartial
  <2>. QED BY <2>1, <2>2, <2>3, RowsSame, TypesNow, StepTypes DEF TypeInv, ResumePartial
<1>2. CASE \E m \in Migration : PauseMigration(m)
  <2>1. budget' \in [Bounds -> Nat] BY <1>2, SpendOneWrites DEF PauseMigration, TypeInv, Bounds
  <2>. QED BY <1>2, <2>1, RowsSame, TypesNow, StepTypes, WorkersSame DEF TypeInv, PauseMigration
<1>3. CASE \E m \in Migration : CancelMigration(m)
  <2>1. PICK m \in Migration : CancelMigration(m) BY <1>3
  <2>2. StateWritten(m, "canceled") BY <2>1, SetStateWrites DEF CancelMigration, TypeInv, State
  <2>3. RowsOk
    BY <2>1, <2>2, StateRowsOk DEF CancelMigration, TypeInv, TypeOK, RowsOk, Kept, State, ItemRow
  <2>. QED BY <2>1, <2>3, TypesNow, StepTypes, WorkersSame DEF TypeInv, CancelMigration
<1>. QED BY <1>1, <1>2, <1>3

LEMMA ClaimOk == ASSUME TypeInv, NEW d \in Dispatcher, ClaimMigrationWork(d) PROVE StepOk
<1>1. UNCHANGED <<migration, placed, stored, queue, copier, operator, budget>>
  BY DEF ClaimMigrationWork
<1>2. item' \in [Migration -> [Object -> ItemRow]] BY ClaimWrites DEF TypeInv
<1>3. \A m \in Migration, o \in Object :
        /\ Reset[m][o] \in ItemRow
        /\ (Reset[m][o].state = "running") <=> (Reset[m][o].lease # None)
        /\ (Reset[m][o].state = "none") <=> (item[m][o].state = "none")
  BY ResetRows DEF TypeInv, Expired
<1>4. CASE item' = Reset /\ dispatcher' = dispatcher
  <2>1. RowsOk BY <1>1, <1>2, <1>3, <1>4 DEF RowsOk, Kept, TypeInv, TypeOK, MigrationRow
  <2>. QED BY <1>1, <1>4, <2>1, WorkersSame, TypesNow, StepTypes DEF TypeInv
<1>5. ASSUME NEW m \in Migration, NEW o \in Object, Claimed(d, m, o) PROVE StepOk
  <2>1. item'[m][o].state = "running" /\ item'[m][o].lease = "held" /\ item[m][o].state # "none"
    BY <1>3, <1>5 DEF Claimed
  <2>2. "held" # None BY MigrationAssumption
  <2>3. \A x \in Migration, y \in Object :
          /\ (item'[x][y].state = "running") <=> (item'[x][y].lease # None)
          /\ (item'[x][y].state = "none") <=> (item[x][y].state = "none")
    BY <1>3, <1>5, <2>1, <2>2 DEF Claimed
  <2>4. RowsOk BY <1>1, <1>2, <2>3 DEF RowsOk, Kept, TypeInv, TypeOK, MigrationRow
  <2>5. PICK k \in DispatcherRow : /\ dispatcher' = [dispatcher EXCEPT ![d] = k]
                                   /\ k.pc = "enqueue" /\ k.m = m /\ k.o = o
    BY <1>5 DEF Claimed
  <2>6. dispatcher' \in [Dispatcher -> DispatcherRow] BY <2>5, TypesNow DEF TypeInv
  <2>7. Known(k) /\ Busy(k) BY <2>1, <2>5 DEF Known, Busy
  <2>8. \A x \in Dispatcher : dispatcher'[x] = dispatcher[x] \/ dispatcher'[x] = k
    BY <2>5, TypesNow DEF TypeInv
  <2>9. Workers BY <1>1, <2>7, <2>8 DEF Workers
  <2>. QED BY <1>1, <2>4, <2>6, <2>9, TypesNow, StepTypes DEF TypeInv
<1>. QED BY <1>4, <1>5, ClaimWrites DEF TypeInv

\* A dispatcher becomes free.
LEMMA DispatcherSet ==
  ASSUME TypeInv, NEW d \in Dispatcher, dispatcher' = [dispatcher EXCEPT ![d] = IdleDispatcher],
         UNCHANGED <<copier, operator>>, \A t \in queue' : t \in queue \/ Known(t)
  PROVE  dispatcher' \in [Dispatcher -> DispatcherRow] /\ Workers
<1>1. dispatcher \in [Dispatcher -> DispatcherRow] BY TypesNow DEF TypeInv
<1>. QED BY <1>1, IdleRows DEF Workers

LEMMA EnqueueOk == ASSUME TypeInv, NEW d \in Dispatcher, EnqueueMigration(d) PROVE StepOk
<1>. DEFINE x == dispatcher[d]
            t == [m |-> x.m, o |-> x.o, n |-> x.n]
<1>1. /\ x.pc = "enqueue" /\ UNCHANGED <<migration, item, placed, stored, copier, operator>>
      /\ queue' \in {queue, queue \cup {t}}
  BY DEF EnqueueMigration
<1>2. x \in DispatcherRow /\ Known(x) BY <1>1, TypesNow DEF TypeInv, References
<1>3. t \in Tasks /\ Known(t) BY <1>2 DEF Known, Tasks, DispatcherRow
<1>. HIDE DEF t
<1>4. queue' \in SUBSET Tasks /\ \A u \in queue' : u \in queue \/ Known(u)
  BY <1>1, <1>3, TypesNow DEF TypeInv
<1>5. CASE budget' = budget /\ dispatcher' = [dispatcher EXCEPT ![d] = IdleDispatcher]
  <2>1. dispatcher' \in [Dispatcher -> DispatcherRow] /\ Workers BY <1>1, <1>4, <1>5, DispatcherSet
  <2>. QED BY <1>1, <1>4, <1>5, <2>1, RowsSame, TypesNow, StepTypes DEF TypeInv
<1>6. CASE Spend("redis") /\ dispatcher' = [dispatcher EXCEPT ![d].pc = "release"]
  <2>1. budget' \in [Bounds -> Nat] BY <1>6, SpendWrites DEF TypeInv, FaultKind
  <2>. DEFINE k == [x EXCEPT !.pc = "release"]
  <2>2. k \in DispatcherRow /\ k.pc = "release" /\ k.m = x.m /\ k.o = x.o BY <1>2 DEF DispatcherRow
  <2>3. dispatcher' = [dispatcher EXCEPT ![d] = k] BY <1>6, TypesNow DEF TypeInv
  <2>. HIDE DEF k
  <2>4. /\ dispatcher' \in [Dispatcher -> DispatcherRow]
        /\ \A e \in Dispatcher : dispatcher'[e] = dispatcher[e] \/ dispatcher'[e] = k
    BY <2>2, <2>3, TypesNow DEF TypeInv
  <2>5. Known(k) /\ Busy(k) BY <1>2, <2>2 DEF Known, Busy
  <2>6. Workers BY <1>1, <1>4, <2>4, <2>5 DEF Workers
  <2>. QED BY <1>1, <1>4, <2>1, <2>4, <2>6, RowsSame, TypesNow, StepTypes DEF TypeInv
<1>. QED BY <1>5, <1>6 DEF EnqueueMigration

\* A claim is given back, by whoever holds it.
LEMMA ReleaseRows ==
  ASSUME TypeInv, NEW x, Known(x), NEW retry \in BOOLEAN, Release(x.m, x.o, retry),
         UNCHANGED placed
  PROVE  RowsOk
<1>1. x.m \in Migration /\ x.o \in Object /\ item[x.m][x.o].state # "none" /\ migration[x.m].state # "none"
  BY DEF Known, TypeInv, References
<1>. DEFINE s == IF retry THEN "pending" ELSE "failed"
<1>2. s \in ItemState \ {"none", "running"} BY DEF ItemState
<1>3. ItemWritten(x.m, x.o, s, None) BY <1>1, ReleaseWrites DEF TypeInv
<1>. HIDE DEF s
<1>4. /\ item' \in [Migration -> [Object -> ItemRow]]
      /\ \A m \in Migration, o \in Object :
           /\ (item'[m][o].state = "running") <=> (item'[m][o].lease # None)
           /\ (item'[m][o].state = "none") <=> (item[m][o].state = "none")
  BY <1>1, <1>2, <1>3, ItemRowsOk DEF TypeInv
<1>5. migration' = migration \/ StateWritten(x.m, "failed") BY <1>1, ReleaseWrites DEF TypeInv
<1>6. /\ migration' \in [Migration -> MigrationRow]
      /\ \A m \in Migration :
           /\ migration'[m].source = migration[m].source
           /\ migration'[m].destination = migration[m].destination
           /\ (migration'[m].state = "none") <=> (migration[m].state = "none")
  <2>1. CASE migration' = migration BY <2>1, TypesNow DEF TypeInv
  <2>2. CASE StateWritten(x.m, "failed")
    <3>1. "failed" \in State \ {"none"} BY DEF State
    <3>. QED BY <1>1, <2>2, <3>1, StateRowsOk DEF TypeInv
  <2>. QED BY <1>5, <2>1, <2>2
<1>. QED BY <1>4, <1>6 DEF RowsOk, Kept

LEMMA DispatcherLeavesOk ==
  ASSUME TypeInv, NEW d \in Dispatcher, DispatcherRelease(d) \/ DispatcherDies(d) PROVE StepOk
<1>1. /\ dispatcher' = [dispatcher EXCEPT ![d] = IdleDispatcher]
      /\ UNCHANGED <<placed, stored, queue, copier, operator>>
  BY DEF DispatcherRelease, DispatcherDies
<1>2. dispatcher' \in [Dispatcher -> DispatcherRow] /\ Workers BY <1>1, DispatcherSet
<1>3. CASE DispatcherRelease(d)
  <2>1. Known(dispatcher[d]) /\ budget' = budget /\ Release(dispatcher[d].m, dispatcher[d].o, TRUE)
    BY <1>3 DEF DispatcherRelease, TypeInv, References
  <2>2. RowsOk BY <1>1, <2>1, ReleaseRows
  <2>. QED BY <1>1, <1>2, <2>1, <2>2, TypesNow, StepTypes DEF TypeInv
<1>4. CASE DispatcherDies(d)
  <2>1. budget' \in [Bounds -> Nat] BY <1>4, SpendWrites DEF DispatcherDies, TypeInv, FaultKind
  <2>. QED BY <1>1, <1>2, <1>4, <2>1, RowsSame, TypesNow, StepTypes DEF TypeInv, DispatcherDies
<1>. QED BY <1>3, <1>4

\* One copier gets a task, goes on, or becomes free.
LEMMA CopierWorkers ==
  ASSUME TypeInv, NEW c \in Copier, NEW k \in CopierRow, copier' = [copier EXCEPT ![c] = k],
         k = IdleCopier \/ (Busy(k) /\ Known(k)),
         UNCHANGED <<dispatcher, operator>>, \A t \in queue' : t \in queue \/ Known(t)
  PROVE  copier' \in [Copier -> CopierRow] /\ Workers
<1>1. /\ copier' \in [Copier -> CopierRow]
      /\ \A b \in Copier : copier'[b] = copier[b] \/ copier'[b] = k
  BY CopierSet DEF TypeInv
<1>. QED BY <1>1 DEF Workers

LEMMA StartOk == ASSUME TypeInv, NEW c \in Copier, Start(c) PROVE StepOk
<1>1. PICK t \in queue : /\ queue' = queue \ {t}
                         /\ copier' = [copier EXCEPT ![c] = [IdleCopier EXCEPT !.pc = "load", !.m = t.m,
                                                              !.o = t.o, !.n = t.n]]
  BY DEF Start
<1>2. t \in Tasks /\ Known(t) BY TypesNow DEF TypeInv, References
<1>. DEFINE k == [IdleCopier EXCEPT !.pc = "load", !.m = t.m, !.o = t.o, !.n = t.n]
<1>3. k \in CopierRow /\ k.pc = "load" /\ k.m = t.m /\ k.o = t.o
  BY <1>2 DEF IdleCopier, CopierRow, CopierPC, Tasks
<1>4. copier' = [copier EXCEPT ![c] = k] BY <1>1
<1>. HIDE DEF k
<1>5. Busy(k) /\ Known(k) BY <1>2, <1>3 DEF Busy, Known
<1>6. UNCHANGED <<migration, item, placed, stored, dispatcher, operator, budget>> BY DEF Start
<1>7. copier' \in [Copier -> CopierRow] /\ Workers BY <1>1, <1>3, <1>4, <1>5, <1>6, CopierWorkers
<1>8. queue' \in SUBSET Tasks BY <1>1, TypesNow DEF TypeInv
<1>. QED BY <1>6, <1>7, <1>8, RowsSame, TypesNow, StepTypes DEF TypeInv

\* What is busy is known.
LEMMA CopierNow ==
  ASSUME TypeInv, NEW c \in Copier, Busy(copier[c])
  PROVE  /\ copier[c] \in CopierRow /\ Known(copier[c])
         /\ copier[c].m \in Migration /\ copier[c].o \in Object
         /\ migration[copier[c].m].state # "none"
         /\ migration[copier[c].m].source \in placed[copier[c].o]
         /\ migration[copier[c].m].source \in Profile
         /\ migration[copier[c].m].destination \in Profile
BY TypesNow DEF TypeInv, References, Busy, Known

LEMMA MoveOk == ASSUME TypeInv, NEW c \in Copier, NEW k \in CopierRow, Move(c, k) PROVE StepOk
<1>1. Busy(copier[c]) /\ Busy(k) /\ Known(k) BY CopierNow DEF Move, Same, Known
<1>2. copier' \in [Copier -> CopierRow] /\ Workers BY <1>1, CopierWorkers DEF Move
<1>3. stored' \in [Profile -> [Object -> Bytes]]
  <2>1. CASE stored' = stored BY <2>1, TypesNow DEF TypeInv
  <2>. DEFINE x == copier[c]
              p == migration[x.m].destination
              s == migration[x.m].source
  <2>2. CASE stored' = [stored EXCEPT ![p][x.o] = stored[s][x.o]]
    <3>1. s \in Profile /\ p \in Profile /\ x.o \in Object BY <1>1, CopierNow
    <3>2. stored \in [Profile -> [Object -> Bytes]] BY TypesNow DEF TypeInv
    <3>3. stored[s][x.o] \in Bytes BY <3>1, <3>2
    <3>. QED BY <2>2, <3>1, <3>2, <3>3
  <2>. QED BY <2>1, <2>2 DEF Move
<1>4. RowsOk BY RowsSame DEF TypeInv, Move
<1>. QED BY <1>2, <1>3, <1>4, TypesNow, StepTypes DEF TypeInv, Move

LEMMA CopierLeavesOk ==
  ASSUME TypeInv, NEW c \in Copier, GiveBack(c) \/ FailMigration(c) \/ CopierDies(c) PROVE StepOk
<1>1. /\ copier' = [copier EXCEPT ![c] = IdleCopier] /\ Busy(copier[c])
      /\ UNCHANGED <<placed, stored, queue, dispatcher, operator>>
  BY DEF GiveBack, FailMigration, CopierDies, At, Busy
<1>2. copier' \in [Copier -> CopierRow] /\ Workers BY <1>1, IdleRows, CopierWorkers
<1>3. CASE CopierDies(c)
  <2>1. budget' \in [Bounds -> Nat] BY <1>3, SpendWrites DEF CopierDies, TypeInv, FaultKind
  <2>. QED BY <1>1, <1>2, <1>3, <2>1, RowsSame, TypesNow, StepTypes DEF TypeInv, CopierDies
<1>4. CASE GiveBack(c) \/ FailMigration(c)
  <2>1. PICK retry \in BOOLEAN : Release(copier[c].m, copier[c].o, retry)
    BY <1>4 DEF GiveBack, FailMigration
  <2>2. RowsOk BY <1>1, <2>1, CopierNow, ReleaseRows
  <2>3. budget' = budget BY <1>4 DEF GiveBack, FailMigration
  <2>. QED BY <1>1, <1>2, <2>2, <2>3, TypesNow, StepTypes DEF TypeInv
<1>. QED BY <1>3, <1>4

LEMMA CommitOk == ASSUME TypeInv, NEW c \in Copier, Commit(c) PROVE StepOk
<1>1. PICK m \in Migration, o \in Object : Known(copier[c]) /\ Committed(c, m, o) BY CommitWrites
<1>2. /\ Busy(copier[c]) /\ copier' = [copier EXCEPT ![c] = IdleCopier]
      /\ copier[c].m = m /\ copier[c].o = o
      /\ UNCHANGED <<stored, queue, dispatcher, operator, budget>>
  BY <1>1 DEF Committed, Busy
<1>3. copier' \in [Copier -> CopierRow] /\ Workers BY <1>2, IdleRows, CopierWorkers
<1>4. placed \in [Object -> SUBSET Profile] /\ migration[m].destination \in Profile
  BY <1>2, CopierNow, TypesNow DEF TypeInv
<1>5. placed' \in [Object -> SUBSET Profile] /\ \A y \in Object : placed[y] \subseteq placed'[y]
  BY <1>1, <1>4 DEF Committed
<1>6. PICK s \in Done : ItemWritten(m, o, s, None) BY <1>1 DEF Committed
<1>7. s \in ItemState \ {"none", "running"} BY DEF Done, ItemState
<1>8. /\ item' \in [Migration -> [Object -> ItemRow]]
      /\ \A x \in Migration, y \in Object :
           /\ (item'[x][y].state = "running") <=> (item'[x][y].lease # None)
           /\ (item'[x][y].state = "none") <=> (item[x][y].state = "none")
  BY <1>1, <1>2, <1>6, <1>7, ItemRowsOk DEF TypeInv, Known
<1>9. /\ migration' \in [Migration -> MigrationRow]
      /\ \A x \in Migration :
           /\ migration'[x].source = migration[x].source
           /\ migration'[x].destination = migration[x].destination
           /\ (migration'[x].state = "none") <=> (migration[x].state = "none")
  <2>1. CASE migration' = migration BY <2>1, TypesNow DEF TypeInv
  <2>2. CASE StateWritten(m, "completed")
    <3>1. "completed" \in State \ {"none"} /\ migration[m].state # "none"
      BY <1>2, CopierNow DEF State
    <3>. QED BY <2>2, <3>1, StateRowsOk DEF TypeInv
  <2>. QED BY <1>1, <2>1, <2>2 DEF Committed
<1>10. RowsOk BY <1>5, <1>8, <1>9 DEF RowsOk, Kept
<1>. QED BY <1>2, <1>3, <1>5, <1>10, TypesNow, StepTypes DEF TypeInv

LEMMA AbortedOk == ASSUME TypeInv, NEW c \in Copier, CopierAborted(c) PROVE StepOk
<1>. DEFINE x == copier[c]
            t == [m |-> x.m, o |-> x.o, n |-> x.n]
<1>1. /\ Busy(x) /\ Spend("abort") /\ copier' \in {copier, [copier EXCEPT ![c] = IdleCopier]}
      /\ queue' = queue \cup {t} /\ UNCHANGED <<migration, item, placed, stored, dispatcher, operator>>
  BY DEF CopierAborted, At, Busy
<1>2. t \in Tasks /\ Known(t) BY <1>1, CopierNow DEF Known, Tasks, CopierRow
<1>. HIDE DEF t
<1>3. queue' \in SUBSET Tasks /\ \A u \in queue' : u \in queue \/ Known(u)
  BY <1>1, <1>2, TypesNow DEF TypeInv
<1>4. budget' \in [Bounds -> Nat] BY <1>1, SpendWrites DEF TypeInv, FaultKind
<1>5. copier' \in [Copier -> CopierRow] /\ Workers
  <2>1. CASE copier' = copier BY <1>1, <1>3, <2>1, TypesNow DEF Workers, TypeInv
  <2>2. CASE copier' = [copier EXCEPT ![c] = IdleCopier]
    BY <1>1, <1>3, <2>2, IdleRows, CopierWorkers
  <2>. QED BY <1>1, <2>1, <2>2
<1>. QED BY <1>1, <1>3, <1>4, <1>5, RowsSame, TypesNow, StepTypes DEF TypeInv

LEMMA ExpiresOk ==
  ASSUME TypeInv, NEW m \in Migration, NEW o \in Object, LeaseExpires(m, o) PROVE StepOk
<1>1. /\ item[m][o].lease = "held" /\ item' = [item EXCEPT ![m][o].lease = "expired"]
      /\ UNCHANGED <<migration, placed, stored, queue, dispatcher, copier, operator>>
  BY DEF LeaseExpires
<1>2. ItemWritten(m, o, item[m][o].state, "expired") BY <1>1, ItemSetLease DEF TypeInv
<1>3. "held" # None /\ "expired" # None BY MigrationAssumption
<1>4. item[m][o].state = "running" BY <1>1, <1>3 DEF TypeInv, TypeOK
<1>5. "running" \in ItemState \ {"none"} BY DEF ItemState
<1>6. /\ item' \in [Migration -> [Object -> ItemRow]]
      /\ \A x \in Migration, y \in Object :
           /\ (item'[x][y].state = "running") <=> (item'[x][y].lease # None)
           /\ (item'[x][y].state = "none") <=> (item[x][y].state = "none")
  BY <1>2, <1>3, <1>4, <1>5, ItemRowsOk DEF TypeInv
<1>7. RowsOk BY <1>1, <1>6, TypesNow DEF RowsOk, Kept, TypeInv
<1>8. budget' \in [Bounds -> Nat]
  <2>1. CASE budget' = budget BY <2>1, TypesNow DEF TypeInv
  <2>2. CASE Spend("early") BY <2>2, SpendWrites DEF TypeInv, FaultKind
  <2>. QED BY <2>1, <2>2 DEF LeaseExpires
<1>. QED BY <1>1, <1>7, <1>8, WorkersSame, TypesNow, StepTypes DEF TypeInv

\* A new migration: nobody works on it yet.
Created(m, s, d) ==
  /\ migration[m].state = "none" /\ s # d
  /\ migration' \in [Migration -> MigrationRow]
  /\ migration'[m].state = "draft" /\ migration'[m].source = s /\ migration'[m].destination = d
  /\ \A x \in Migration \ {m} : migration'[x] = migration[x] /\ item'[x] = item[x]
  /\ item' \in [Migration -> [Object -> ItemRow]]
  /\ \A o \in Object : item'[m][o] = IF s \in placed[o] THEN NewItem ELSE NoItem
  /\ UNCHANGED <<placed, stored, queue, dispatcher, copier, operator, overlooked, budget>>

LEMMA NewRows ==
  /\ NewItem \in ItemRow /\ NewItem.state = "pending" /\ NewItem.lease = None
  /\ NoItem \in ItemRow /\ NoItem.state = "none" /\ NoItem.lease = None
  /\ NoMigration \in MigrationRow /\ NoMigration.state = "none"
BY DEF NewItem, NoItem, ItemRow, ItemState, NoMigration, MigrationRow, State

LEMMA CreateWrites ==
  ASSUME TypeInv, NEW m \in Migration, NEW s \in Profile, NEW d \in Profile, CreateMigration(m, s, d)
  PROVE  Created(m, s, d)
<1>. DEFINE row == [state |-> "draft", source |-> s, destination |-> d]
            rows == [o \in Object |-> IF s \in placed[o] THEN NewItem ELSE NoItem]
<1>1. row \in MigrationRow BY DEF MigrationRow, State
<1>2. rows \in [Object -> ItemRow] BY NewRows
<1>3. /\ migration' = [migration EXCEPT ![m] = row] /\ item' = [item EXCEPT ![m] = rows]
      /\ migration[m] = NoMigration /\ s # d
      /\ UNCHANGED <<placed, stored, queue, dispatcher, copier, operator, overlooked, budget>>
  BY DEF CreateMigration
<1>. HIDE DEF rows
<1>4. /\ migration' \in [Migration -> MigrationRow] /\ migration'[m] = row
      /\ item' \in [Migration -> [Object -> ItemRow]] /\ item'[m] = rows
      /\ \A x \in Migration \ {m} : migration'[x] = migration[x] /\ item'[x] = item[x]
  BY <1>1, <1>2, <1>3, TypesNow DEF TypeInv
<1>. QED BY <1>3, <1>4, NewRows DEF Created, rows

LEMMA CreateInv ==
  ASSUME TypeInv, NEW m \in Migration, NEW s \in Profile, NEW d \in Profile, CreateMigration(m, s, d)
  PROVE  TypeInv'
<1>1. Created(m, s, d) BY CreateWrites
<1>2. \A o \in Object : item[m][o].state = "none" BY <1>1 DEF Created, TypeInv, References
<1>3. \A x \in Migration, o \in Object :
        /\ (item'[x][o].state = "running") <=> (item'[x][o].lease # None)
        /\ item[x][o].state # "none" => x # m /\ item'[x][o] = item[x][o]
  <2>. SUFFICES ASSUME NEW x \in Migration, NEW o \in Object
                PROVE  /\ (item'[x][o].state = "running") <=> (item'[x][o].lease # None)
                       /\ item[x][o].state # "none" => x # m /\ item'[x][o] = item[x][o]
    OBVIOUS
  <2>1. CASE x = m
    <3>1. item'[x][o] \in {NewItem, NoItem} BY <1>1, <2>1 DEF Created
    <3>. QED BY <1>2, <2>1, <3>1, NewRows
  <2>2. CASE x # m
    <3>1. item'[x] = item[x] BY <1>1, <2>2 DEF Created
    <3>. QED BY <2>2, <3>1 DEF TypeInv, TypeOK
  <2>. QED BY <2>1, <2>2
<1>4. TypeOK'
  BY <1>1, <1>3, TypesNow DEF Created, TypeInv, TypeOK, MigrationRow, ItemRow
<1>5. ASSUME NEW x, Known(x) PROVE x.m \in Migration /\ x.o \in Object /\ item'[x.m][x.o].state # "none"
  BY <1>3, <1>5 DEF Known
<1>6. \A c \in Copier : (IF copier[c].pc = "idle" THEN copier[c] = IdleCopier ELSE Known(copier[c]))'
  BY <1>1, <1>5 DEF Created, TypeInv, References, Known
<1>7. \A e \in Dispatcher : (IF dispatcher[e].pc = "idle" THEN dispatcher[e] = IdleDispatcher
                                                        ELSE Known(dispatcher[e]))'
  BY <1>1, <1>5 DEF Created, TypeInv, References, Known
<1>8. \A t \in queue' : Known(t)' BY <1>1, <1>5 DEF Created, TypeInv, References, Known
<1>9. \A a \in Operator : (IF operator[a].pc = "idle" THEN operator[a] = IdleOperator
                         ELSE operator[a].m \in Migration /\ migration[operator[a].m].state # "none")'
  BY <1>1 DEF Created, TypeInv, References
<1>10. \A x \in Migration : (migration[x].state # "none" =>
       {migration[x].source, migration[x].destination} \subseteq Profile)'
  BY <1>1 DEF Created, TypeInv, References
<1>11. \A x \in Migration, o \in Object : (item[x][o].state # "none" =>
       migration[x].state # "none" /\ migration[x].source \in placed[o])'
  BY <1>1, NewRows DEF Created, TypeInv, References
<1>. QED BY <1>4, <1>6, <1>7, <1>8, <1>9, <1>10, <1>11 DEF TypeInv, References

\* Every step but a creation keeps what there is.
LEMMA StepsOk ==
  ASSUME TypeInv, [Next]_vars, ~ \E m \in Migration, s, d \in Profile : CreateMigration(m, s, d)
  PROVE  StepOk
<1>1. CASE UNCHANGED vars
  BY <1>1, RowsSame, WorkersSame, TypesNow, StepTypes DEF vars, TypeInv
<1>2. CASE Next
  BY <1>2, ResumeOk, ResumeItemsOk, ResumeSettleOk, AdministratorOk, ClaimOk, EnqueueOk,
     DispatcherLeavesOk, StartOk, Moves, MoveOk, CopierLeavesOk, CommitOk, AbortedOk, ExpiresOk
     DEF Next, CopierStep
<1>. QED BY <1>1, <1>2

\* Migrations whose last completion was overlooked stay so.
LEMMA OverlookedGrows ==
  ASSUME TypeInv, [Next]_vars
  PROVE  overlooked \subseteq overlooked' /\ overlooked' \in SUBSET Migration
<1>. USE DEF TypeInv
<1>0. overlooked \in SUBSET Migration BY DEF TypeOK
<1>1. CASE UNCHANGED vars BY <1>0, <1>1 DEF vars
<1>2. CASE \/ \E m \in Migration, s, d \in Profile : CreateMigration(m, s, d)
           \/ \E a \in Operator, m \in Migration : ResumeMigration(a, m)
           \/ \E a \in Operator : ResumeItems(a) \/ ResumePartial(a)
           \/ \E m \in Migration : PauseMigration(m) \/ CancelMigration(m)
  BY <1>0, <1>2 DEF CreateMigration, ResumeMigration, ResumeItems, ResumePartial, PauseMigration,
     CancelMigration
<1>3. CASE \E d \in Dispatcher : \/ ClaimMigrationWork(d) \/ EnqueueMigration(d)
                                 \/ DispatcherRelease(d) \/ DispatcherDies(d)
  BY <1>0, <1>3 DEF ClaimMigrationWork, EnqueueMigration, DispatcherRelease, DispatcherDies
<1>4. CASE \/ \E c \in Copier : \/ Start(c) \/ Load(c) \/ GiveBack(c) \/ Check(c) \/ Copy(c) \/ Put(c)
                                \/ Commit(c) \/ FailMigration(c) \/ CopierDies(c) \/ CopierAborted(c)
           \/ \E m \in Migration, o \in Object : LeaseExpires(m, o)
  BY <1>0, <1>4 DEF Start, Load, GiveBack, Check, Copy, Put, Commit, FailMigration, CopierDies,
     CopierAborted, LeaseExpires
<1>5. ASSUME NEW m \in Migration, NEW S, Looks(m, S)
      PROVE  overlooked \subseteq overlooked' /\ overlooked' \in SUBSET Migration
  BY <1>0, <1>5 DEF Looks
<1>6. CASE \E a \in Operator : ResumeSettle(a)
  <2>1. PICK a \in Operator : ResumeSettle(a) BY <1>6
  <2>2. operator[a].m \in Migration /\ Looks(operator[a].m, Object)
    BY <2>1, OperatorNow DEF ResumeSettle, Busy
  <2>. QED BY <1>5, <2>2
<1>7. CASE \E c \in Copier : Finish(c)
  <2>1. PICK c \in Copier : Finish(c) BY <1>7
  <2>2. copier[c].m \in Migration BY <2>1, CopierNow DEF Finish, At, Busy
  <2>3. Looks(copier[c].m, Object \ {copier[c].o}) \/ overlooked' = overlooked BY <2>1 DEF Finish
  <2>. QED BY <1>0, <1>5, <2>2, <2>3
<1>. QED BY <1>1, <1>2, <1>3, <1>4, <1>6, <1>7 DEF Next, CopierStep

LEMMA TypeStep == TypeInv /\ [Next]_vars => TypeInv'
<1>. SUFFICES ASSUME TypeInv, [Next]_vars PROVE TypeInv' OBVIOUS
<1>1. CASE \E m \in Migration, s, d \in Profile : CreateMigration(m, s, d) BY <1>1, CreateInv
<1>2. CASE ~ \E m \in Migration, s, d \in Profile : CreateMigration(m, s, d)
  BY <1>2, StepsOk, OverlookedGrows, ReferencesKept DEF TypeInv, StepOk
<1>. QED BY <1>1, <1>2

LEMMA TypeInit == Init => TypeInv
<1>. SUFFICES ASSUME Init PROVE TypeInv OBVIOUS
<1>1. /\ migration \in [Migration -> MigrationRow] /\ item \in [Migration -> [Object -> ItemRow]]
      /\ \A m \in Migration, o \in Object : item[m][o] = NoItem
  BY NewRows DEF Init
<1>2. stored \in [Profile -> [Object -> Bytes]] BY DEF Init, Original, Bytes
<1>3. /\ dispatcher \in [Dispatcher -> DispatcherRow] /\ copier \in [Copier -> CopierRow]
      /\ operator \in [Operator -> OperatorRow]
  BY IdleRows DEF Init
<1>4. /\ placed \in [Object -> SUBSET Profile] /\ budget \in [Bounds -> Nat] /\ queue \in SUBSET Tasks
      /\ overlooked \in SUBSET Migration
  BY MigrationAssumption DEF Init
<1>5. TypeOK
  BY <1>1, <1>2, <1>3, <1>4, NewRows
     DEF TypeOK, MigrationRow, ItemRow, DispatcherRow, CopierRow, OperatorRow
<1>6. References BY <1>1, NewRows, IdleRows DEF Init, References
<1>. QED BY <1>5, <1>6 DEF TypeInv

LEMMA TypeInvariance == Spec => []TypeInv
BY TypeInit, TypeStep, PTL DEF Spec

\* Migrations, items, placements, tasks and workers have their types, and an item has a lease
\* exactly while it is running.  No constraint of the schema says so
\* (migrations/007_storage_migration_dispatch.sql): the claim, the release and the completion of
\* internal/storagecontrol/repository.go set or clear both together, in any order and whatever fails.
THEOREM TypeCorrect == Spec => []TypeOK
BY TypeInvariance, PTL DEF TypeInv

-----------------------------------------------------------------------------
(* Bytes and placements.                                                   *)

ByteInv == BytesOk /\ (\A c \in Copier : CopierOk(copier[c])) /\ Progress

LEMMA PlacedKept ==
  ASSUME Kept, NEW m \in Migration, NEW o \in Object, Placed(m, o) PROVE Placed(m, o)'
BY DEF Kept, Placed

LEMMA IdleCopierOk == CopierOk(IdleCopier) /\ CopierOk(IdleCopier)'
BY DEF CopierOk, IdleCopier

\* Nothing is stored or placed, nothing gets done, and copiers start or leave.
LEMMA QuietBytes ==
  ASSUME TypeInv, ByteInv, StepOk, UNCHANGED <<stored, placed>>,
         \A c \in Copier : \/ copier'[c] \in {copier[c], IdleCopier}
                           \/ copier'[c].pc = "load" /\ ~copier'[c].skip,
         \A m \in Migration, o \in Object : item'[m][o].state \in Done => item[m][o].state \in Done,
         \A m \in Migration : migration'[m].state = "completed" =>
                              migration[m].state = "completed" \/ \A o \in Object : Placed(m, o)
  PROVE  ByteInv'
<1>1. BytesOk' BY DEF ByteInv, BytesOk
<1>2. ASSUME NEW c \in Copier PROVE CopierOk(copier[c])'
  <2>1. CASE copier'[c] = IdleCopier BY <2>1, IdleCopierOk DEF CopierOk
  <2>2. CASE copier'[c].pc = "load" /\ ~copier'[c].skip BY <2>2 DEF CopierOk
  <2>3. CASE copier'[c] = copier[c]
    <3>1. CASE Busy(copier[c])
      <4>1. /\ migration'[copier[c].m].source = migration[copier[c].m].source
            /\ migration'[copier[c].m].destination = migration[copier[c].m].destination
        BY <3>1, CopierNow DEF StepOk, Kept
      <4>2. CopierOk(copier[c]) BY DEF ByteInv
      <4>. QED BY <2>3, <4>1, <4>2 DEF CopierOk
    <3>2. CASE ~Busy(copier[c])
      <4>1. copier[c] = IdleCopier BY <3>2 DEF Busy, TypeInv, References
      <4>. QED BY <2>3, <4>1, IdleCopierOk DEF CopierOk
    <3>. QED BY <3>1, <3>2
  <2>. QED BY <2>1, <2>2, <2>3
<1>3. \A m \in Migration, o \in Object : Placed(m, o) => Placed(m, o)' BY PlacedKept DEF StepOk
<1>4. \A m \in Migration, o \in Object : item'[m][o].state \in Done => Placed(m, o)'
  BY <1>3 DEF ByteInv, Progress
<1>5. ASSUME NEW c \in Copier, copier'[c].pc = "commit", copier'[c].last,
             NEW o \in Object, o # copier'[c].o
      PROVE  copier'[c].m \in Migration /\ Placed(copier[c].m, o)'
  <2>1. copier'[c] = copier[c] BY <1>5, IdleRows
  <2>2. copier[c].m \in Migration BY <1>5, <2>1, CopierNow DEF Busy
  <2>. QED BY <1>3, <1>5, <2>1, <2>2 DEF ByteInv, Progress, Placed
<1>6. \A m \in Migration : migration'[m].state = "completed" => \A o \in Object : Placed(m, o)'
  BY <1>3 DEF ByteInv, Progress
<1>7. Progress' BY <1>4, <1>5, <1>6 DEF Progress
<1>. QED BY <1>1, <1>2, <1>7 DEF ByteInv

LEMMA BytesCreate ==
  ASSUME TypeInv, ByteInv, NEW m \in Migration, NEW s \in Profile, NEW d \in Profile,
         CreateMigration(m, s, d)
  PROVE  ByteInv'
<1>1. Created(m, s, d) BY CreateWrites
<1>2. BytesOk' BY <1>1 DEF Created, ByteInv, BytesOk
<1>3. ASSUME NEW c \in Copier, Busy(copier[c])
      PROVE  copier[c].m \in Migration \ {m} /\ migration'[copier[c].m] = migration[copier[c].m]
             /\ item'[copier[c].m] = item[copier[c].m]
  BY <1>1, <1>3, CopierNow DEF Created
<1>4. ASSUME NEW c \in Copier PROVE CopierOk(copier[c])'
  <2>1. CASE Busy(copier[c]) BY <1>1, <1>3, <2>1 DEF Created, ByteInv, CopierOk
  <2>2. CASE ~Busy(copier[c]) BY <1>1, <2>2 DEF Busy, Created, ByteInv, CopierOk
  <2>. QED BY <2>1, <2>2
<1>5. ASSUME NEW x \in Migration
      PROVE  /\ \A o \in Object : item'[x][o].state \in Done => Placed(x, o)'
             /\ migration'[x].state = "completed" => \A o \in Object : Placed(x, o)'
  <2>1. CASE x = m
    <3>1. \A o \in Object : item'[x][o].state \notin Done BY <1>1, <2>1, NewRows DEF Created, Done
    <3>2. migration'[x].state = "draft" BY <1>1, <2>1 DEF Created
    <3>. QED BY <3>1, <3>2
  <2>2. CASE x # m
    <3>1. migration'[x] = migration[x] /\ item'[x] = item[x] /\ placed' = placed
      BY <1>1, <2>2 DEF Created
    <3>. QED BY <3>1 DEF ByteInv, Progress, Placed
  <2>. QED BY <2>1, <2>2
<1>6. \A c \in Copier : (copier[c].pc = "commit" /\ copier[c].last =>
        \A o \in Object \ {copier[c].o} : Placed(copier[c].m, o))'
  BY <1>1, <1>3 DEF Created, Busy, ByteInv, Progress, Placed
<1>. QED BY <1>2, <1>4, <1>5, <1>6 DEF ByteInv, Progress

\* Put overwrites at most a replica outside the object's homes, with what the source holds.
LEMMA PutBytes ==
  ASSUME TypeInv, ByteInv, NEW c \in Copier, NEW k \in CopierRow, Move(c, k)
  PROVE  \A q \in Profile, y \in Object :
           \/ stored'[q][y] = stored[q][y]
           \/ /\ stored'[q][y] # "none" /\ q \notin Home[y]
              /\ y \in Digested => stored'[q][y] = "good"
              /\ q = migration[copier[c].m].destination /\ y = copier[c].o /\ copier[c].pc = "put"
<1>. DEFINE x == copier[c]
            p == migration[x.m].destination
            s == migration[x.m].source
<1>1. CASE stored' = stored BY <1>1
<1>2. CASE x.pc = "put" /\ stored' = [stored EXCEPT ![p][x.o] = stored[s][x.o]]
  <2>1. Busy(x) BY DEF Move
  <2>2. x.m \in Migration /\ x.o \in Object /\ s \in placed[x.o] /\ p \in Profile BY <2>1, CopierNow
  <2>3. CopierOk(x) /\ BytesOk BY DEF ByteInv
  <2>4. /\ stored[s][x.o] # "none" /\ p \notin Home[x.o]
        /\ x.o \in Digested => stored[s][x.o] = "good"
    BY <1>2, <2>2, <2>3 DEF CopierOk, BytesOk
  <2>5. stored \in [Profile -> [Object -> Bytes]] BY TypesNow DEF TypeInv
  <2>6. \A q \in Profile, y \in Object :
          stored'[q][y] = IF q = p /\ y = x.o THEN stored[s][x.o] ELSE stored[q][y]
    BY <1>2, <2>2, <2>5
  <2>7. x.pc = "put" BY <1>2
  <2>. HIDE DEF p, s
  <2>8. ASSUME NEW q \in Profile, NEW y \in Object
        PROVE  \/ stored'[q][y] = stored[q][y]
               \/ /\ stored'[q][y] # "none" /\ q \notin Home[y]
                  /\ y \in Digested => stored'[q][y] = "good"
                  /\ q = p /\ y = x.o
    <3>1. CASE q = p /\ y = x.o
      <4>1. stored'[q][y] = stored[s][x.o] BY <2>6, <3>1
      <4>. QED BY <2>4, <3>1, <4>1
    <3>2. CASE ~ (q = p /\ y = x.o) BY <2>6, <3>2
    <3>. QED BY <3>1, <3>2
  <2>. QED BY <2>7, <2>8 DEF p
<1>. QED BY <1>1, <1>2 DEF Move

LEMMA BytesMove ==
  ASSUME TypeInv, ByteInv, NEW c \in Copier, NEW k \in CopierRow, Move(c, k)
  PROVE  ByteInv'
<1>. DEFINE x == copier[c]
<1>1. Busy(x) /\ Same(k, x) /\ UNCHANGED <<migration, item, placed>> BY DEF Move
<1>2. /\ x.m \in Migration /\ x.o \in Object /\ migration[x.m].destination \in Profile
      /\ migration[x.m].source \in Profile
  BY <1>1, CopierNow
<1>3. copier'[c] = k /\ \A b \in Copier \ {c} : copier'[b] = copier[b]
  BY CopierSet DEF Move, TypeInv
<1>4. placed \in [Object -> SUBSET Profile] BY TypesNow DEF TypeInv
<1>5. BytesOk'
  <2>1. \A o \in Object : (Home[o] \subseteq placed[o])' BY <1>1 DEF ByteInv, BytesOk
  <2>2. \A o \in Object : \A p \in placed'[o] : stored'[p][o] # "none"
    BY <1>1, <1>4, PutBytes DEF ByteInv, BytesOk
  <2>3. \A o \in Digested : \A p \in Profile \ Home[o] : stored'[p][o] \in {"none", "good"}
    BY PutBytes, MigrationAssumption DEF ByteInv, BytesOk
  <2>. QED BY <2>1, <2>2, <2>3 DEF BytesOk
<1>6. ASSUME NEW b \in Copier \ {c} PROVE CopierOk(copier[b])'
  <2>1. copier'[b] = copier[b] /\ CopierOk(copier[b]) BY <1>3 DEF ByteInv
  <2>2. CASE Busy(copier[b])
    <3>1. /\ copier[b].o \in Object /\ migration[copier[b].m].source \in Profile
          /\ migration[copier[b].m].destination \in Profile
      BY <2>2, CopierNow
    <3>2. ASSUME NEW q \in Profile
          PROVE  LET o == copier[b].o
                 IN  /\ stored[q][o] # "none" => stored'[q][o] # "none"
                     /\ o \in Digested /\ stored[q][o] = "good" => stored'[q][o] = "good"
      BY <3>1, PutBytes
    <3>. QED BY <1>1, <2>1, <3>1, <3>2 DEF CopierOk
  <2>3. CASE ~Busy(copier[b]) BY <2>1, <2>3 DEF Busy, CopierOk
  <2>. QED BY <2>2, <2>3
<1>7. /\ k.skip => k.pc \in {"finish", "commit"}
      /\ k.pc \in {"copy", "put"} => migration[k.m].destination \notin Home[k.o]
      /\ k.pc = "put" /\ k.o \in Digested => stored'[migration[k.m].source][k.o] = "good"
      /\ k.pc \in {"finish", "commit"} =>
          IF k.skip THEN migration[k.m].destination \in placed[k.o]
                    ELSE stored'[migration[k.m].destination][k.o] # "none"
  <2>. DEFINE p == migration[x.m].destination
              s == migration[x.m].source
  <2>0. CopierOk(x) /\ k.m = x.m /\ k.o = x.o /\ Home[x.o] \subseteq placed[x.o]
    BY <1>1, <1>2 DEF ByteInv, BytesOk, Same
  <2>1. CASE /\ k.pc \in {"check", "stale", "transient", "fatal"}
             /\ x.pc \in {"load", "check", "copy", "put"} /\ k.skip = x.skip
    BY <2>0, <2>1 DEF CopierOk
  <2>2. CASE k.pc = "finish" /\ k.skip /\ p \in placed[x.o] BY <2>0, <2>2
  <2>3. CASE k.pc = "copy" /\ x.pc = "check" /\ k.skip = x.skip /\ p \notin placed[x.o]
    BY <2>0, <2>3 DEF CopierOk
  <2>4. CASE /\ x.pc = "copy" /\ k.pc = "put" /\ k.skip = x.skip /\ stored' = stored
             /\ x.o \in Digested => stored[s][x.o] = "good"
    BY <2>0, <2>4 DEF CopierOk
  <2>5. CASE /\ x.pc = "put" /\ k.pc \in {"finish", "transient", "fatal"} /\ k.skip = x.skip
             /\ stored' = [stored EXCEPT ![p][x.o] = stored[s][x.o]]
    <3>1. stored'[p][x.o] = stored[s][x.o] BY <1>2, <2>5, TypesNow DEF TypeInv
    <3>2. stored[s][x.o] # "none" BY <1>1, <1>2, CopierNow DEF ByteInv, BytesOk
    <3>. QED BY <2>0, <2>5, <3>1, <3>2 DEF CopierOk
  <2>6. CASE x.pc = "finish" /\ k.pc = "commit" /\ k.skip = x.skip /\ stored' = stored
    BY <2>0, <2>6 DEF CopierOk
  <2>. QED BY <2>1, <2>2, <2>3, <2>4, <2>5, <2>6 DEF Move
<1>8. CopierOk(copier[c])' BY <1>1, <1>3, <1>7 DEF CopierOk
<1>9. Progress'
  <2>1. \A m \in Migration, o \in Object : Placed(m, o)' <=> Placed(m, o) BY <1>1 DEF Placed
  <2>2. ASSUME NEW b \in Copier, copier'[b].pc = "commit", copier'[b].last,
               NEW o \in Object, o # copier'[b].o
        PROVE  Placed(copier[b].m, o)'
    <3>1. CASE b # c
      <4>1. copier'[b] = copier[b] BY <1>3, <3>1
      <4>. QED BY <1>1, <2>2, <4>1 DEF ByteInv, Progress, Placed
    <3>2. CASE b = c
      <4>1. k.pc = "commit" /\ k.last /\ k.m = x.m /\ o # x.o BY <1>1, <1>3, <2>2, <3>2 DEF Same
      <4>2. item[x.m][o].state \in Done \cup {"none"} BY <2>2, <4>1 DEF Move, Left
      <4>3. Placed(x.m, o) BY <1>2, <4>2 DEF ByteInv, Progress, Placed
      <4>. QED BY <1>1, <1>3, <3>2, <4>1, <4>3 DEF Placed
    <3>. QED BY <3>1, <3>2
  <2>. QED BY <1>1, <2>1, <2>2 DEF ByteInv, Progress
<1>. QED BY <1>5, <1>6, <1>8, <1>9 DEF ByteInv

LEMMA BytesCommit == ASSUME TypeInv, ByteInv, NEW c \in Copier, Commit(c) PROVE ByteInv'
<1>1. PICK m \in Migration, o \in Object : Committed(c, m, o) BY CommitWrites
<1>. DEFINE p == migration[m].destination
<1>2. /\ copier[c].pc = "commit" /\ copier[c].m = m /\ copier[c].o = o /\ stored' = stored
      /\ Busy(copier[c])
  BY <1>1 DEF Committed, Busy
<1>3. p \in Profile /\ placed \in [Object -> SUBSET Profile] BY <1>2, CopierNow, TypesNow DEF TypeInv
<1>4. /\ \A y \in Object \ {o} : placed'[y] = placed[y]
      /\ placed[o] \subseteq placed'[o] /\ placed'[o] \subseteq placed[o] \cup {p}
      /\ ~copier[c].skip => p \in placed'[o]
  BY <1>1, <1>3 DEF Committed
<1>5. IF copier[c].skip THEN p \in placed[o] ELSE stored[p][o] # "none"
  BY <1>2 DEF ByteInv, CopierOk
<1>6. p \in placed'[o] /\ stored[p][o] # "none" BY <1>4, <1>5 DEF ByteInv, BytesOk
<1>7. StepOk BY CommitOk
<1>8. copier'[c] = IdleCopier /\ \A b \in Copier \ {c} : copier'[b] = copier[b]
  BY <1>1, IdleRows, CopierSet DEF Committed, TypeInv
<1>9. BytesOk' BY <1>2, <1>4, <1>6 DEF ByteInv, BytesOk
<1>10. ASSUME NEW b \in Copier PROVE CopierOk(copier[b])'
  <2>1. CASE b = c BY <1>8, <2>1, IdleCopierOk DEF CopierOk
  <2>2. CASE b # c /\ Busy(copier[b])
    <3>1. /\ migration'[copier[b].m].source = migration[copier[b].m].source
          /\ migration'[copier[b].m].destination = migration[copier[b].m].destination
          /\ copier[b].o \in Object /\ placed[copier[b].o] \subseteq placed'[copier[b].o]
      BY <1>7, <2>2, CopierNow DEF StepOk, Kept
    <3>2. copier'[b] = copier[b] /\ CopierOk(copier[b]) BY <1>8, <2>2 DEF ByteInv
    <3>. QED BY <1>2, <3>1, <3>2 DEF CopierOk
  <2>3. CASE b # c /\ ~Busy(copier[b]) BY <1>8, <2>3 DEF Busy, ByteInv, CopierOk
  <2>. QED BY <2>1, <2>2, <2>3
<1>11. \A x \in Migration, y \in Object : Placed(x, y) => Placed(x, y)' BY <1>7, PlacedKept DEF StepOk
<1>12. Placed(m, o)' BY <1>6, <1>7 DEF Placed, StepOk, Kept
<1>13. \A x \in Migration, y \in Object : x # m \/ y # o => item'[x][y] = item[x][y]
  BY <1>1 DEF Committed, ItemWritten
<1>14. \A x \in Migration, y \in Object : item'[x][y].state \in Done => Placed(x, y)'
  BY <1>11, <1>12, <1>13 DEF ByteInv, Progress
<1>15. ASSUME NEW b \in Copier, copier'[b].pc = "commit", copier'[b].last,
              NEW y \in Object, y # copier'[b].o
       PROVE  Placed(copier[b].m, y)'
  <2>1. copier'[b] = copier[b] BY <1>8, <1>15, IdleRows
  <2>2. copier[b].m \in Migration BY <1>15, <2>1, CopierNow DEF Busy
  <2>. QED BY <1>11, <1>15, <2>1, <2>2 DEF ByteInv, Progress, Placed
<1>16. ASSUME NEW x \in Migration, migration'[x].state = "completed", NEW y \in Object PROVE Placed(x, y)'
  <2>1. CASE migration[x].state = "completed" BY <1>11, <2>1 DEF ByteInv, Progress
  <2>2. CASE migration[x].state # "completed"
    <3>1. copier[c].last /\ x = m BY <1>1, <1>16, <2>2 DEF Committed, StateWritten
    <3>2. y # o => Placed(m, y) BY <1>2, <3>1 DEF ByteInv, Progress
    <3>. QED BY <1>11, <1>12, <3>1, <3>2
  <2>. QED BY <2>1, <2>2
<1>. QED BY <1>9, <1>10, <1>14, <1>15, <1>16 DEF ByteInv, Progress

\* Whatever else happens, stores and places nothing and gets no item done; the last statement of
\* a resume completes a migration whose items are all done.
QuietStep ==
  /\ UNCHANGED <<stored, placed>>
  /\ \A c \in Copier : \/ copier'[c] \in {copier[c], IdleCopier}
                       \/ copier'[c].pc = "load" /\ ~copier'[c].skip
  /\ \A m \in Migration, o \in Object : item'[m][o].state \in Done => item[m][o].state \in Done
  /\ \A m \in Migration : migration'[m].state = "completed" =>
                          migration[m].state = "completed" \/ AllDone(m)

LEMMA CopierIdles ==
  ASSUME TypeInv, NEW c \in Copier, copier' = [copier EXCEPT ![c] = IdleCopier]
  PROVE  \A b \in Copier : copier'[b] \in {copier[b], IdleCopier}
BY TypesNow DEF TypeInv

LEMMA AdministratorQuiet ==
  ASSUME TypeInv,
         \/ \E a \in Operator, m \in Migration : ResumeMigration(a, m)
         \/ \E a \in Operator : ResumeItems(a) \/ ResumeSettle(a) \/ ResumePartial(a)
         \/ \E m \in Migration : PauseMigration(m) \/ CancelMigration(m)
  PROVE  QuietStep
<1>1. CASE \E a \in Operator, m \in Migration : ResumeMigration(a, m)
  <2>1. PICK a \in Operator, m \in Migration : ResumeMigration(a, m) BY <1>1
  <2>2. StateWritten(m, "running") BY <2>1, SetStateWrites DEF TypeInv, State, ResumeMigration
  <2>. QED BY <2>1, <2>2 DEF ResumeMigration, StateWritten, QuietStep
<1>2. CASE \E a \in Operator : ResumeItems(a)
  <2>1. PICK a \in Operator : ResumeItems(a) BY <1>2
  <2>2. \A m \in Migration, o \in Object : item'[m][o] = item[m][o] \/ item'[m][o].state = "pending"
    <3>1. TypeOK /\ operator[a].m \in Migration
      BY <2>1, OperatorNow DEF TypeInv, ResumeItems, Busy
    <3>. QED BY <2>1, <3>1, ResumeItemsWrites
  <2>. QED BY <2>1, <2>2 DEF ResumeItems, QuietStep, Done
<1>3. CASE \E a \in Operator : ResumeSettle(a)
  <2>1. PICK a \in Operator : ResumeSettle(a) BY <1>3
  <2>2. CASE migration' = migration BY <2>1, <2>2 DEF ResumeSettle, QuietStep
  <2>3. CASE AllDone(operator[a].m) /\ SetState(operator[a].m, "completed")
    <3>1. StateWritten(operator[a].m, "completed")
      BY <2>1, <2>3, OperatorNow, SetStateWrites DEF TypeInv, State, ResumeSettle, Busy
    <3>. QED BY <2>1, <2>3, <3>1 DEF ResumeSettle, QuietStep, StateWritten
  <2>. QED BY <2>1, <2>2, <2>3 DEF ResumeSettle
<1>4. CASE \/ \E a \in Operator : ResumePartial(a)
           \/ \E m \in Migration : PauseMigration(m)
  BY <1>4 DEF ResumePartial, PauseMigration, QuietStep
<1>5. CASE \E m \in Migration : CancelMigration(m)
  <2>1. PICK m \in Migration : CancelMigration(m) BY <1>5
  <2>2. StateWritten(m, "canceled") BY <2>1, SetStateWrites DEF TypeInv, State, CancelMigration
  <2>. QED BY <2>1, <2>2 DEF CancelMigration, StateWritten, QuietStep
<1>. QED BY <1>1, <1>2, <1>3, <1>4, <1>5

LEMMA ReleaseQuiet ==
  ASSUME TypeInv, NEW x, Known(x), NEW retry \in BOOLEAN, Release(x.m, x.o, retry),
         UNCHANGED <<stored, placed>>,
         \A c \in Copier : copier'[c] \in {copier[c], IdleCopier}
  PROVE  QuietStep
<1>1. /\ ItemWritten(x.m, x.o, IF retry THEN "pending" ELSE "failed", None)
      /\ migration' = migration \/ StateWritten(x.m, "failed")
  BY ReleaseWrites DEF Known, TypeInv
<1>2. \A m \in Migration, o \in Object :
        item'[m][o] = item[m][o] \/ item'[m][o].state \in {"pending", "failed"}
  BY <1>1 DEF ItemWritten, Known
<1>3. \A m \in Migration : migration'[m].state = "completed" => migration[m].state = "completed"
  BY <1>1 DEF StateWritten
<1>. QED BY <1>2, <1>3 DEF QuietStep, Done

LEMMA DispatcherQuiet ==
  ASSUME TypeInv, NEW d \in Dispatcher,
         ClaimMigrationWork(d) \/ EnqueueMigration(d) \/ DispatcherRelease(d) \/ DispatcherDies(d)
  PROVE  QuietStep
<1>1. CASE ClaimMigrationWork(d)
  <2>1. \A m \in Migration, o \in Object : Reset[m][o].state \in Done => item[m][o].state \in Done
    BY ResetRows DEF TypeInv, Done
  <2>2. \A m \in Migration, o \in Object :
          item'[m][o] = Reset[m][o] \/ item'[m][o].state = "running"
    BY <1>1, ClaimWrites DEF TypeInv, Claimed
  <2>. QED BY <1>1, <2>1, <2>2 DEF ClaimMigrationWork, QuietStep, Done
<1>2. CASE EnqueueMigration(d) \/ DispatcherDies(d)
  BY <1>2 DEF EnqueueMigration, DispatcherDies, QuietStep
<1>3. CASE DispatcherRelease(d)
  <2>1. Known(dispatcher[d]) BY <1>3 DEF DispatcherRelease, TypeInv, References
  <2>. QED BY <1>3, <2>1, ReleaseQuiet DEF DispatcherRelease
<1>. QED BY <1>1, <1>2, <1>3

LEMMA StartWrites ==
  ASSUME TypeInv, NEW c \in Copier, Start(c)
  PROVE  \E t \in queue, k \in CopierRow :
           /\ queue' = queue \ {t} /\ copier' = [copier EXCEPT ![c] = k]
           /\ k.pc = "load" /\ Same(k, t) /\ ~k.skip /\ copier[c].pc = "idle"
<1>1. PICK t \in queue : /\ queue' = queue \ {t}
                         /\ copier' = [copier EXCEPT ![c] = [IdleCopier EXCEPT !.pc = "load", !.m = t.m,
                                                              !.o = t.o, !.n = t.n]]
  BY DEF Start
<1>2. t \in Tasks BY TypesNow DEF TypeInv
<1>. DEFINE k == [IdleCopier EXCEPT !.pc = "load", !.m = t.m, !.o = t.o, !.n = t.n]
<1>3. k \in CopierRow /\ k.pc = "load" /\ Same(k, t) /\ ~k.skip
  BY <1>2 DEF IdleCopier, CopierRow, CopierPC, Tasks, Same
<1>. QED BY <1>1, <1>3 DEF Start, At

LEMMA CopierQuiet ==
  ASSUME TypeInv, NEW c \in Copier,
         Start(c) \/ GiveBack(c) \/ FailMigration(c) \/ CopierDies(c) \/ CopierAborted(c)
  PROVE  QuietStep
<1>1. CASE Start(c)
  <2>1. PICK k \in CopierRow : /\ copier' = [copier EXCEPT ![c] = k] /\ k.pc = "load" /\ ~k.skip
    BY <1>1, StartWrites
  <2>. QED BY <1>1, <2>1, CopierSet DEF TypeInv, Start, QuietStep
<1>2. CASE CopierDies(c) \/ CopierAborted(c)
  <2>1. copier' = copier \/ copier' = [copier EXCEPT ![c] = IdleCopier]
    BY <1>2 DEF CopierDies, CopierAborted
  <2>2. \A b \in Copier : copier'[b] \in {copier[b], IdleCopier} BY <2>1, CopierIdles
  <2>. QED BY <1>2, <2>2 DEF CopierDies, CopierAborted, QuietStep
<1>3. CASE GiveBack(c) \/ FailMigration(c)
  <2>1. /\ Busy(copier[c]) /\ copier' = [copier EXCEPT ![c] = IdleCopier] /\ UNCHANGED <<stored, placed>>
    BY <1>3 DEF GiveBack, FailMigration, At, Busy
  <2>2. PICK retry \in BOOLEAN : Release(copier[c].m, copier[c].o, retry)
    BY <1>3 DEF GiveBack, FailMigration
  <2>. QED BY <2>1, <2>2, CopierNow, CopierIdles, ReleaseQuiet
<1>. QED BY <1>1, <1>2, <1>3

LEMMA ExpiresQuiet ==
  ASSUME TypeInv, NEW m \in Migration, NEW o \in Object, LeaseExpires(m, o) PROVE QuietStep
<1>1. ItemWritten(m, o, item[m][o].state, "expired") BY ItemSetLease DEF LeaseExpires, TypeInv
<1>. QED BY <1>1 DEF LeaseExpires, ItemWritten, QuietStep

LEMMA BytesStep == TypeInv /\ ByteInv /\ [Next]_vars => ByteInv'
<1>. SUFFICES ASSUME TypeInv, ByteInv, [Next]_vars PROVE ByteInv' OBVIOUS
<1>1. CASE \E m \in Migration, s, d \in Profile : CreateMigration(m, s, d) BY <1>1, BytesCreate
<1>2. CASE \E c \in Copier : Load(c) \/ Check(c) \/ Copy(c) \/ Put(c) \/ Finish(c)
  BY <1>2, Moves, BytesMove
<1>3. CASE \E c \in Copier : Commit(c) BY <1>3, BytesCommit
<1>4. CASE QuietStep /\ ~ \E m \in Migration, s, d \in Profile : CreateMigration(m, s, d)
  <2>1. StepOk BY <1>4, StepsOk
  <2>2. ASSUME NEW m \in Migration, AllDone(m) PROVE \A o \in Object : Placed(m, o)
    BY <2>2 DEF AllDone, Left, ByteInv, Progress, Placed
  <2>. QED BY <1>4, <2>1, <2>2, QuietBytes DEF QuietStep
<1>5. CASE UNCHANGED vars
  <2>1. QuietStep BY <1>5 DEF vars, QuietStep
  <2>. QED BY <1>1, <1>4, <2>1
<1>. QED BY <1>1, <1>2, <1>3, <1>4, <1>5, AdministratorQuiet, DispatcherQuiet, CopierQuiet, ExpiresQuiet
  DEF Next, CopierStep

LEMMA BytesInit == Init => ByteInv
<1>. SUFFICES ASSUME Init PROVE ByteInv OBVIOUS
<1>1. BytesOk BY MigrationAssumption DEF Init, BytesOk, Original
<1>2. \A c \in Copier : CopierOk(copier[c]) BY IdleCopierOk DEF Init, CopierOk
<1>3. Progress BY NewRows, IdleRows DEF Init, Progress, Placed, Done
<1>. QED BY <1>1, <1>2, <1>3 DEF ByteInv

LEMMA ByteInvariance == Spec => [](TypeInv /\ ByteInv)
<1>1. Init => TypeInv /\ ByteInv BY TypeInit, BytesInit
<1>2. TypeInv /\ ByteInv /\ [Next]_vars => (TypeInv /\ ByteInv)' BY TypeStep, BytesStep
<1>. QED BY <1>1, <1>2, PTL DEF Spec

\* A placement that a migration recorded (CompleteMigrationWork) holds the bytes whose digest
\* the object was stored with (handleMigration's comparison before its Put, queue.go), for any
\* damaged replicas, any number of copiers of the same object at once, aborted tasks and leases
\* that end early: whoever stores outside an object's homes stores what passed the comparison.
THEOREM CopiesAreVerified == Spec => []VerifiedCopy
<1>1. ByteInv /\ TypeInv => VerifiedCopy
  BY MigrationAssumption DEF ByteInv, BytesOk, VerifiedCopy
<1>. QED BY <1>1, ByteInvariance, PTL

\* A completed migration has a placement with bytes on its destination for every object it
\* snapshotted, whichever of the two statements completed it (the last one of a resume or of
\* CompleteMigrationWork, which does not see what others are about to commit), and although a
\* task given back late may reopen an item that is done.
THEOREM CompletedMeansPlaced == Spec => []CompletedIsPlaced
<1>1. ByteInv /\ TypeInv => CompletedIsPlaced
  BY DEF ByteInv, BytesOk, Progress, Placed, CompletedIsPlaced
<1>. QED BY <1>1, ByteInvariance, PTL

-----------------------------------------------------------------------------
(* Leases and attempts.                                                    *)

Over(m) == migration[m].state \in {"canceled", "completed"}

\* Nothing is claimed for a migration that is over, and it stays over.
OverKept ==
  \A m \in Migration : Over(m) =>
    /\ Over(m)'
    /\ \A o \in Object : item'[m][o].attempts = item[m][o].attempts

NoNewLease == \A m \in Migration, o \in Object : Leased(m, o)' => Leased(m, o)

LEMMA WrittenLeases ==
  ASSUME TypeInv, NEW m \in Migration, NEW o \in Object, NEW s, NEW l,
         ItemWritten(m, o, s, l), l # "held"
  PROVE  /\ NoNewLease
         /\ \A x \in Migration, y \in Object : item'[x][y].attempts = item[x][y].attempts
<1>1. ASSUME NEW x \in Migration, NEW y \in Object
      PROVE  item'[x][y].attempts = item[x][y].attempts /\ (Leased(x, y)' => Leased(x, y))
  <2>1. CASE x = m /\ y = o BY <2>1 DEF ItemWritten, Leased
  <2>2. CASE x # m \/ y # o BY <2>2 DEF ItemWritten, Leased
  <2>. QED BY <2>1, <2>2
<1>. QED BY <1>1 DEF NoNewLease

LEMMA SameLeases == item' = item => NoNewLease
BY DEF NoNewLease, Leased

LEMMA CreateLeases ==
  ASSUME TypeInv, NEW m \in Migration, NEW s \in Profile, NEW d \in Profile, CreateMigration(m, s, d)
  PROVE  NoNewLease /\ OverKept
<1>1. Created(m, s, d) BY CreateWrites
<1>2. \A o \in Object : item'[m][o].lease = None BY <1>1, NewRows DEF Created
<1>3. None # "held" BY MigrationAssumption
<1>4. NoNewLease BY <1>1, <1>2, <1>3 DEF Created, NoNewLease, Leased
<1>5. OverKept BY <1>1 DEF Created, OverKept, Over
<1>. QED BY <1>4, <1>5

LEMMA AdministratorLeases ==
  ASSUME TypeInv,
         \/ \E a \in Operator, m \in Migration : ResumeMigration(a, m)
         \/ \E a \in Operator : ResumeItems(a) \/ ResumeSettle(a) \/ ResumePartial(a)
         \/ \E m \in Migration : PauseMigration(m) \/ CancelMigration(m)
  PROVE  NoNewLease /\ OverKept
<1>1. CASE \E a \in Operator, m \in Migration : ResumeMigration(a, m)
  <2>1. PICK a \in Operator, m \in Migration : ResumeMigration(a, m) BY <1>1
  <2>2. StateWritten(m, "running") /\ ~Over(m)
    BY <2>1, SetStateWrites DEF TypeInv, State, ResumeMigration, Over
  <2>. QED BY <2>1, <2>2, SameLeases DEF ResumeMigration, StateWritten, OverKept, Over
<1>2. CASE \E a \in Operator : ResumeItems(a)
  <2>1. PICK a \in Operator : ResumeItems(a) BY <1>2
  <2>2. \A m \in Migration, o \in Object :
          /\ item'[m][o].attempts = item[m][o].attempts
          /\ item'[m][o] = item[m][o] \/ item'[m][o].state = "pending"
    <3>1. TypeOK /\ operator[a].m \in Migration
      BY <2>1, OperatorNow DEF TypeInv, ResumeItems, Busy
    <3>. QED BY <2>1, <3>1, ResumeItemsWrites
  <2>. QED BY <2>1, <2>2 DEF ResumeItems, NoNewLease, Leased, OverKept, Over
<1>3. CASE \E a \in Operator : ResumeSettle(a)
  <2>1. PICK a \in Operator : ResumeSettle(a) BY <1>3
  <2>2. item' = item BY <2>1 DEF ResumeSettle
  <2>3. CASE migration' = migration BY <2>2, <2>3, SameLeases DEF OverKept, Over
  <2>4. CASE SetState(operator[a].m, "completed")
    <3>1. StateWritten(operator[a].m, "completed")
      BY <2>1, <2>4, OperatorNow, SetStateWrites DEF TypeInv, State, ResumeSettle, Busy
    <3>. QED BY <2>2, <3>1, SameLeases DEF OverKept, Over, StateWritten
  <2>. QED BY <2>1, <2>3, <2>4 DEF ResumeSettle
<1>4. CASE \/ \E a \in Operator : ResumePartial(a)
           \/ \E m \in Migration : PauseMigration(m)
  BY <1>4, SameLeases DEF ResumePartial, PauseMigration, OverKept, Over
<1>5. CASE \E m \in Migration : CancelMigration(m)
  <2>1. PICK m \in Migration : CancelMigration(m) BY <1>5
  <2>2. StateWritten(m, "canceled") BY <2>1, SetStateWrites DEF TypeInv, State, CancelMigration
  <2>. QED BY <2>1, <2>2, SameLeases DEF CancelMigration, StateWritten, OverKept, Over
<1>. QED BY <1>1, <1>2, <1>3, <1>4, <1>5

LEMMA ReleaseLeases ==
  ASSUME TypeInv, NEW x, Known(x), NEW retry \in BOOLEAN, Release(x.m, x.o, retry)
  PROVE  NoNewLease /\ OverKept
<1>1. /\ ItemWritten(x.m, x.o, IF retry THEN "pending" ELSE "failed", None)
      /\ migration' = migration \/ (StateWritten(x.m, "failed") /\ Running(x.m))
      /\ x.m \in Migration /\ x.o \in Object
  BY ReleaseWrites DEF Known, TypeInv
<1>2. None # "held" BY MigrationAssumption
<1>3. NoNewLease /\ \A m \in Migration, y \in Object : item'[m][y].attempts = item[m][y].attempts
  BY <1>1, <1>2, WrittenLeases
<1>4. \A m \in Migration : Over(m) => Over(m)' BY <1>1 DEF Over, StateWritten, Running
<1>. QED BY <1>3, <1>4 DEF OverKept

\* The dispatcher's claim is the only one, and of a running migration.
LEMMA ClaimLeases ==
  ASSUME TypeInv, NEW d \in Dispatcher, ClaimMigrationWork(d)
  PROVE  /\ OverKept
         /\ \/ NoNewLease /\ dispatcher' = dispatcher
            \/ \E m \in Migration, o \in Object : Claimed(d, m, o)
<1>1. \A m \in Migration, o \in Object :
        Reset[m][o].attempts = item[m][o].attempts /\ (Reset[m][o] = item[m][o] \/ Reset[m][o].state = "pending")
  BY ResetRows DEF TypeInv
<1>2. migration' = migration BY DEF ClaimMigrationWork
<1>3. CASE item' = Reset /\ dispatcher' = dispatcher
  BY <1>1, <1>2, <1>3 DEF NoNewLease, Leased, OverKept, Over
<1>4. ASSUME NEW m \in Migration, NEW o \in Object, Claimed(d, m, o) PROVE OverKept
  BY <1>1, <1>2, <1>4 DEF Claimed, OverKept, Over, Running
<1>. QED BY <1>3, <1>4, ClaimWrites DEF TypeInv

LEMMA DispatcherLeases ==
  ASSUME TypeInv, NEW d \in Dispatcher,
         EnqueueMigration(d) \/ DispatcherRelease(d) \/ DispatcherDies(d)
  PROVE  NoNewLease /\ OverKept
<1>1. CASE EnqueueMigration(d) \/ DispatcherDies(d)
  BY <1>1, SameLeases DEF EnqueueMigration, DispatcherDies, OverKept, Over
<1>2. CASE DispatcherRelease(d)
  <2>1. Known(dispatcher[d]) BY <1>2 DEF DispatcherRelease, TypeInv, References
  <2>. QED BY <1>2, <2>1, ReleaseLeases DEF DispatcherRelease
<1>. QED BY <1>1, <1>2

LEMMA CopierLeases ==
  ASSUME TypeInv, NEW c \in Copier,
         Start(c) \/ CopierStep(c) \/ CopierDies(c) \/ CopierAborted(c)
  PROVE  NoNewLease /\ OverKept
<1>1. CASE Start(c) \/ CopierDies(c) \/ CopierAborted(c)
  BY <1>1, SameLeases DEF Start, CopierDies, CopierAborted, OverKept, Over
<1>2. CASE Load(c) \/ Check(c) \/ Copy(c) \/ Put(c) \/ Finish(c)
  BY <1>2, SameLeases DEF Load, Check, Copy, Put, Finish, OverKept, Over
<1>3. CASE GiveBack(c) \/ FailMigration(c)
  <2>1. PICK retry \in BOOLEAN : Release(copier[c].m, copier[c].o, retry) /\ Busy(copier[c])
    BY <1>3 DEF GiveBack, FailMigration, At, Busy
  <2>. QED BY <2>1, CopierNow, ReleaseLeases
<1>4. CASE Commit(c)
  <2>1. PICK m \in Migration, o \in Object : Committed(c, m, o) BY <1>4, CommitWrites
  <2>2. PICK s \in Done : ItemWritten(m, o, s, None) BY <2>1 DEF Committed
  <2>3. None # "held" BY MigrationAssumption
  <2>4. NoNewLease /\ \A x \in Migration, y \in Object : item'[x][y].attempts = item[x][y].attempts
    BY <2>2, <2>3, WrittenLeases
  <2>5. \A x \in Migration : Over(x) => Over(x)' BY <2>1 DEF Committed, Over, StateWritten
  <2>. QED BY <2>4, <2>5 DEF OverKept
<1>. QED BY <1>1, <1>2, <1>3, <1>4 DEF CopierStep

LEMMA ExpiresLeases ==
  ASSUME TypeInv, NEW m \in Migration, NEW o \in Object, LeaseExpires(m, o)
  PROVE  NoNewLease /\ OverKept
<1>1. ItemWritten(m, o, item[m][o].state, "expired") /\ migration' = migration
  BY ItemSetLease DEF LeaseExpires, TypeInv
<1>. QED BY <1>1, WrittenLeases DEF OverKept, Over

\* Every step but a claim only ends leases.
LEMMA LeaseStep ==
  ASSUME TypeInv, [Next]_vars
  PROVE  /\ OverKept
         /\ \/ NoNewLease
            \/ \E d \in Dispatcher, m \in Migration, o \in Object :
                 ClaimMigrationWork(d) /\ Claimed(d, m, o)
<1>1. CASE UNCHANGED vars BY <1>1, SameLeases DEF vars, OverKept, Over
<1>. QED BY <1>1, CreateLeases, AdministratorLeases, ClaimLeases, DispatcherLeases, CopierLeases, ExpiresLeases
  DEF Next

\* "Cancel stops dispatch permanently" (README.md:401): from a migration that is canceled or
\* completed no dispatcher claims an item again, and it never gets into a third state, even when a
\* resume was half way or a task is given back late.  That it stays canceled is not so: the last
\* statement of ResumeMigration tests no state (internal/storagecontrol/repository.go:588) and may
\* turn canceled into completed.
THEOREM EndedIsNotDispatched == Spec => CancelStopsDispatch
<1>1. TypeInv /\ [Next]_vars =>
        [\A m \in Migration : migration[m].state \in {"canceled", "completed"} =>
           /\ migration'[m].state \in {"canceled", "completed"}
           /\ \A o \in Object : item'[m][o].attempts = item[m][o].attempts]_vars
  BY LeaseStep DEF OverKept, Over
<1>. QED BY <1>1, TypeInvariance, PTL DEF Spec, CancelStopsDispatch

-----------------------------------------------------------------------------
(* Leases to one profile.                                                  *)

LEMMA DestinationKept ==
  ASSUME TypeInv, [Next]_vars, NEW m \in Migration, migration[m].state # "none"
  PROVE  /\ migration'[m].destination = migration[m].destination
         /\ migration'[m].state # "none"
<1>1. CASE \E x \in Migration, s, d \in Profile : CreateMigration(x, s, d)
  BY <1>1, CreateWrites DEF Created
<1>2. CASE ~ \E x \in Migration, s, d \in Profile : CreateMigration(x, s, d)
  BY <1>2, StepsOk DEF StepOk, Kept
<1>. QED BY <1>1, <1>2

LEMMA OneMore ==
  ASSUME NEW S, NEW x, IsFiniteSet(S)
  PROVE  IsFiniteSet(S \cup {x}) /\ Cardinality(S \cup {x}) <= Cardinality(S) + 1
<1>1. Cardinality(S) \in Nat BY FS_CardinalityType
<1>2. /\ IsFiniteSet(S \cup {x})
      /\ Cardinality(S \cup {x}) = IF x \in S THEN Cardinality(S) ELSE Cardinality(S) + 1
  BY FS_AddElement
<1>. QED BY <1>1, <1>2

LEMMA LimitStep == TypeInv /\ WithinLimit /\ [Next]_vars => WithinLimit'
<1>. SUFFICES ASSUME TypeInv, WithinLimit, [Next]_vars, NEW p \in Profile
              PROVE  IsFiniteSet(HeldTo(p)') /\ Cardinality(HeldTo(p)') <= Limit[p]
  BY DEF WithinLimit
<1>0. /\ IsFiniteSet(HeldTo(p)) /\ Cardinality(HeldTo(p)) <= Limit[p]
      /\ Limit[p] \in Nat
  BY MigrationAssumption DEF WithinLimit
<1>1. \A m \in Migration, o \in Object :
        Leased(m, o) => migration'[m].destination = migration[m].destination
  BY DestinationKept DEF Leased, TypeInv, References
<1>2. ASSUME NEW S, IsFiniteSet(S), Cardinality(S) <= Limit[p], HeldTo(p)' \subseteq S
      PROVE  IsFiniteSet(HeldTo(p)') /\ Cardinality(HeldTo(p)') <= Limit[p]
  <2>1. /\ IsFiniteSet(HeldTo(p)') /\ Cardinality(HeldTo(p)') <= Cardinality(S)
    BY <1>2, FS_Subset
  <2>2. Cardinality(HeldTo(p)') \in Nat /\ Cardinality(S) \in Nat
    BY <1>2, <2>1, FS_CardinalityType
  <2>. QED BY <1>0, <1>2, <2>1, <2>2
<1>3. CASE NoNewLease
  <2>1. HeldTo(p)' \subseteq HeldTo(p) BY <1>1, <1>3 DEF HeldTo, NoNewLease
  <2>. QED BY <1>0, <1>2, <2>1
<1>4. ASSUME NEW d \in Dispatcher, NEW m \in Migration, NEW o \in Object,
             ClaimMigrationWork(d), Claimed(d, m, o)
      PROVE  IsFiniteSet(HeldTo(p)') /\ Cardinality(HeldTo(p)') <= Limit[p]
  <2>0. migration' = migration BY <1>4 DEF ClaimMigrationWork
  <2>1. ASSUME NEW x \in Migration, NEW y \in Object, x # m \/ y # o, Leased(x, y)'
        PROVE  Leased(x, y)
    <3>1. item'[x][y] = Reset[x][y] BY <1>4, <2>1 DEF Claimed
    <3>. QED BY <2>1, <3>1, ResetRows DEF Leased, TypeInv
  <2>2. CASE migration[m].destination # p
    <3>1. HeldTo(p)' \subseteq HeldTo(p) BY <2>0, <2>1, <2>2 DEF HeldTo
    <3>. QED BY <1>0, <1>2, <3>1
  <2>3. CASE migration[m].destination = p
    <3>. DEFINE S == HeldTo(p) \cup {<<m, o>>}
    <3>1. HeldTo(p)' \subseteq S BY <2>0, <2>1 DEF HeldTo
    <3>2. Cardinality(HeldTo(p)) < Limit[p]
      BY <1>4, <2>3 DEF Claimed, BelowLimit, HeldTo, Leased
    <3>3. Cardinality(HeldTo(p)) \in Nat BY <1>0, FS_CardinalityType
    <3>4. IsFiniteSet(S) /\ Cardinality(S) <= Cardinality(HeldTo(p)) + 1 BY <1>0, OneMore
    <3>5. Cardinality(S) \in Nat BY <3>4, FS_CardinalityType
    <3>. HIDE DEF S
    <3>6. Cardinality(S) <= Limit[p] BY <1>0, <3>2, <3>3, <3>4, <3>5
    <3>. QED BY <1>2, <3>1, <3>4, <3>6
  <2>. QED BY <2>2, <2>3
<1>. QED BY <1>3, <1>4, LeaseStep

LEMMA LimitInit == Init => WithinLimit
<1>. SUFFICES ASSUME Init, NEW p \in Profile
              PROVE  IsFiniteSet(HeldTo(p)) /\ Cardinality(HeldTo(p)) <= Limit[p]
  BY DEF WithinLimit
<1>1. HeldTo(p) = {} BY NewRows DEF Init, HeldTo, Leased
<1>. QED BY <1>1, FS_EmptySet, MigrationAssumption

-----------------------------------------------------------------------------
(* Faults only become fewer.                                               *)

WithinFaults == \A k \in Bounds : budget[k] <= Faults[k]

Fewer == \A k \in Bounds : budget'[k] <= budget[k]

LEMMA FewerStep == ASSUME TypeInv, [Next]_vars PROVE Fewer
<1>. USE DEF TypeInv
<1>0. budget' = budget => Fewer BY DEF Fewer, TypeOK
<1>1. (\E kind \in FaultKind : Spend(kind)) => Fewer BY SpendWrites DEF Fewer
<1>2. SpendOne("resume") \/ SpendOne("pause") => Fewer BY SpendOneWrites DEF Fewer, Bounds
<1>3. CASE UNCHANGED vars BY <1>0, <1>3 DEF vars
<1>4. CASE \/ \E m \in Migration, s, d \in Profile : CreateMigration(m, s, d)
           \/ \E a \in Operator : ResumeItems(a) \/ ResumeSettle(a)
           \/ \E m \in Migration : CancelMigration(m)
           \/ \E d \in Dispatcher : ClaimMigrationWork(d) \/ DispatcherRelease(d)
           \/ \E c \in Copier : Start(c) \/ CopierStep(c)
  BY <1>0, <1>4 DEF CreateMigration, ResumeItems, ResumeSettle, CancelMigration, ClaimMigrationWork,
     DispatcherRelease, Start, CopierStep, Load, GiveBack, Check, Copy, Put, Finish, Commit, FailMigration
<1>5. CASE \/ \E a \in Operator, m \in Migration : ResumeMigration(a, m)
           \/ \E m \in Migration : PauseMigration(m)
  BY <1>2, <1>5 DEF ResumeMigration, PauseMigration
<1>6. CASE \/ \E a \in Operator : ResumePartial(a)
           \/ \E d \in Dispatcher : EnqueueMigration(d) \/ DispatcherDies(d)
           \/ \E c \in Copier : CopierDies(c) \/ CopierAborted(c)
           \/ \E m \in Migration, o \in Object : LeaseExpires(m, o)
  BY <1>0, <1>1, <1>6 DEF ResumePartial, EnqueueMigration, DispatcherDies, CopierDies, CopierAborted,
     LeaseExpires, FaultKind
<1>. QED BY <1>3, <1>4, <1>5, <1>6 DEF Next

LEMMA FaultsStep == TypeInv /\ WithinFaults /\ [Next]_vars => WithinFaults'
<1>. SUFFICES ASSUME TypeInv, WithinFaults, [Next]_vars PROVE WithinFaults' OBVIOUS
<1>1. Fewer BY FewerStep
<1>2. budget' \in [Bounds -> Nat] BY TypeStep DEF TypeInv, TypeOK
<1>3. budget \in [Bounds -> Nat] /\ Faults \in [Bounds -> Nat] BY MigrationAssumption DEF TypeInv, TypeOK
<1>. QED BY <1>1, <1>2, <1>3 DEF WithinFaults, Fewer

\* A kind of fault that never happened did not happen in the last step either.
LEMMA StillUnspent ==
  ASSUME TypeInv, WithinFaults, [Next]_vars, NEW S, S \subseteq FaultKind, Unspent(S)'
  PROVE  Unspent(S) /\ \A kind \in S : ~Spend(kind)
<1>. SUFFICES ASSUME NEW kind \in S PROVE budget[kind] = Faults[kind] /\ ~Spend(kind) BY DEF Unspent
<1>0. kind \in FaultKind /\ kind \in Bounds BY DEF Bounds
<1>1. /\ budget[kind] \in Nat /\ budget'[kind] \in Nat
  BY <1>0, TypeStep DEF TypeInv, TypeOK
<1>2. budget'[kind] = Faults[kind] BY DEF Unspent
<1>3. budget'[kind] <= budget[kind] /\ budget[kind] <= Faults[kind]
  BY <1>0, FewerStep DEF WithinFaults, Fewer
<1>4. budget[kind] = Faults[kind] BY <1>1, <1>2, <1>3
<1>5. Spend(kind) => budget'[kind] < budget[kind] BY <1>0, SpendWrites DEF TypeInv
<1>. QED BY <1>1, <1>2, <1>4, <1>5

-----------------------------------------------------------------------------
(* One holder for each claim.                                              *)

LeasedNext(x) == item'[x.m][x.o].state = "running" /\ item'[x.m][x.o].lease = "held"

\* Everyone who is still busy was busy with the same item, and its lease goes on.
Leaving ==
  /\ \A d \in Dispatcher : Busy(dispatcher'[d]) =>
       Busy(dispatcher[d]) /\ Same(dispatcher'[d], dispatcher[d]) /\ LeasedNext(dispatcher[d])
  /\ \A t \in queue' : t \in queue /\ LeasedNext(t)
  /\ \A c \in Copier : Busy(copier'[c]) =>
       Busy(copier[c]) /\ Same(copier'[c], copier[c]) /\ LeasedNext(copier[c])

LEMMA LeavingExclusive == ASSUME Exclusive, Leaving PROVE Exclusive'
<1>1. \A d \in Dispatcher : Busy(dispatcher'[d]) => Leased(dispatcher[d].m, dispatcher[d].o)'
  BY DEF Leaving, Leased, LeasedNext, Same
<1>2. \A t \in queue' : Leased(t.m, t.o)' BY DEF Leaving, Leased, LeasedNext
<1>3. \A c \in Copier : Busy(copier'[c]) => Leased(copier[c].m, copier[c].o)'
  BY DEF Leaving, Leased, LeasedNext, Same
<1>4. \A d, e \in Dispatcher :
        Busy(dispatcher'[d]) /\ Busy(dispatcher'[e]) /\ Same(dispatcher'[d], dispatcher'[e]) => d = e
  BY DEF Leaving, Exclusive, Same
<1>5. \A t, u \in queue' : Same(t, u) => t = u BY DEF Leaving, Exclusive
<1>6. \A b, c \in Copier : Busy(copier'[b]) /\ Busy(copier'[c]) /\ Same(copier'[b], copier'[c]) => b = c
  BY DEF Leaving, Exclusive, Same
<1>7. \A d \in Dispatcher, t \in queue' : Busy(dispatcher'[d]) => ~Same(dispatcher'[d], t)
  BY DEF Leaving, Exclusive, Same
<1>8. \A d \in Dispatcher, c \in Copier :
        Busy(dispatcher'[d]) /\ Busy(copier'[c]) => ~Same(dispatcher'[d], copier'[c])
  BY DEF Leaving, Exclusive, Same
<1>9. \A t \in queue', c \in Copier : Busy(copier'[c]) => ~Same(t, copier'[c])
  BY DEF Leaving, Exclusive, Same
<1>. QED BY <1>1, <1>2, <1>3, <1>4, <1>5, <1>6, <1>7, <1>8, <1>9 DEF Exclusive, Busy, Same

LEMMA Holders ==
  ASSUME TypeInv, Exclusive
  PROVE  /\ \A d \in Dispatcher : Busy(dispatcher[d]) =>
              Known(dispatcher[d]) /\ Leased(dispatcher[d].m, dispatcher[d].o)
         /\ \A t \in queue : Known(t) /\ Leased(t.m, t.o)
         /\ \A c \in Copier : Busy(copier[c]) =>
              Known(copier[c]) /\ Leased(copier[c].m, copier[c].o)
BY DEF TypeInv, References, Exclusive, Busy

\* Nobody gets anything new, and no lease that is held ends.
LEMMA NothingEnds ==
  ASSUME TypeInv, Exclusive,
         \A m \in Migration, o \in Object :
           item[m][o].state # "none" /\ Leased(m, o) => item'[m][o] = item[m][o],
         queue' \subseteq queue,
         \A d \in Dispatcher : dispatcher'[d] \in {dispatcher[d], IdleDispatcher},
         \A c \in Copier : \/ copier'[c] \in {copier[c], IdleCopier}
                           \/ Busy(copier[c]) /\ Same(copier'[c], copier[c])
  PROVE  Exclusive'
<1>1. \A x : Known(x) /\ Leased(x.m, x.o) => LeasedNext(x) BY DEF Known, Leased, LeasedNext
<1>2. Leaving BY <1>1, Holders, IdleRows DEF Leaving, Busy, Same
<1>. QED BY <1>2, LeavingExclusive

\* The holder of an item writes it and is done with it.
LEMMA HolderWrites ==
  ASSUME TypeInv, Exclusive, NEW m \in Migration, NEW o \in Object, NEW s, NEW l,
         ItemWritten(m, o, s, l), queue' = queue,
         \/ \E d \in Dispatcher : /\ Busy(dispatcher[d]) /\ dispatcher[d].m = m /\ dispatcher[d].o = o
                                 /\ dispatcher' = [dispatcher EXCEPT ![d] = IdleDispatcher]
                                 /\ copier' = copier
         \/ \E c \in Copier : /\ Busy(copier[c]) /\ copier[c].m = m /\ copier[c].o = o
                              /\ copier' = [copier EXCEPT ![c] = IdleCopier]
                              /\ dispatcher' = dispatcher
  PROVE  Exclusive'
<1>1. \A x : Known(x) /\ Leased(x.m, x.o) /\ (x.m # m \/ x.o # o) => LeasedNext(x)
  BY DEF Known, Leased, LeasedNext, ItemWritten
<1>2. CASE \E d \in Dispatcher :
             /\ Busy(dispatcher[d]) /\ dispatcher[d].m = m /\ dispatcher[d].o = o
             /\ dispatcher' = [dispatcher EXCEPT ![d] = IdleDispatcher]
             /\ copier' = copier
  <2>1. PICK d \in Dispatcher : /\ Busy(dispatcher[d]) /\ dispatcher[d].m = m /\ dispatcher[d].o = o
                                /\ dispatcher' = [dispatcher EXCEPT ![d] = IdleDispatcher]
                                /\ copier' = copier
    BY <1>2
  <2>2. /\ dispatcher'[d] = IdleDispatcher
        /\ \A e \in Dispatcher \ {d} : dispatcher'[e] = dispatcher[e]
    BY <2>1, TypesNow DEF TypeInv
  <2>3. \A e \in Dispatcher \ {d} : Busy(dispatcher[e]) => LeasedNext(dispatcher[e])
    BY <1>1, <2>1, Holders DEF Exclusive, Same
  <2>4. \A t \in queue : LeasedNext(t) BY <1>1, <2>1, Holders DEF Exclusive, Same
  <2>5. \A c \in Copier : Busy(copier[c]) => LeasedNext(copier[c])
    BY <1>1, <2>1, Holders DEF Exclusive, Same
  <2>6. Leaving BY <2>1, <2>2, <2>3, <2>4, <2>5, IdleRows DEF Leaving, Busy, Same
  <2>. QED BY <2>6, LeavingExclusive
<1>3. CASE \E c \in Copier :
             /\ Busy(copier[c]) /\ copier[c].m = m /\ copier[c].o = o
             /\ copier' = [copier EXCEPT ![c] = IdleCopier]
             /\ dispatcher' = dispatcher
  <2>1. PICK c \in Copier : /\ Busy(copier[c]) /\ copier[c].m = m /\ copier[c].o = o
                            /\ copier' = [copier EXCEPT ![c] = IdleCopier]
                            /\ dispatcher' = dispatcher
    BY <1>3
  <2>2. copier'[c] = IdleCopier /\ \A b \in Copier \ {c} : copier'[b] = copier[b]
    BY <2>1, TypesNow DEF TypeInv
  <2>3. \A d \in Dispatcher : Busy(dispatcher[d]) => LeasedNext(dispatcher[d])
    BY <1>1, <2>1, Holders DEF Exclusive, Same
  <2>4. \A t \in queue : LeasedNext(t) BY <1>1, <2>1, Holders DEF Exclusive, Same
  <2>5. \A b \in Copier \ {c} : Busy(copier[b]) => LeasedNext(copier[b])
    BY <1>1, <2>1, Holders DEF Exclusive, Same
  <2>6. Leaving BY <2>1, <2>2, <2>3, <2>4, <2>5, IdleRows DEF Leaving, Busy, Same
  <2>. QED BY <2>6, LeavingExclusive
<1>. QED BY <1>2, <1>3

LEMMA ExclusiveCreate ==
  ASSUME TypeInv, Exclusive,
         NEW m \in Migration, NEW s \in Profile, NEW d \in Profile, CreateMigration(m, s, d)
  PROVE  Exclusive'
<1>1. Created(m, s, d) BY CreateWrites
<1>2. \A o \in Object : item[m][o].state = "none" BY <1>1 DEF Created, TypeInv, References
<1>3. \A x \in Migration, o \in Object : item[x][o].state # "none" => item'[x][o] = item[x][o]
  BY <1>1, <1>2 DEF Created
<1>. QED BY <1>1, <1>3, NothingEnds DEF Created

LEMMA ExclusiveAdministrator ==
  ASSUME TypeInv, Exclusive,
         \/ \E a \in Operator, m \in Migration : ResumeMigration(a, m)
         \/ \E a \in Operator : ResumeItems(a) \/ ResumeSettle(a) \/ ResumePartial(a)
         \/ \E m \in Migration : PauseMigration(m) \/ CancelMigration(m)
  PROVE  Exclusive'
<1>1. UNCHANGED <<queue, dispatcher, copier>>
  BY DEF ResumeMigration, ResumeItems, ResumeSettle, ResumePartial, PauseMigration, CancelMigration
<1>2. CASE \E a \in Operator : ResumeItems(a)
  <2>1. PICK a \in Operator : ResumeItems(a) BY <1>2
  <2>2. operator[a].m \in Migration BY <2>1, OperatorNow DEF ResumeItems, Busy
  <2>3. \A m \in Migration, o \in Object : item'[m][o] = item[m][o] \/ item[m][o].state = "failed"
    BY <2>1, <2>2, ResumeItemsWrites DEF TypeInv
  <2>. QED BY <1>1, <2>3, NothingEnds DEF Leased
<1>3. CASE ~ \E a \in Operator : ResumeItems(a)
  <2>1. item' = item
    BY <1>3 DEF ResumeMigration, ResumeSettle, ResumePartial, PauseMigration, CancelMigration
  <2>. QED BY <1>1, <2>1, NothingEnds
<1>. QED BY <1>2, <1>3

LEMMA ExclusiveClaim ==
  ASSUME TypeInv, Exclusive, NEW d \in Dispatcher, ClaimMigrationWork(d) PROVE Exclusive'
<1>1. \A m \in Migration, o \in Object :
        Leased(m, o) => Reset[m][o] = item[m][o] /\ Reset[m][o].state # "pending"
  BY ResetRows DEF TypeInv, Leased, Expired
<1>2. UNCHANGED <<queue, copier>> BY DEF ClaimMigrationWork
<1>3. CASE item' = Reset /\ dispatcher' = dispatcher BY <1>1, <1>2, <1>3, NothingEnds
<1>4. ASSUME NEW m \in Migration, NEW o \in Object, Claimed(d, m, o) PROVE Exclusive'
  <2>1. PICK k \in DispatcherRow : /\ dispatcher' = [dispatcher EXCEPT ![d] = k]
                                   /\ k.pc = "enqueue" /\ k.m = m /\ k.o = o
    BY <1>4 DEF Claimed
  <2>2. dispatcher'[d] = k /\ \A e \in Dispatcher \ {d} : dispatcher'[e] = dispatcher[e]
    BY <2>1, TypesNow DEF TypeInv
  <2>3. ~Leased(m, o) /\ item'[m][o].state = "running" /\ item'[m][o].lease = "held"
    BY <1>1, <1>4 DEF Claimed
  <2>4. ASSUME NEW x, Known(x), Leased(x.m, x.o) PROVE LeasedNext(x) /\ ~(x.m = m /\ x.o = o)
    <3>1. x.m \in Migration /\ x.o \in Object /\ (x.m # m \/ x.o # o) BY <2>3, <2>4 DEF Known
    <3>2. item'[x.m][x.o] = item[x.m][x.o] BY <1>1, <1>4, <2>4, <3>1 DEF Claimed
    <3>. QED BY <2>4, <3>1, <3>2 DEF LeasedNext, Leased
  <2>5. ~Busy(dispatcher[d]) BY <1>4, IdleRows DEF Claimed, Busy
  <2>6. \A e \in Dispatcher : Busy(dispatcher'[e]) =>
          /\ LeasedNext(dispatcher'[e])
          /\ e # d => /\ dispatcher'[e] = dispatcher[e] /\ Busy(dispatcher[e])
                      /\ ~(dispatcher[e].m = m /\ dispatcher[e].o = o)
    BY <2>1, <2>2, <2>3, <2>4, Holders DEF LeasedNext
  <2>7. \A t \in queue : LeasedNext(t) /\ ~(t.m = m /\ t.o = o) BY <2>4, Holders
  <2>8. \A c \in Copier : Busy(copier[c]) =>
          LeasedNext(copier[c]) /\ ~(copier[c].m = m /\ copier[c].o = o)
    BY <2>4, Holders
  <2>9. /\ \A e \in Dispatcher : Busy(dispatcher'[e]) => Leased(dispatcher[e].m, dispatcher[e].o)'
        /\ \A t \in queue' : Leased(t.m, t.o)'
        /\ \A c \in Copier : Busy(copier'[c]) => Leased(copier[c].m, copier[c].o)'
    BY <1>2, <2>6, <2>7, <2>8 DEF Leased, LeasedNext
  <2>10. \A e, f \in Dispatcher :
          Busy(dispatcher'[e]) /\ Busy(dispatcher'[f]) /\ Same(dispatcher'[e], dispatcher'[f]) => e = f
    BY <2>1, <2>2, <2>6 DEF Exclusive, Same
  <2>11. /\ \A e \in Dispatcher, t \in queue' : Busy(dispatcher'[e]) => ~Same(dispatcher'[e], t)
         /\ \A e \in Dispatcher, c \in Copier :
              Busy(dispatcher'[e]) /\ Busy(copier'[c]) => ~Same(dispatcher'[e], copier'[c])
    BY <1>2, <2>1, <2>2, <2>6, <2>7, <2>8 DEF Exclusive, Same
  <2>12. /\ \A t, u \in queue' : Same(t, u) => t = u
         /\ \A b, c \in Copier : Busy(copier'[b]) /\ Busy(copier'[c]) /\ Same(copier'[b], copier'[c]) => b = c
         /\ \A t \in queue', c \in Copier : Busy(copier'[c]) => ~Same(t, copier'[c])
    BY <1>2 DEF Exclusive
  <2>. QED BY <2>9, <2>10, <2>11, <2>12 DEF Exclusive, Busy, Same
<1>. QED BY <1>3, <1>4, ClaimWrites DEF TypeInv

LEMMA ExclusiveEnqueue ==
  ASSUME TypeInv, Exclusive, NEW d \in Dispatcher, EnqueueMigration(d), ~Spend("redis")
  PROVE  Exclusive'
<1>. DEFINE x == dispatcher[d]
            t == [m |-> x.m, o |-> x.o, n |-> x.n]
<1>1. /\ x.pc = "enqueue" /\ queue' = queue \cup {t} /\ UNCHANGED <<item, copier>>
      /\ dispatcher' = [dispatcher EXCEPT ![d] = IdleDispatcher]
  BY DEF EnqueueMigration
<1>2. Busy(x) /\ Same(t, x) BY <1>1 DEF Busy, Same
<1>. HIDE DEF t
<1>3. /\ dispatcher'[d] = IdleDispatcher
      /\ \A e \in Dispatcher \ {d} : dispatcher'[e] = dispatcher[e]
  BY <1>1, TypesNow DEF TypeInv
<1>4. \A e \in Dispatcher : Busy(dispatcher'[e]) =>
        /\ e # d /\ dispatcher'[e] = dispatcher[e] /\ Busy(dispatcher[e]) /\ ~Same(dispatcher[e], t)
  BY <1>2, <1>3, IdleRows DEF Busy, Exclusive, Same
<1>5. \A u \in queue : ~Same(u, t) BY <1>2 DEF Exclusive, Same
<1>6. \A c \in Copier : Busy(copier[c]) => ~Same(t, copier[c]) BY <1>2 DEF Exclusive, Same
<1>7. Leased(t.m, t.o) BY <1>2 DEF Exclusive, Same, Leased
<1>8. \A x1, y1 : Leased(x1, y1)' <=> Leased(x1, y1) BY <1>1 DEF Leased
<1>9. /\ \A e \in Dispatcher : Busy(dispatcher'[e]) => Leased(dispatcher[e].m, dispatcher[e].o)'
      /\ \A u \in queue' : Leased(u.m, u.o)'
      /\ \A c \in Copier : Busy(copier'[c]) => Leased(copier[c].m, copier[c].o)'
  BY <1>1, <1>4, <1>7 DEF Exclusive, Leased
<1>10. /\ \A e, f \in Dispatcher :
          Busy(dispatcher'[e]) /\ Busy(dispatcher'[f]) /\ Same(dispatcher'[e], dispatcher'[f]) => e = f
       /\ \A e \in Dispatcher, u \in queue' : Busy(dispatcher'[e]) => ~Same(dispatcher'[e], u)
       /\ \A e \in Dispatcher, c \in Copier :
            Busy(dispatcher'[e]) /\ Busy(copier'[c]) => ~Same(dispatcher'[e], copier'[c])
  BY <1>1, <1>4 DEF Exclusive
<1>11. /\ \A u, v \in queue' : Same(u, v) => u = v
       /\ \A b, c \in Copier : Busy(copier'[b]) /\ Busy(copier'[c]) /\ Same(copier'[b], copier'[c]) => b = c
       /\ \A u \in queue', c \in Copier : Busy(copier'[c]) => ~Same(u, copier'[c])
  BY <1>1, <1>5, <1>6 DEF Exclusive, Same
<1>. QED BY <1>9, <1>10, <1>11 DEF Exclusive, Busy, Same

LEMMA ExclusiveDispatcher ==
  ASSUME TypeInv, Exclusive, NEW d \in Dispatcher, DispatcherRelease(d) \/ DispatcherDies(d)
  PROVE  Exclusive'
<1>1. /\ dispatcher' = [dispatcher EXCEPT ![d] = IdleDispatcher] /\ UNCHANGED <<queue, copier>>
  BY DEF DispatcherRelease, DispatcherDies
<1>2. CASE DispatcherRelease(d)
  <2>1. Busy(dispatcher[d]) /\ Release(dispatcher[d].m, dispatcher[d].o, TRUE)
    BY <1>2 DEF DispatcherRelease, Busy
  <2>2. dispatcher[d].m \in Migration /\ dispatcher[d].o \in Object BY <2>1, Holders DEF Known
  <2>3. ItemWritten(dispatcher[d].m, dispatcher[d].o, "pending", None)
    BY <2>1, <2>2, ReleaseWrites DEF TypeInv
  <2>. QED BY <1>1, <2>1, <2>2, <2>3, HolderWrites
<1>3. CASE DispatcherDies(d)
  <2>1. \A e \in Dispatcher : dispatcher'[e] \in {dispatcher[e], IdleDispatcher}
    BY <1>1, TypesNow DEF TypeInv
  <2>2. item' = item BY <1>3 DEF DispatcherDies
  <2>. QED BY <1>1, <2>1, <2>2, NothingEnds
<1>. QED BY <1>2, <1>3

LEMMA ExclusiveStart ==
  ASSUME TypeInv, Exclusive, NEW c \in Copier, Start(c) PROVE Exclusive'
<1>1. PICK t \in queue, k \in CopierRow :
        /\ queue' = queue \ {t} /\ copier' = [copier EXCEPT ![c] = k]
        /\ k.pc = "load" /\ Same(k, t) /\ copier[c].pc = "idle"
  BY StartWrites
<1>2. UNCHANGED <<item, dispatcher>> BY DEF Start
<1>3. copier'[c] = k /\ \A b \in Copier \ {c} : copier'[b] = copier[b]
  BY <1>1, TypesNow DEF TypeInv
<1>4. /\ \A b \in Copier \ {c} : Busy(copier'[b]) =>
           copier'[b] = copier[b] /\ Busy(copier[b]) /\ ~Same(copier[b], k)
      /\ \A d \in Dispatcher : Busy(dispatcher[d]) => ~Same(dispatcher[d], k)
      /\ \A u \in queue' : u \in queue /\ ~Same(u, k)
  BY <1>1, <1>3 DEF Exclusive, Same
<1>5. /\ \A d \in Dispatcher : Busy(dispatcher'[d]) => Leased(dispatcher[d].m, dispatcher[d].o)'
      /\ \A u \in queue' : Leased(u.m, u.o)'
  BY <1>2, <1>4 DEF Exclusive, Leased
<1>6. \A b \in Copier : Busy(copier'[b]) => Leased(copier[b].m, copier[b].o)'
  <2>1. Leased(k.m, k.o) BY <1>1 DEF Exclusive, Same
  <2>2. \A b \in Copier : Busy(copier'[b]) => Leased(copier'[b].m, copier'[b].o)
    BY <1>3, <1>4, <2>1 DEF Exclusive
  <2>. QED BY <1>2, <2>2 DEF Leased
<1>7. /\ \A d, e \in Dispatcher :
          Busy(dispatcher'[d]) /\ Busy(dispatcher'[e]) /\ Same(dispatcher'[d], dispatcher'[e]) => d = e
      /\ \A t1, u \in queue' : Same(t1, u) => t1 = u
      /\ \A d \in Dispatcher, u \in queue' : Busy(dispatcher'[d]) => ~Same(dispatcher'[d], u)
  BY <1>2, <1>4 DEF Exclusive
<1>8. /\ \A a, b \in Copier : Busy(copier'[a]) /\ Busy(copier'[b]) /\ Same(copier'[a], copier'[b]) => a = b
      /\ \A d \in Dispatcher, b \in Copier :
           Busy(dispatcher'[d]) /\ Busy(copier'[b]) => ~Same(dispatcher'[d], copier'[b])
      /\ \A u \in queue', b \in Copier : Busy(copier'[b]) => ~Same(u, copier'[b])
  BY <1>2, <1>3, <1>4 DEF Exclusive, Same
<1>. QED BY <1>5, <1>6, <1>7, <1>8 DEF Exclusive, Busy, Same

LEMMA ExclusiveCopier ==
  ASSUME TypeInv, Exclusive, NEW c \in Copier, CopierStep(c) \/ CopierDies(c) PROVE Exclusive'
<1>1. CASE Load(c) \/ Check(c) \/ Copy(c) \/ Put(c) \/ Finish(c)
  <2>1. PICK k \in CopierRow : Move(c, k) BY <1>1, Moves
  <2>2. \A b \in Copier : copier'[b] = copier[b] \/ (Busy(copier[b]) /\ Same(copier'[b], copier[b]))
    BY <2>1, TypesNow DEF TypeInv, Move
  <2>3. UNCHANGED <<item, queue, dispatcher>> BY <2>1 DEF Move
  <2>. QED BY <2>2, <2>3, NothingEnds
<1>2. CASE GiveBack(c) \/ FailMigration(c)
  <2>1. PICK retry \in BOOLEAN :
          /\ Release(copier[c].m, copier[c].o, retry) /\ Busy(copier[c])
          /\ copier' = [copier EXCEPT ![c] = IdleCopier] /\ UNCHANGED <<queue, dispatcher>>
    BY <1>2 DEF GiveBack, FailMigration, At, Busy
  <2>2. copier[c].m \in Migration /\ copier[c].o \in Object BY <2>1, CopierNow
  <2>3. ItemWritten(copier[c].m, copier[c].o, IF retry THEN "pending" ELSE "failed", None)
    BY <2>1, <2>2, ReleaseWrites DEF TypeInv
  <2>. QED BY <2>1, <2>2, <2>3, HolderWrites
<1>3. CASE Commit(c)
  <2>1. PICK m \in Migration, o \in Object : Committed(c, m, o) BY <1>3, CommitWrites
  <2>2. PICK s \in Done : ItemWritten(m, o, s, None) BY <2>1 DEF Committed
  <2>3. Busy(copier[c]) BY <2>1 DEF Committed, Busy
  <2>. QED BY <2>1, <2>2, <2>3, HolderWrites DEF Committed
<1>4. CASE CopierDies(c)
  <2>1. copier' = [copier EXCEPT ![c] = IdleCopier] /\ UNCHANGED <<item, queue, dispatcher>>
    BY <1>4 DEF CopierDies
  <2>2. \A b \in Copier : copier'[b] \in {copier[b], IdleCopier} BY <2>1, CopierIdles
  <2>. QED BY <2>1, <2>2, NothingEnds
<1>. QED BY <1>1, <1>2, <1>3, <1>4 DEF CopierStep

\* A lease that nobody uses runs out.
LEMMA ExclusiveExpires ==
  ASSUME TypeInv, Exclusive, NEW m \in Migration, NEW o \in Object, LeaseExpires(m, o),
         ~Spend("early")
  PROVE  Exclusive'
<1>1. ItemWritten(m, o, item[m][o].state, "expired") BY ItemSetLease DEF LeaseExpires, TypeInv
<1>2. ~Attended(m, o) /\ UNCHANGED <<queue, dispatcher, copier>> BY DEF LeaseExpires
<1>3. \A x : Known(x) /\ Leased(x.m, x.o) /\ ~(x.m = m /\ x.o = o) => LeasedNext(x)
  BY <1>1 DEF Known, Leased, LeasedNext, ItemWritten
<1>4. Leaving BY <1>2, <1>3, Holders DEF Leaving, Attended, Same
<1>. QED BY <1>4, LeavingExclusive

LEMMA ExclusiveStep ==
  ASSUME TypeInv, Exclusive, [Next]_vars, ~Spend("early"), ~Spend("redis"), ~Spend("abort")
  PROVE  Exclusive'
<1>1. CASE UNCHANGED vars BY <1>1, NothingEnds DEF vars
<1>2. CASE Next
  BY <1>2, ExclusiveCreate, ExclusiveAdministrator, ExclusiveClaim, ExclusiveEnqueue,
     ExclusiveDispatcher, ExclusiveStart, ExclusiveCopier, ExclusiveExpires DEF Next, CopierAborted
<1>. QED BY <1>1, <1>2

LimitInv ==
  /\ TypeInv
  /\ WithinFaults
  /\ WithinLimit
  /\ LeasesLast => Exclusive

LEMMA LimitInvStep == LimitInv /\ [Next]_vars => LimitInv'
<1>. SUFFICES ASSUME LimitInv, [Next]_vars PROVE LimitInv' OBVIOUS
<1>1. TypeInv' /\ WithinFaults' /\ WithinLimit' BY TypeStep, FaultsStep, LimitStep DEF LimitInv
<1>2. ASSUME LeasesLast' PROVE Exclusive'
  <2>1. LeasesLast /\ ~Spend("early") /\ ~Spend("redis") /\ ~Spend("abort")
    BY <1>2, StillUnspent DEF LimitInv, LeasesLast, FaultKind
  <2>. QED BY <2>1, ExclusiveStep DEF LimitInv
<1>. QED BY <1>1, <1>2 DEF LimitInv

LEMMA LimitInvInit == Init => LimitInv
<1>. SUFFICES ASSUME Init PROVE LimitInv OBVIOUS
<1>1. Exclusive BY IdleRows DEF Init, Exclusive, Busy
<1>2. WithinFaults
  <2>1. budget = Faults /\ Faults \in [Bounds -> Nat] BY MigrationAssumption DEF Init
  <2>. QED BY <2>1 DEF WithinFaults
<1>. QED BY <1>1, <1>2, TypeInit, LimitInit DEF LimitInv

LEMMA LimitInvariance == Spec => []LimitInv
BY LimitInvInit, LimitInvStep, PTL DEF Spec

\* Each copier that moves data to the profile holds a lease of its own.
LEMMA TransferLeases ==
  ASSUME TypeInv, Exclusive, WithinLimit, NEW p \in Profile
  PROVE  LET moving == {c \in Copier : copier[c].pc \in {"copy", "put"}
                                       /\ migration[copier[c].m].destination = p}
         IN  IsFiniteSet(moving) /\ Cardinality(moving) <= Limit[p]
<1>. DEFINE moving == {c \in Copier : copier[c].pc \in {"copy", "put"}
                                      /\ migration[copier[c].m].destination = p}
            f == [c \in moving |-> <<copier[c].m, copier[c].o>>]
<1>1. \A c \in moving : /\ Busy(copier[c]) /\ copier[c].m \in Migration /\ copier[c].o \in Object
                        /\ migration[copier[c].m].destination = p
                        /\ Leased(copier[c].m, copier[c].o)
  BY Holders DEF Busy, Known
<1>2. \A c \in moving : f[c] \in HeldTo(p) BY <1>1 DEF HeldTo
<1>3. \A b, c \in moving : f[b] = f[c] => b = c BY <1>1 DEF Exclusive, Same
<1>4. f \in Injection(moving, HeldTo(p))
  <2>. HIDE DEF moving
  <2>1. f \in [moving -> HeldTo(p)] BY <1>2
  <2>. HIDE DEF f
  <2>. QED BY <1>3, <2>1 DEF Injection, IsInjective
<1>5. IsFiniteSet(HeldTo(p)) /\ Cardinality(HeldTo(p)) <= Limit[p] /\ Limit[p] \in Nat
  BY MigrationAssumption DEF WithinLimit
<1>. HIDE DEF f, moving
<1>6. IsFiniteSet(moving) /\ Cardinality(moving) <= Cardinality(HeldTo(p))
  BY <1>4, <1>5, FS_Injection
<1>7. Cardinality(moving) \in Nat /\ Cardinality(HeldTo(p)) \in Nat
  BY <1>5, <1>6, FS_CardinalityType
<1>8. Cardinality(moving) <= Limit[p] BY <1>5, <1>6, <1>7
<1>. QED BY <1>6, <1>8 DEF moving

\* No profile receives more transfers at a time than its transfer_concurrency, whatever its
\* migrations' states (README.md:405), for any number of API processes and consumers: the claim
\* counts leases under an advisory lock (internal/storagecontrol/repository.go), and while no
\* lease ends under its copier and no task exists twice, every transfer has a lease of its own.
THEOREM TransfersAreLimited == Spec => []TransfersWithinLimit
<1>1. LimitInv => TransfersWithinLimit
  BY TransferLeases DEF LimitInv, LeasesLast, TransfersWithinLimit
<1>. QED BY <1>1, LimitInvariance, PTL

-----------------------------------------------------------------------------
(* Work left.                                                              *)

\* Items that are left stay so, none fails in a migration that runs, and nobody else completes one.
Steady ==
  /\ operator' = operator
  /\ \A m \in Migration : Running(m)' =>
       /\ Running(m)
       /\ \A o \in Object : /\ Left(m, o) => Left(m, o)'
                            /\ item'[m][o].state = "failed" => item[m][o].state = "failed"
  /\ \A c \in Copier : copier'[c] = copier[c] \/ copier'[c].pc # "commit"

\* No new completion waits for its commit.
LEMMA AwaitsKept ==
  ASSUME NEW m \in Migration, NEW x \in Object, Awaits(m, x), Left(m, x)',
         \A c \in Copier : copier'[c] = copier[c] \/ copier'[c].pc # "commit"
  PROVE  Awaits(m, x)'
BY DEF Awaits

LEMMA SteadyWork == ASSUME TypeInv, WorkLeft, [Next]_vars, Steady PROVE WorkLeft'
<1>1. ASSUME NEW m \in Migration, Running(m)', NEW o \in Object, item'[m][o].state = "failed"
      PROVE  Restarting(m)'
  BY <1>1 DEF Steady, WorkLeft, Restarting
<1>2. ASSUME NEW m \in Migration, m \notin overlooked', Running(m)', ~Resumed(m)'
      PROVE  \E x \in Object : Awaits(m, x)'
  <2>1. m \notin overlooked /\ Running(m) /\ ~Resumed(m)
    BY <1>2, OverlookedGrows DEF Steady, Resumed
  <2>2. PICK x \in Object : Awaits(m, x) BY <2>1 DEF WorkLeft
  <2>3. Left(m, x)' BY <1>2, <2>2 DEF Steady, Awaits
  <2>. QED BY <2>2, <2>3, AwaitsKept DEF Steady
<1>. QED BY <1>1, <1>2 DEF WorkLeft

LEMMA QuietRows ==
  ASSUME UNCHANGED <<migration, item, operator>>,
         \A c \in Copier : copier'[c] = copier[c] \/ copier'[c].pc # "commit"
  PROVE  Steady
BY DEF Steady, Running, Left

LEMMA ReleaseSteady ==
  ASSUME TypeInv, NEW x, Known(x), NEW retry \in BOOLEAN, Release(x.m, x.o, retry),
         operator' = operator, \A c \in Copier : copier'[c] \in {copier[c], IdleCopier}
  PROVE  Steady
<1>1. /\ x.m \in Migration /\ x.o \in Object
      /\ ItemWritten(x.m, x.o, IF retry THEN "pending" ELSE "failed", None)
      /\ \/ migration' = migration /\ (retry \/ ~Running(x.m))
         \/ StateWritten(x.m, "failed") /\ Running(x.m)
  BY ReleaseWrites DEF Known, TypeInv
<1>2. ASSUME NEW m \in Migration, Running(m)'
      PROVE  /\ Running(m)
             /\ \A o \in Object : /\ Left(m, o) => Left(m, o)'
                                  /\ item'[m][o].state = "failed" => item[m][o].state = "failed"
  <2>1. Running(m) /\ (m = x.m => migration' = migration)
    BY <1>1, <1>2 DEF StateWritten, Running
  <2>2. m = x.m => retry BY <1>1, <1>2, <2>1 DEF StateWritten, Running
  <2>3. \A o \in Object : item'[m][o] = item[m][o] \/ item'[m][o].state = "pending"
    BY <1>1, <2>2 DEF ItemWritten
  <2>. QED BY <2>1, <2>3 DEF Left, Done
<1>3. \A c \in Copier : copier'[c] = copier[c] \/ copier'[c].pc # "commit" BY IdleRows
<1>. QED BY <1>2, <1>3 DEF Steady

LEMMA CreateSteady ==
  ASSUME TypeInv, NEW m \in Migration, NEW s \in Profile, NEW d \in Profile, CreateMigration(m, s, d)
  PROVE  Steady
<1>1. Created(m, s, d) BY CreateWrites
<1>2. \A x \in Migration : Running(x)' => x # m /\ Running(x) BY <1>1 DEF Created, Running
<1>. QED BY <1>1, <1>2 DEF Created, Steady, Left

LEMMA CancelSteady ==
  ASSUME TypeInv, NEW m \in Migration, CancelMigration(m) PROVE Steady
<1>1. StateWritten(m, "canceled") BY SetStateWrites DEF CancelMigration, TypeInv, State
<1>2. \A x \in Migration : Running(x)' => Running(x) BY <1>1 DEF StateWritten, Running
<1>. QED BY <1>2 DEF CancelMigration, Steady, Left

LEMMA DispatcherSteady ==
  ASSUME TypeInv, NEW d \in Dispatcher,
         \/ ClaimMigrationWork(d) \/ EnqueueMigration(d)
         \/ DispatcherRelease(d) \/ DispatcherDies(d)
  PROVE  Steady
<1>1. CASE ClaimMigrationWork(d)
  <2>1. \A m \in Migration, o \in Object : Reset[m][o] = item[m][o] \/ Reset[m][o].state = "pending"
    BY ResetRows DEF TypeInv
  <2>2. \A m \in Migration, o \in Object :
          item'[m][o] = item[m][o] \/ item'[m][o].state \in {"pending", "running"}
    BY <1>1, <2>1, ClaimWrites DEF TypeInv, Claimed
  <2>3. UNCHANGED <<migration, copier, operator>> BY <1>1 DEF ClaimMigrationWork
  <2>. QED BY <2>2, <2>3 DEF Steady, Running, Left, Done
<1>2. CASE EnqueueMigration(d) \/ DispatcherDies(d)
  BY <1>2, QuietRows DEF EnqueueMigration, DispatcherDies
<1>3. CASE DispatcherRelease(d)
  <2>1. UNCHANGED <<copier, operator>> /\ Release(dispatcher[d].m, dispatcher[d].o, TRUE)
    BY <1>3 DEF DispatcherRelease
  <2>2. Known(dispatcher[d]) BY <1>3 DEF DispatcherRelease, TypeInv, References
  <2>. QED BY <2>1, <2>2, ReleaseSteady
<1>. QED BY <1>1, <1>2, <1>3

LEMMA CopierSteady ==
  ASSUME TypeInv, NEW c \in Copier,
         \/ Start(c) \/ Load(c) \/ Check(c) \/ Copy(c) \/ Put(c)
         \/ GiveBack(c) \/ FailMigration(c) \/ CopierDies(c) \/ CopierAborted(c)
  PROVE  Steady
<1>1. CASE Start(c)
  <2>1. PICK k \in CopierRow : copier' = [copier EXCEPT ![c] = k] /\ k.pc = "load"
    BY <1>1, StartWrites
  <2>2. copier'[c] = k /\ \A b \in Copier \ {c} : copier'[b] = copier[b]
    BY <2>1, TypesNow DEF TypeInv
  <2>3. \A b \in Copier : copier'[b] = copier[b] \/ copier'[b].pc # "commit" BY <2>1, <2>2
  <2>. QED BY <1>1, <2>3, QuietRows DEF Start
<1>2. CASE Load(c) \/ Check(c) \/ Copy(c) \/ Put(c)
  <2>1. PICK k \in CopierRow : Move(c, k) BY <1>2, Moves
  <2>2. copier'[c] = k /\ \A b \in Copier \ {c} : copier'[b] = copier[b]
    BY <2>1, TypesNow DEF TypeInv, Move
  <2>3. copier[c].pc # "finish" BY <1>2 DEF Load, Check, Copy, Put, At
  <2>4. k.pc # "commit" BY <2>1, <2>3 DEF Move
  <2>5. \A b \in Copier : copier'[b] = copier[b] \/ copier'[b].pc # "commit" BY <2>2, <2>4
  <2>. QED BY <2>1, <2>5, QuietRows DEF Move
<1>3. CASE GiveBack(c) \/ FailMigration(c)
  <2>1. PICK retry \in BOOLEAN :
          /\ Release(copier[c].m, copier[c].o, retry) /\ Busy(copier[c])
          /\ copier' = [copier EXCEPT ![c] = IdleCopier] /\ operator' = operator
    BY <1>3 DEF GiveBack, FailMigration, At, Busy
  <2>2. \A b \in Copier : copier'[b] \in {copier[b], IdleCopier} BY <2>1, CopierIdles
  <2>. QED BY <2>1, <2>2, CopierNow, ReleaseSteady
<1>4. CASE CopierDies(c) \/ CopierAborted(c)
  <2>1. copier' \in {copier, [copier EXCEPT ![c] = IdleCopier]} /\ UNCHANGED <<migration, item, operator>>
    BY <1>4 DEF CopierDies, CopierAborted
  <2>2. \A b \in Copier : copier'[b] \in {copier[b], IdleCopier} BY <2>1, CopierIdles
  <2>3. \A b \in Copier : copier'[b] = copier[b] \/ copier'[b].pc # "commit" BY <2>2, IdleRows
  <2>. QED BY <2>1, <2>3, QuietRows
<1>. QED BY <1>1, <1>2, <1>3, <1>4

LEMMA ExpiresSteady ==
  ASSUME TypeInv, NEW m \in Migration, NEW o \in Object, LeaseExpires(m, o) PROVE Steady
<1>1. ItemWritten(m, o, item[m][o].state, "expired") BY ItemSetLease DEF LeaseExpires, TypeInv
<1>2. \A x \in Migration, y \in Object : item'[x][y].state = item[x][y].state
  BY <1>1 DEF ItemWritten
<1>. QED BY <1>2 DEF LeaseExpires, Steady, Running, Left

\* The completion's last statement: if nothing else is left the item awaits this commit, which
\* completes the migration; if something is, it is awaited or the look has overlooked it.
LEMMA FinishWork ==
  ASSUME TypeInv, WorkLeft, [Next]_vars, NEW c \in Copier, Finish(c) PROVE WorkLeft'
<1>. DEFINE m == copier[c].m
            o == copier[c].o
<1>1. PICK k \in CopierRow : Move(c, k) BY Moves
<1>2. copier'[c] = k /\ \A b \in Copier \ {c} : copier'[b] = copier[b]
  BY <1>1, TypesNow DEF TypeInv, Move
<1>3. /\ UNCHANGED <<migration, item, operator>> /\ k.m = m /\ k.o = o
      /\ copier[c].pc = "finish" /\ m \in Migration /\ o \in Object
  BY <1>1, CopierNow DEF Finish, At, Move, Same
<1>4. k.last = (Running(m) /\ \A x \in Object \ {o} : ~Left(m, x))
  BY <1>1, <1>3 DEF Move
<1>5. ASSUME NEW x \in Migration, Running(x)', NEW y \in Object, item'[x][y].state = "failed"
      PROVE  Restarting(x)'
  BY <1>3, <1>5 DEF WorkLeft, Restarting, Running
<1>6. ASSUME NEW x \in Migration, x \notin overlooked', Running(x)', ~Resumed(x)'
      PROVE  \E y \in Object : Awaits(x, y)'
  <2>1. x \notin overlooked /\ Running(x) /\ ~Resumed(x)
    BY <1>3, <1>6, OverlookedGrows DEF Running, Resumed
  <2>2. PICK y \in Object : Awaits(x, y) BY <2>1 DEF WorkLeft
  <2>3. \A z \in Object : Left(x, z)' <=> Left(x, z) BY <1>3 DEF Left
  <2>4. CASE x # m
    <3>1. ASSUME NEW b \in Copier, copier'[b].pc = "commit", copier'[b].m = x, copier'[b].o = y
          PROVE  copier'[b].last
      <4>1. b # c BY <1>2, <1>3, <2>4, <3>1
      <4>. QED BY <1>2, <2>2, <3>1, <4>1 DEF Awaits
    <3>. QED BY <2>2, <2>3, <3>1 DEF Awaits
  <2>5. CASE x = m /\ k.last
    <3>1. y = o /\ Left(m, o) BY <1>4, <2>2, <2>5 DEF Awaits
    <3>2. ~ItemLocked(m, o) BY DEF Finish
    <3>3. \A b \in Copier : copier'[b].pc = "commit" /\ copier'[b].m = m /\ copier'[b].o = o => b = c
      BY <1>2, <3>2 DEF ItemLocked
    <3>. QED BY <1>2, <2>3, <2>5, <3>1, <3>3 DEF Awaits
  <2>6. CASE x = m /\ ~k.last
    <3>1. Looks(m, Object \ {o}) BY <2>1, <2>6 DEF Finish
    <3>2. \E z \in Object \ {o} : Left(m, z) BY <1>4, <2>1, <2>6
    <3>3. PICK z \in Object \ {o} : Left(m, z) /\ ~ItemLocked(m, z)
      BY <1>3, <1>6, <2>6, <3>1, <3>2 DEF Looks
    <3>4. \A b \in Copier : ~(copier'[b].pc = "commit" /\ copier'[b].m = m /\ copier'[b].o = z)
      BY <1>2, <1>3, <3>3 DEF ItemLocked
    <3>. QED BY <2>3, <2>6, <3>3, <3>4 DEF Awaits
  <2>. QED BY <2>4, <2>5, <2>6
<1>. QED BY <1>5, <1>6 DEF WorkLeft

\* The commit completes the migration, or it is not the one that is awaited.
LEMMA CommitWork ==
  ASSUME TypeInv, WorkLeft, [Next]_vars, NEW c \in Copier, Commit(c) PROVE WorkLeft'
<1>1. PICK m \in Migration, o \in Object : Known(copier[c]) /\ Committed(c, m, o) BY CommitWrites
<1>2. /\ copier[c].m = m /\ copier[c].o = o /\ copier[c].pc = "commit" /\ operator' = operator
      /\ copier' = [copier EXCEPT ![c] = IdleCopier]
  BY <1>1 DEF Committed
<1>3. PICK s \in Done : ItemWritten(m, o, s, None) BY <1>1 DEF Committed
<1>4. \A b \in Copier : copier'[b] = copier[b] \/ copier'[b].pc # "commit"
  BY <1>2, CopierIdles, IdleRows
<1>5. \A x \in Migration, y \in Object : x # m \/ y # o => item'[x][y] = item[x][y]
  BY <1>3 DEF ItemWritten
<1>6. \A x \in Migration : Running(x)' => Running(x) /\ (x = m => ~copier[c].last)
  BY <1>1 DEF Committed, StateWritten, Running
<1>7. ASSUME NEW x \in Migration, Running(x)', NEW y \in Object, item'[x][y].state = "failed"
      PROVE  Restarting(x)'
  <2>1. x # m \/ y # o BY <1>3, <1>7 DEF ItemWritten, Done
  <2>2. Running(x) /\ item[x][y].state = "failed" BY <1>5, <1>6, <1>7, <2>1
  <2>. QED BY <1>2, <2>2 DEF WorkLeft, Restarting
<1>8. ASSUME NEW x \in Migration, x \notin overlooked', Running(x)', ~Resumed(x)'
      PROVE  \E y \in Object : Awaits(x, y)'
  <2>1. x \notin overlooked /\ Running(x) /\ ~Resumed(x) BY <1>2, <1>6, <1>8, OverlookedGrows DEF Resumed
  <2>2. PICK y \in Object : Awaits(x, y) BY <2>1 DEF WorkLeft
  <2>3. x # m \/ y # o BY <1>2, <1>6, <1>8, <2>2 DEF Awaits
  <2>4. Left(x, y)' BY <1>5, <2>2, <2>3 DEF Awaits, Left
  <2>. QED BY <1>4, <2>2, <2>4, AwaitsKept
<1>. QED BY <1>7, <1>8 DEF WorkLeft

LEMMA ResumeWork ==
  ASSUME TypeInv, WorkLeft, [Next]_vars, NEW a \in Operator, NEW m \in Migration, ResumeMigration(a, m)
  PROVE  WorkLeft'
<1>1. /\ operator[a] = IdleOperator
      /\ operator' = [operator EXCEPT ![a] = [pc |-> "items", m |-> m]]
      /\ UNCHANGED <<item, copier>>
  BY DEF ResumeMigration
<1>2. StateWritten(m, "running") BY SetStateWrites DEF TypeInv, State, ResumeMigration
<1>3. /\ operator'[a].pc = "items" /\ operator'[a].m = m
      /\ \A b \in Operator \ {a} : operator'[b] = operator[b]
  BY <1>1, TypesNow DEF TypeInv
<1>4. Restarting(m)' /\ Resumed(m)' BY <1>3 DEF Restarting, Resumed
<1>5. operator[a].m \notin Migration BY <1>1, MigrationAssumption DEF IdleOperator
<1>6. ASSUME NEW x \in Migration \ {m}
      PROVE  /\ Running(x)' <=> Running(x)
             /\ Restarting(x) => Restarting(x)'
             /\ Resumed(x) => Resumed(x)'
  <2>1. \A b \in Operator : operator[b].m = x => operator'[b] = operator[b] BY <1>3, <1>5
  <2>. QED BY <1>2, <2>1 DEF StateWritten, Running, Restarting, Resumed
<1>7. ASSUME NEW x \in Migration, Running(x)', NEW y \in Object, item'[x][y].state = "failed"
      PROVE  Restarting(x)'
  BY <1>1, <1>4, <1>6, <1>7 DEF WorkLeft
<1>8. ASSUME NEW x \in Migration, x \notin overlooked', Running(x)', ~Resumed(x)'
      PROVE  \E y \in Object : Awaits(x, y)'
  <2>1. x # m BY <1>4, <1>8
  <2>2. x \notin overlooked /\ Running(x) /\ ~Resumed(x) BY <1>6, <1>8, <2>1, OverlookedGrows
  <2>3. PICK y \in Object : Awaits(x, y) BY <2>2 DEF WorkLeft
  <2>. QED BY <1>1, <2>3 DEF Awaits, Left
<1>. QED BY <1>7, <1>8 DEF WorkLeft

LEMMA ResumeItemsWork ==
  ASSUME TypeInv, WorkLeft, [Next]_vars, NEW a \in Operator, ResumeItems(a)
  PROVE  WorkLeft'
<1>1. /\ operator[a].pc = "items" /\ operator' = [operator EXCEPT ![a].pc = "settle"]
      /\ UNCHANGED <<migration, copier>>
  BY DEF ResumeItems
<1>2. operator[a].m \in Migration BY <1>1, OperatorNow DEF Busy
<1>3. \A m \in Migration, o \in Object :
        \/ item'[m][o] = item[m][o] /\ (m = operator[a].m => item[m][o].state # "failed")
        \/ item[m][o].state = "failed" /\ item'[m][o].state = "pending"
  BY <1>2, ResumeItemsWrites DEF TypeInv
<1>4. operator'[a].m = operator[a].m /\ \A b \in Operator \ {a} : operator'[b] = operator[b]
  BY <1>1, TypesNow DEF TypeInv, OperatorRow
<1>5. ASSUME NEW x \in Migration, Running(x)', NEW o \in Object, item'[x][o].state = "failed"
      PROVE  Restarting(x)'
  <2>1. x # operator[a].m /\ item[x][o].state = "failed" /\ Running(x)
    BY <1>1, <1>3, <1>5 DEF Running
  <2>2. PICK b \in Operator : operator[b].pc = "items" /\ operator[b].m = x
    BY <2>1 DEF WorkLeft, Restarting
  <2>. QED BY <1>4, <2>1, <2>2 DEF Restarting
<1>6. ASSUME NEW x \in Migration, x \notin overlooked', Running(x)', ~Resumed(x)'
      PROVE  \E y \in Object : Awaits(x, y)'
  <2>1. x \notin overlooked /\ Running(x) /\ ~Resumed(x)
    BY <1>1, <1>4, <1>6, OverlookedGrows DEF Running, Resumed
  <2>2. PICK y \in Object : Awaits(x, y) BY <2>1 DEF WorkLeft
  <2>3. Left(x, y)' BY <1>3, <2>2 DEF Awaits, Left, Done
  <2>. QED BY <1>1, <2>2, <2>3, AwaitsKept
<1>. QED BY <1>5, <1>6 DEF WorkLeft

\* The last statement of a resume completes the migration, or sees something awaited, or has
\* overlooked it.
LEMMA ResumeSettleWork ==
  ASSUME TypeInv, WorkLeft, [Next]_vars, NEW a \in Operator, ResumeSettle(a)
  PROVE  WorkLeft'
<1>. DEFINE m == operator[a].m
<1>1. /\ operator[a].pc = "settle" /\ operator' = [operator EXCEPT ![a] = IdleOperator]
      /\ UNCHANGED <<item, copier>> /\ Looks(m, Object)
      /\ IF AllDone(m) THEN SetState(m, "completed") ELSE migration' = migration
  BY DEF ResumeSettle
<1>2. m \in Migration BY <1>1, OperatorNow DEF Busy
<1>3. AllDone(m) => StateWritten(m, "completed") BY <1>1, <1>2, SetStateWrites DEF TypeInv, State
<1>4. \A b \in Operator \ {a} : operator'[b] = operator[b] BY <1>1, TypesNow DEF TypeInv
<1>5. \A x \in Migration : Running(x)' => Running(x) /\ ~(x = m /\ AllDone(m))
  BY <1>1, <1>3 DEF StateWritten, Running
<1>6. ASSUME NEW x \in Migration, Running(x)', NEW y \in Object, item'[x][y].state = "failed"
      PROVE  Restarting(x)'
  <2>1. PICK b \in Operator : operator[b].pc = "items" /\ operator[b].m = x
    BY <1>1, <1>5, <1>6 DEF WorkLeft, Restarting
  <2>2. b # a BY <1>1, <2>1
  <2>. QED BY <1>4, <2>1, <2>2 DEF Restarting
<1>7. ASSUME NEW x \in Migration, x \notin overlooked', Running(x)', ~Resumed(x)'
      PROVE  \E y \in Object : Awaits(x, y)'
  <2>1. x \notin overlooked /\ Running(x) /\ ~(x = m /\ AllDone(m))
    BY <1>5, <1>7, OverlookedGrows
  <2>2. \A y \in Object : Awaits(x, y) => Awaits(x, y)' BY <1>1 DEF Awaits, Left
  <2>3. CASE x = m
    <3>1. \E z \in Object : Left(m, z) BY <2>1, <2>3 DEF AllDone
    <3>2. PICK z \in Object : Left(m, z) /\ ~ItemLocked(m, z)
      BY <1>1, <1>2, <1>7, <2>3, <3>1 DEF Looks
    <3>3. Awaits(m, z) BY <3>2 DEF Awaits, ItemLocked
    <3>. QED BY <2>2, <2>3, <3>3
  <2>4. CASE x # m
    <3>1. ~Resumed(x) BY <1>4, <1>7, <2>4 DEF Resumed
    <3>. QED BY <2>1, <2>2, <3>1 DEF WorkLeft
  <2>. QED BY <2>3, <2>4
<1>. QED BY <1>6, <1>7 DEF WorkLeft

LEMMA WorkStep ==
  ASSUME TypeInv, WorkLeft, [Next]_vars, ~Spend("partial") PROVE WorkLeft'
<1>1. CASE UNCHANGED vars
  <2>1. Steady BY <1>1, QuietRows DEF vars
  <2>. QED BY <2>1, SteadyWork
<1>2. CASE \E m \in Migration : PauseMigration(m)
  <2>1. Steady BY <1>2, QuietRows DEF PauseMigration
  <2>. QED BY <2>1, SteadyWork
<1>. QED
  BY <1>1, <1>2, SteadyWork, CreateSteady, CancelSteady, DispatcherSteady, CopierSteady, ExpiresSteady,
     FinishWork, CommitWork, ResumeWork, ResumeItemsWork, ResumeSettleWork
     DEF Next, CopierStep, ResumePartial

WorkInv == TypeInv /\ WithinFaults /\ (Unspent({"partial"}) => WorkLeft)

\* A migration that runs has an item to run, or a resume is about to give it one or to complete
\* it: it never runs with nothing left, a state it could only be canceled in, since
\* ResumeMigration refuses it (internal/storagecontrol/repository.go).  This is so for every
\* transfer_concurrency, and whatever happens to processes, leases, tasks and Redis calls, with
\* the two exceptions RunningHasWork names: a resume broke off between its statements, or all that
\* was left was just being completed by transactions that had looked already.
THEOREM RunningMigrationsHaveWork == Spec => []RunningHasWork
<1>1. Init => WorkInv
  <2>. SUFFICES ASSUME Init PROVE WorkInv OBVIOUS
  <2>1. \A m \in Migration : ~Running(m) BY NewRows DEF Init, Running
  <2>2. WithinFaults BY LimitInvInit DEF LimitInv
  <2>. QED BY <2>1, <2>2, TypeInit DEF WorkInv, WorkLeft
<1>2. WorkInv /\ [Next]_vars => WorkInv'
  <2>. SUFFICES ASSUME WorkInv, [Next]_vars PROVE WorkInv' OBVIOUS
  <2>1. TypeInv' /\ WithinFaults' BY TypeStep, FaultsStep DEF WorkInv
  <2>2. ASSUME Unspent({"partial"})' PROVE WorkLeft'
    <3>1. Unspent({"partial"}) /\ ~Spend("partial")
      BY <2>2, StillUnspent DEF WorkInv, FaultKind
    <3>. QED BY <3>1, WorkStep DEF WorkInv
  <2>. QED BY <2>1, <2>2 DEF WorkInv
<1>3. WorkInv => RunningHasWork
  <2>. SUFFICES ASSUME WorkInv, Unspent({"partial"}), NEW m \in Migration \ overlooked, Running(m),
                       \A a \in Operator : operator[a].m # m
                PROVE  \E o \in Object : item[m][o].state \in {"pending", "running"}
    BY DEF RunningHasWork
  <2>1. PICK x \in Object : Left(m, x) BY DEF WorkInv, WorkLeft, Resumed, Awaits
  <2>2. item[m][x].state # "failed" BY DEF WorkInv, WorkLeft, Restarting
  <2>3. item[m][x].state \in ItemState BY TypesNow DEF WorkInv, TypeInv, ItemRow
  <2>. QED BY <2>1, <2>2, <2>3 DEF Left, ItemState
<1>. QED BY <1>1, <1>2, <1>3, PTL DEF Spec

================================================================================
