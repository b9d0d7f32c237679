-------------------------- MODULE AdminAreas_proofs --------------------------
(***************************************************************************)
(* Theorems about the administration of the browser application, for any   *)
(* clients, keys and jobs, and any number of requests, clicks and faults.  *)
(***************************************************************************)
EXTENDS AdminAreas, FiniteSetTheorems, WellFoundedInduction, TLAPS

\* Keys that the page shows, edits or has asked to change are there, and the client a request
\* names is the key's owner.
Exists(k) == k \in Key /\ status[k] # "none"

ShownExist == \A k \in Key : keys[k] = "active" => Exists(k)

DialogOk ==
  /\ dialog.kind = "access" => Exists(dialog.key)
  /\ dialog.kind \in Issues => selected # None
  /\ dialog.kind = "issue" => dialog.key = None

PostOk(p) ==
  /\ p.kind \in {"access", "revoke"} => Exists(p.key) /\ p.client = owner[p.key]
  /\ p.kind \in Issues => p.client # None
  /\ p.kind = "issue" => p.key = None

\* Unless something was overtaken, one key at a time is asked for, while no secret is shown,
\* and the page is there to take the answer.
OneSecret == overtaken = {} =>
  /\ issued \subseteq stored \cup {secret}
  /\ \A s \in Slot : posts[s].mounted
  /\ \A s \in Slot : posts[s].kind \in Issues => secret = None
  /\ \A r, s \in Slot : posts[r].kind \in Issues /\ posts[s].kind \in Issues => r = s

ClientInv ==
  /\ ClientsTypeOK
  /\ ShownExist
  /\ DialogOk
  /\ \A s \in Slot : PostOk(posts[s])
  /\ OneSecret

-----------------------------------------------------------------------------
Less == {p \in Nat \X Nat : p[1] < p[2]}

LEMMA LessWellFounded == IsWellFoundedOn(Less, Nat)
BY NatLessThanWellFounded DEF OpToRel, Less

\* A set of natural numbers has a least one.
LEMMA LeastInSet ==
  ASSUME NEW S \in SUBSET Nat, S # {} PROVE Min(S) \in S
<1>1. \E x \in S : \A y \in S : ~ (<<y, x>> \in Less) BY LessWellFounded, WFMin
<1>2. PICK x \in S : \A y \in S : <<y, x>> \notin Less BY <1>1
<1>3. ASSUME NEW y \in S PROVE x =< y
  <2>1. <<y, x>> \in Nat \X Nat /\ x \in Nat /\ y \in Nat OBVIOUS
  <2>2. ~ (y < x) BY <1>2, <2>1 DEF Less
  <2>. QED BY <2>1, <2>2
<1>. QED BY <1>3 DEF Min

\* The number of a new key is not in use.
LEMMA NewKeyFree ==
  ASSUME NewKey \in Key PROVE status[NewKey] = "none"
<1>. DEFINE S == {k \in Key : status[k] = "none"} \cup {MaxKey + 1}
<1>1. S \in SUBSET Nat /\ S # {} BY ClientsAssumption DEF Key
<1>2. NewKey \in S BY <1>1, LeastInSet DEF NewKey
<1>3. NewKey # MaxKey + 1 BY ClientsAssumption DEF Key
<1>. QED BY <1>2, <1>3
Post == [kind : Kind \cup {"none"}, client : Client \cup {None}, key : Key \cup {None},
         from : Client \cup {None}, mounted : BOOLEAN]

\* What the server does with a request: rows stay well typed, and no key that is there goes
\* away or changes hands.
RowsKept ==
  /\ state' \in [Client -> {"none", "enabled", "disabled"}]
  /\ owner' \in [Key -> Client \cup {None}]
  /\ status' \in [Key -> {"none", "active", "replaced", "revoked"}]
  /\ \A k \in Key : owner'[k] = None <=> status'[k] = "none"
  /\ \A k \in Key : status[k] # "none" => status'[k] # "none" /\ owner'[k] = owner[k]

LEMMA ServedRows ==
  ASSUME ClientsTypeOK, NEW p \in Post, PostOk(p), Admissible(p), Served(p)
  PROVE  /\ RowsKept
         /\ p.kind \in Issues => NewKey \in Key /\ issued' = issued \cup {NewKey}
         /\ p.kind \notin Issues => issued' = issued
<1>1. state' \in [Client -> {"none", "enabled", "disabled"}] BY ZenonT(60) DEF Served, ClientsTypeOK
<1>2. CASE p.kind \in Issues
  <2>1. NewKey \in Key BY <1>2 DEF Admissible, Issues
  <2>2. status[NewKey] = "none" BY <2>1, NewKeyFree
  <2>3. /\ owner' = [owner EXCEPT ![NewKey] = p.client]
        /\ status' = [k \in Key |-> IF k = NewKey THEN "active"
                                   ELSE IF k = p.key THEN "replaced" ELSE status[k]]
        /\ issued' = issued \cup {NewKey}
    BY <1>2 DEF Served
  <2>4. p.client \in Client /\ p.client # None
    BY <1>2, ClientsAssumption DEF PostOk, Post
  <2>5. p.key \in Key => status[p.key] # "none"
    BY <1>2, ClientsAssumption DEF PostOk, Admissible, Issues
  <2>6. owner' \in [Key -> Client \cup {None}] BY <2>3, <2>4 DEF ClientsTypeOK
  <2>7. status' \in [Key -> {"none", "active", "replaced", "revoked"}]
    BY <2>3 DEF ClientsTypeOK
  <2>8. ASSUME NEW k \in Key
        PROVE  /\ owner'[k] = None <=> status'[k] = "none"
               /\ status[k] # "none" => status'[k] # "none" /\ owner'[k] = owner[k]
    BY <2>2, <2>3, <2>4, <2>5 DEF ClientsTypeOK
  <2>. QED BY <1>1, <1>2, <2>1, <2>3, <2>6, <2>7, <2>8 DEF RowsKept
<1>3. CASE p.kind \notin Issues
  <2>1. /\ status' = IF p.kind = "revoke" THEN [status EXCEPT ![p.key] = "revoked"] ELSE status
        /\ owner' = owner /\ issued' = issued
    BY <1>3 DEF Served
  <2>2. p.kind = "revoke" => Exists(p.key) BY DEF PostOk
  <2>. QED BY <1>1, <1>3, <2>1, <2>2 DEF RowsKept, ClientsTypeOK, Exists
<1>. QED BY <1>2, <1>3
LEMMA NoPostType == NoPost \in Post /\ PostOk(NoPost) /\ NoPost.kind \notin Issues /\ NoPost.mounted
BY DEF NoPost, Post, PostOk, Issues

-----------------------------------------------------------------------------
(* Selecting, opening and reading change nothing that was asked for.       *)

LEMMA SelectKeeps ==
  ASSUME ClientInv, NEW c \in Client, SelectClient(c)
  PROVE  selected' \in Client \cup {None} /\ selected' # None /\ keyLists' \subseteq Client
BY ClientsAssumption DEF ClientInv, ClientsTypeOK, SelectClient

LEMMA PageStep ==
  ASSUME ClientInv,
         UNCHANGED <<registry, secret, posts, history>>,
         clients' \in [Client -> {"none", "enabled", "disabled"}],
         selected' \in Client \cup {None}, selected # None => selected' # None,
         keys' \in [Key -> {"none", "active", "revoked"}], ShownExist',
         dialog' \in [kind : Kind \cup {"none"}, key : Key \cup {None}], DialogOk',
         clientLists' \subseteq Client \cup {None}, keyLists' \subseteq Client
  PROVE  ClientInv'
<1>1. ClientsTypeOK' BY DEF ClientInv, ClientsTypeOK, registry, history
<1>2. \A s \in Slot : PostOk(posts[s])' BY DEF ClientInv, PostOk, Exists, registry
<1>3. OneSecret' BY DEF ClientInv, OneSecret, history
<1>. QED BY <1>1, <1>2, <1>3 DEF ClientInv

LEMMA PickInv == ASSUME ClientInv, NEW c \in Client, PickClient(c) PROVE ClientInv'
<1>1. SelectClient(c) /\ UNCHANGED <<registry, clients, keys, dialog, secret, posts, clientLists, history>>
  BY DEF PickClient
<1>2. ShownExist' /\ DialogOk'
  BY <1>1, SelectKeeps DEF ClientInv, ShownExist, DialogOk, Exists, registry
<1>. QED BY <1>1, <1>2, SelectKeeps, PageStep DEF ClientInv, ClientsTypeOK

LEMMA OpenInv ==
  ASSUME ClientInv, NEW kind \in Kind, NEW k \in Key \cup {None}, OpenDialog(kind, k)
  PROVE  ClientInv'
<1>1. UNCHANGED <<registry, view, secret, posts, reads, history>> /\ dialog' = [kind |-> kind, key |-> k]
  BY DEF OpenDialog
<1>2. ShownExist' BY <1>1 DEF ClientInv, ShownExist, Exists, registry, view
<1>3. dialog' \in [kind : Kind \cup {"none"}, key : Key \cup {None}] BY <1>1
<1>4. DialogOk'
  <2>1. kind \in Issues => selected # None BY DEF OpenDialog, InUse, Issues
  <2>2. kind = "issue" => k = None BY DEF OpenDialog
  <2>3. kind = "access" => Exists(k) BY DEF OpenDialog, ClientInv, ShownExist
  <2>. QED BY <1>1, <2>1, <2>2, <2>3 DEF DialogOk, Exists, registry, view
<1>. QED BY <1>1, <1>2, <1>3, <1>4, PageStep DEF ClientInv, ClientsTypeOK, view, reads

LEMMA CancelInv == ASSUME ClientInv, Cancel PROVE ClientInv'
<1>1. UNCHANGED <<registry, view, secret, posts, reads, history>> /\ dialog' = NoDialog BY DEF Cancel
<1>2. ShownExist' /\ DialogOk'
  BY <1>1 DEF ClientInv, ShownExist, DialogOk, NoDialog, Issues, Exists, registry, view
<1>3. dialog' \in [kind : Kind \cup {"none"}, key : Key \cup {None}] BY <1>1 DEF NoDialog
<1>. QED BY <1>1, <1>2, <1>3, PageStep DEF ClientInv, ClientsTypeOK, view, reads

\* A client that is shown stays selected, or another is.
LEMMA ClientsArriveInv ==
  ASSUME ClientInv, NEW created \in Client \cup {None}, ClientsArrive(created)
  PROVE  ClientInv'
<1>1. UNCHANGED <<registry, keys, dialog, secret, posts, history>> /\ clients' = state
      /\ clientLists' = clientLists \ {created}
  BY DEF ClientsArrive
<1>2. \/ \E c \in Client : SelectClient(c)
      \/ UNCHANGED <<selected, keyLists>>
      \/ selected = None /\ \E c \in Client : SelectClient(c)
  BY ClientsAssumption DEF ClientsArrive, SelectClient, ClientInv, ClientsTypeOK
<1>3. selected' \in Client \cup {None} /\ (selected # None => selected' # None) /\ keyLists' \subseteq Client
  BY <1>2, SelectKeeps DEF ClientInv, ClientsTypeOK
<1>4. ShownExist' /\ DialogOk'
  BY <1>1, <1>3 DEF ClientInv, ShownExist, DialogOk, Exists, registry
<1>. QED BY <1>1, <1>3, <1>4, PageStep DEF ClientInv, ClientsTypeOK

LEMMA ReadsFailInv ==
  ASSUME ClientInv,
         \/ \E c \in Client \cup {None} : ClientsFail(c)
         \/ \E c \in Client : KeysFail(c)
         \/ MountClients
  PROVE  ClientInv'
<1>1. UNCHANGED <<registry, view, dialog, secret, posts, history>>
  BY DEF ClientsFail, KeysFail, MountClients
<1>2. clientLists' \subseteq Client \cup {None} /\ keyLists' \subseteq Client
  BY DEF ClientsFail, KeysFail, MountClients, ClientInv, ClientsTypeOK
<1>3. ShownExist' /\ DialogOk' BY <1>1 DEF ClientInv, ShownExist, DialogOk, Exists, registry, view
<1>. QED BY <1>1, <1>2, <1>3, PageStep DEF ClientInv, ClientsTypeOK, view

\* Only keys that are there are listed.
LEMMA KeysArriveInv == ASSUME ClientInv, NEW c \in Client, KeysArrive(c) PROVE ClientInv'
<1>1. /\ UNCHANGED <<registry, clients, selected, dialog, secret, posts, clientLists, history>>
      /\ keys' = [k \in Key |-> IF owner[k] # c THEN "none" ELSE IF Live(k) THEN "active" ELSE status[k]]
      /\ keyLists' = keyLists \ {c}
  BY DEF KeysArrive
<1>2. keys' \in [Key -> {"none", "active", "revoked"}]
  <2>1. \A k \in Key : Live(k) \/ status[k] \in {"none", "revoked"} BY DEF Live, ClientInv, ClientsTypeOK
  <2>. QED BY <1>1, <2>1
<1>3. ShownExist' BY <1>1 DEF ShownExist, Exists, Live, registry
<1>4. DialogOk' BY <1>1 DEF ClientInv, DialogOk, Exists, registry
<1>. QED BY <1>1, <1>2, <1>3, <1>4, PageStep DEF ClientInv, ClientsTypeOK
-----------------------------------------------------------------------------
(* Requests.                                                               *)

\* A request that is sent adds to what was overtaken when it asks for a second key.
LEMMA SendInv ==
  ASSUME ClientInv, NEW s \in Slot, NEW p \in Post, PostOk(p), p.mounted, Send(s, p),
         p.kind \in Issues => secret = None,
         UNCHANGED <<registry, view, dialog, secret, reads, issued, stored>>
  PROVE  ClientInv'
<1>1. posts' = [posts EXCEPT ![s] = p] /\ overtaken \subseteq overtaken' BY DEF Send
<1>2. ClientsTypeOK'
  <2>1. posts' \in [Slot -> Post] BY <1>1 DEF ClientInv, ClientsTypeOK, Post
  <2>2. overtaken' \subseteq {"twice", "lost", "left"} BY DEF Send, ClientInv, ClientsTypeOK
  <2>. QED BY <2>1, <2>2 DEF ClientInv, ClientsTypeOK, Post, registry, view, reads
<1>3. ShownExist' /\ DialogOk' BY DEF ClientInv, ShownExist, DialogOk, Exists, registry, view
<1>4. \A r \in Slot : PostOk(posts[r])'
  BY <1>1 DEF ClientInv, ClientsTypeOK, PostOk, Exists, registry
<1>5. OneSecret'
  <2>1. p.kind \in Issues /\ (\E r \in Slot : posts[r].kind \in Issues) => overtaken' # {} BY DEF Send
  <2>. QED BY <1>1, <2>1 DEF ClientInv, ClientsTypeOK, OneSecret
<1>. QED BY <1>2, <1>3, <1>4, <1>5 DEF ClientInv

LEMMA SubmitInv == ASSUME ClientInv, NEW s \in Slot, Submit(s) PROVE ClientInv'
<1>1. secret = None /\ UNCHANGED <<registry, view, dialog, secret, reads, issued, stored>> BY DEF Submit
<1>2. CASE \E c \in Client : Send(s, [NoPost EXCEPT !.kind = "create", !.client = c])
  <2>1. PICK c \in Client : Send(s, [NoPost EXCEPT !.kind = "create", !.client = c]) BY <1>2
  <2>. DEFINE p == [NoPost EXCEPT !.kind = "create", !.client = c]
  <2>2. p \in Post /\ PostOk(p) /\ p.mounted BY DEF NoPost, Post, Kind, PostOk, Issues
  <2>. HIDE DEF p
  <2>3. Send(s, p) BY <2>1 DEF p
  <2>. QED BY <1>1, <2>2, <2>3, SendInv
<1>3. CASE /\ dialog.kind \in {"issue", "rotate", "access"}
           /\ Send(s, [NoPost EXCEPT !.kind = dialog.kind, !.client = Named, !.key = dialog.key,
                                     !.from = Named])
  <2>. DEFINE p == [NoPost EXCEPT !.kind = dialog.kind, !.client = Named, !.key = dialog.key,
                                 !.from = Named]
  <2>1. /\ p.kind = dialog.kind /\ p.client = Named /\ p.key = dialog.key /\ p.mounted
        /\ Named \in Client \cup {None} /\ dialog.kind \in Kind /\ dialog.key \in Key \cup {None} => p \in Post
    BY DEF NoPost, Post
  <2>2. Named \in Client \cup {None} BY DEF Named, ClientInv, ClientsTypeOK, DialogOk, Exists
  <2>3. dialog.kind \in Kind /\ dialog.key \in Key \cup {None}
    BY <1>3 DEF ClientInv, ClientsTypeOK, Kind
  <2>4. p \in Post BY <2>1, <2>2, <2>3
  <2>5. PostOk(p) BY <1>3, <2>1 DEF PostOk, Named, ClientInv, DialogOk, Issues
  <2>6. p.mounted /\ Send(s, p) BY <1>3, <2>1
  <2>. HIDE DEF p
  <2>. QED BY <1>1, <2>4, <2>5, <2>6, SendInv
<1>. QED BY <1>2, <1>3 DEF Submit

LEMMA RevokeInv == ASSUME ClientInv, NEW s \in Slot, NEW k \in Key, Revoke(s, k) PROVE ClientInv'
<1>. DEFINE p == [NoPost EXCEPT !.kind = "revoke", !.client = owner[k], !.key = k, !.from = selected]
<1>1. UNCHANGED <<registry, view, dialog, secret, reads, issued, stored>> /\ Send(s, p) BY DEF Revoke
<1>2. p.kind = "revoke" /\ p.client = owner[k] /\ p.key = k /\ p.mounted BY DEF NoPost
<1>3. p \in Post BY DEF NoPost, Post, Kind, ClientInv, ClientsTypeOK
<1>4. Exists(k) BY DEF Revoke, ClientInv, ShownExist
<1>5. PostOk(p) /\ p.kind \notin Issues BY <1>2, <1>4 DEF PostOk, Issues
<1>. HIDE DEF p
<1>. QED BY <1>1, <1>2, <1>3, <1>5, SendInv

LEMMA DisableInv == ASSUME ClientInv, NEW s \in Slot, Disable(s) PROVE ClientInv'
<1>. DEFINE p == [NoPost EXCEPT !.kind = "disable", !.client = selected]
<1>1. UNCHANGED <<registry, view, dialog, secret, reads, issued, stored>> /\ Send(s, p) BY DEF Disable
<1>2. p \in Post /\ p.mounted /\ PostOk(p) /\ p.kind \notin Issues
  BY DEF NoPost, Post, Kind, PostOk, Issues, ClientInv, ClientsTypeOK
<1>. HIDE DEF p
<1>. QED BY <1>1, <1>2, SendInv

-----------------------------------------------------------------------------
(* Answers.                                                                *)

\* A request that is performed leaves the other requests as good as they were.
LEMMA PostsKept ==
  ASSUME ClientInv, RowsKept \/ UNCHANGED registry, NEW s \in Slot, Done(s)
  PROVE  /\ posts' \in [Slot -> Post]
         /\ \A r \in Slot : PostOk(posts[r])'
         /\ \A r \in Slot : posts'[r] = IF r = s THEN NoPost ELSE posts[r]
<1>1. posts' \in [Slot -> Post] /\ \A r \in Slot : posts'[r] = IF r = s THEN NoPost ELSE posts[r]
  BY NoPostType DEF Done, ClientInv, ClientsTypeOK, Post
<1>2. ASSUME NEW r \in Slot PROVE PostOk(posts[r])'
  <2>1. CASE r = s BY <1>1, <2>1 DEF PostOk, NoPost, Issues
  <2>2. CASE r # s
    <3>1. posts'[r] = posts[r] /\ PostOk(posts[r]) BY <1>1, <2>2 DEF ClientInv
    <3>2. ASSUME NEW k \in Key, Exists(k) PROVE Exists(k)' /\ owner'[k] = owner[k]
      BY <3>2 DEF RowsKept, Exists, registry
    <3>. QED BY <3>1, <3>2 DEF PostOk, Exists
  <2>. QED BY <2>1, <2>2
<1>. QED BY <1>1, <1>2

LEMMA PageKept ==
  ASSUME ClientInv, RowsKept \/ UNCHANGED registry, UNCHANGED <<keys, selected>>,
         dialog' \in {dialog, NoDialog}
  PROVE  ShownExist' /\ DialogOk' /\ dialog' \in [kind : Kind \cup {"none"}, key : Key \cup {None}]
<1>1. ASSUME NEW k \in Key, Exists(k) PROVE Exists(k)' BY <1>1 DEF RowsKept, Exists, registry
<1>2. ShownExist' BY <1>1 DEF ClientInv, ShownExist
<1>3. DialogOk'
  <2>1. CASE dialog' = NoDialog BY <2>1 DEF DialogOk, NoDialog, Issues
  <2>2. CASE dialog' = dialog BY <1>1, <2>2 DEF ClientInv, DialogOk, Exists
  <2>. QED BY <2>1, <2>2
<1>. QED BY <1>2, <1>3 DEF NoDialog, ClientInv, ClientsTypeOK

LEMMA PostAnsweredInv == ASSUME ClientInv, NEW s \in Slot, PostAnswered(s) PROVE ClientInv'
<1>. DEFINE p == posts[s]
<1>1. /\ p \in Post /\ PostOk(p) /\ Admissible(p) /\ Served(p) /\ Done(s) /\ Rereads(p) /\ Closes(p)
      /\ secret' = (IF p.kind \in Issues THEN NewKey ELSE secret)
      /\ UNCHANGED <<view, stored, overtaken>>
  BY DEF PostAnswered, ClientInv, ClientsTypeOK, Post
<1>. HIDE DEF p
<1>2. /\ RowsKept
      /\ p.kind \in Issues => NewKey \in Key /\ issued' = issued \cup {NewKey}
      /\ p.kind \notin Issues => issued' = issued
  BY <1>1, ServedRows DEF ClientInv
<1>3. dialog' \in {dialog, NoDialog} BY <1>1 DEF Closes
<1>4. ShownExist' /\ DialogOk' /\ dialog' \in [kind : Kind \cup {"none"}, key : Key \cup {None}]
  BY <1>1, <1>2, <1>3, PageKept DEF view
<1>5. /\ posts' \in [Slot -> Post]
      /\ \A r \in Slot : PostOk(posts[r])'
      /\ \A r \in Slot : posts'[r] = IF r = s THEN NoPost ELSE posts[r]
  BY <1>1, <1>2, PostsKept
<1>6. clientLists' \subseteq Client \cup {None} /\ keyLists' \subseteq Client
  BY <1>1 DEF Rereads, Post, ClientInv, ClientsTypeOK
<1>7. secret' \in issued' \cup {None} /\ issued' \subseteq Key /\ stored' \subseteq issued'
  BY <1>1, <1>2 DEF ClientInv, ClientsTypeOK
<1>8. ClientsTypeOK'
  BY <1>1, <1>2, <1>4, <1>5, <1>6, <1>7 DEF RowsKept, ClientInv, ClientsTypeOK, Post, view
<1>9. OneSecret'
  <2>. SUFFICES ASSUME overtaken = {} PROVE OneSecret' BY <1>1 DEF OneSecret
  <2>1. OneSecret BY DEF ClientInv
  <2>2. \A r \in Slot : posts'[r].mounted BY <1>5, <2>1, NoPostType DEF OneSecret
  <2>3. \A r, q \in Slot : posts'[r].kind \in Issues /\ posts'[q].kind \in Issues => r = q
    BY <1>5, <2>1, NoPostType DEF OneSecret
  <2>4. CASE p.kind \in Issues
    <3>1. secret = None /\ issued \subseteq stored
      BY <2>1, <2>4, ClientsAssumption DEF OneSecret, p, ClientInv, ClientsTypeOK
    <3>2. \A r \in Slot : posts'[r].kind \notin Issues BY <1>5, <2>1, <2>4, NoPostType DEF OneSecret, p
    <3>. QED BY <1>1, <1>2, <2>2, <2>3, <2>4, <3>1, <3>2 DEF OneSecret
  <2>5. CASE p.kind \notin Issues
    <3>1. secret' = secret /\ issued' = issued /\ stored' = stored BY <1>1, <1>2, <2>5
    <3>2. \A r \in Slot : posts'[r].kind \in Issues => secret = None
      BY <1>5, <2>1, NoPostType DEF OneSecret
    <3>. QED BY <2>1, <2>2, <2>3, <3>1, <3>2 DEF OneSecret
  <2>. QED BY <2>4, <2>5
<1>. QED BY <1>4, <1>5, <1>8, <1>9 DEF ClientInv

\* A key that nobody was told of has its mark in what was overtaken.
LEMMA EndedInv ==
  ASSUME ClientInv, NEW s \in Slot, Done(s),
         \/ Admissible(posts[s]) /\ Served(posts[s]) /\ overtaken' # {}
         \/ UNCHANGED <<registry, issued>>,
         overtaken \subseteq overtaken', overtaken' \subseteq {"twice", "lost", "left"},
         UNCHANGED <<view, dialog, secret, reads, stored>>
  PROVE  ClientInv'
<1>. DEFINE p == posts[s]
<1>1. p \in Post /\ PostOk(p) BY DEF ClientInv, ClientsTypeOK, Post
<1>2. \/ RowsKept /\ issued \subseteq issued' /\ issued' \subseteq Key /\ overtaken' # {}
      \/ UNCHANGED <<registry, issued>>
  <2>. HIDE DEF p
  <2>1. Admissible(p) /\ Served(p) => RowsKept /\ issued \subseteq issued' /\ issued' \subseteq Key
    BY <1>1, ServedRows DEF ClientInv, ClientsTypeOK
  <2>. QED BY <2>1 DEF p
<1>3. RowsKept \/ UNCHANGED registry BY <1>2
<1>4. ShownExist' /\ DialogOk' BY <1>3, PageKept DEF view
<1>5. /\ posts' \in [Slot -> Post]
      /\ \A r \in Slot : PostOk(posts[r])'
      /\ \A r \in Slot : posts'[r] = IF r = s THEN NoPost ELSE posts[r]
  BY <1>3, PostsKept
<1>6. ClientsTypeOK'
  BY <1>2, <1>5 DEF RowsKept, ClientInv, ClientsTypeOK, Post, registry, view, reads
<1>7. OneSecret'
  <2>. SUFFICES ASSUME overtaken' = {} PROVE OneSecret' BY DEF OneSecret
  <2>1. OneSecret /\ overtaken = {} /\ issued' = issued BY <1>2 DEF ClientInv
  <2>. QED BY <1>5, <2>1, NoPostType DEF OneSecret
<1>. QED BY <1>4, <1>5, <1>6, <1>7 DEF ClientInv

LEMMA PostFailsInv == ASSUME ClientInv, NEW s \in Slot, PostFails(s) PROVE ClientInv'
BY EndedInv DEF PostFails, ClientInv, ClientsTypeOK

LEMMA PostServedLateInv == ASSUME ClientInv, NEW s \in Slot, PostServedLate(s) PROVE ClientInv'
BY EndedInv DEF PostServedLate, ClientInv, ClientsTypeOK, OneSecret

LEMMA StoreInv == ASSUME ClientInv, Store PROVE ClientInv'
<1>1. /\ stored' = stored \cup {secret} /\ secret' = None /\ secret # None
      /\ UNCHANGED <<registry, view, dialog, posts, reads, issued, overtaken>>
  BY DEF Store
<1>2. ClientsTypeOK' BY <1>1 DEF ClientInv, ClientsTypeOK, registry, view, reads
<1>3. ShownExist' /\ DialogOk' /\ \A s \in Slot : PostOk(posts[s])'
  BY <1>1 DEF ClientInv, ShownExist, DialogOk, PostOk, Exists, registry, view
<1>4. OneSecret' BY <1>1 DEF ClientInv, OneSecret
<1>. QED BY <1>2, <1>3, <1>4 DEF ClientInv

LEMMA MountedType ==
  ASSUME NEW p \in Post, NEW b \in BOOLEAN
  PROVE  LET q == [p EXCEPT !.mounted = b]
         IN  q \in Post /\ q.kind = p.kind /\ q.client = p.client /\ q.key = p.key /\ q.mounted = b
BY DEF Post

\* A page that is left takes no more answers.
LEMMA UnmountInv == ASSUME ClientInv, UnmountClients PROVE ClientInv'
<1>1. /\ UNCHANGED <<dialog, secret, registry, issued, stored>> /\ dialog = NoDialog
      /\ clients' = [c \in Client |-> "none"] /\ selected' = None /\ keys' = [k \in Key |-> "none"]
      /\ clientLists' = {} /\ keyLists' = {}
      /\ posts' = [s \in Slot |-> [posts[s] EXCEPT !.mounted = posts[s] = NoPost]]
      /\ overtaken' = overtaken \cup (IF \E s \in Slot : posts[s] # NoPost THEN {"left"} ELSE {})
  BY DEF UnmountClients, Bare
<1>2. ASSUME NEW s \in Slot
      PROVE  posts'[s] \in Post /\ posts'[s].kind = posts[s].kind /\ posts'[s].client = posts[s].client
             /\ posts'[s].key = posts[s].key /\ (posts'[s].mounted <=> posts[s] = NoPost)
  <2>1. posts[s] \in Post BY DEF ClientInv, ClientsTypeOK, Post
  <2>2. (posts[s] = NoPost) \in BOOLEAN OBVIOUS
  <2>3. posts'[s] = [posts[s] EXCEPT !.mounted = posts[s] = NoPost] BY <1>1
  <2>. QED BY <2>1, <2>2, <2>3, MountedType, ZenonT(60)
<1>3. posts' \in [Slot -> Post] BY <1>1, <1>2
<1>4. ClientsTypeOK' BY <1>1, <1>3 DEF ClientInv, ClientsTypeOK, Post, registry
<1>5. ShownExist' /\ DialogOk' BY <1>1 DEF ShownExist, DialogOk, NoDialog, Issues
<1>6. \A s \in Slot : PostOk(posts[s])' BY <1>1, <1>2 DEF ClientInv, PostOk, Exists, registry
<1>7. OneSecret' BY <1>1, <1>2 DEF ClientInv, OneSecret
<1>. QED BY <1>4, <1>5, <1>6, <1>7 DEF ClientInv
-----------------------------------------------------------------------------
(* The specification.                                                      *)

LEMMA ClientInvInit == ASSUME Init PROVE ClientInv
<1>1. ClientsTypeOK
  <2>1. \A k \in Key : Start[k] \in Client \cup {None} BY ClientsAssumption
  <2>2. owner \in [Key -> Client \cup {None}] BY ClientsAssumption DEF Init, ClientsInit
  <2>. QED BY <2>1, <2>2 DEF Init, ClientsInit, ClientsTypeOK, NoDialog, NoPost
<1>2. ShownExist /\ DialogOk /\ \A s \in Slot : PostOk(posts[s])
  BY DEF Init, ClientsInit, ShownExist, DialogOk, NoDialog, PostOk, NoPost, Issues
<1>3. OneSecret BY DEF Init, ClientsInit, OneSecret, NoPost, Issues
<1>. QED BY <1>1, <1>2, <1>3 DEF ClientInv

LEMMA ClientsStutter == ASSUME ClientInv, UNCHANGED clientKeys PROVE ClientInv'
<1>1. UNCHANGED <<registry, view, dialog, secret, posts, reads, history>> BY DEF clientKeys
<1>2. ShownExist' /\ DialogOk' BY <1>1 DEF ClientInv, ShownExist, DialogOk, Exists, registry, view
<1>. QED BY <1>1, <1>2, PageStep DEF ClientInv, ClientsTypeOK, view, reads

LEMMA ClientsNextInv == ASSUME ClientInv, ClientsNext PROVE ClientInv'
<1>1. CASE \E c \in Client : PickClient(c) BY <1>1, PickInv
<1>2. CASE \E c \in Client : KeysArrive(c) BY <1>2, KeysArriveInv
<1>3. CASE \E c \in Client : KeysFail(c) BY <1>3, ReadsFailInv
<1>4. CASE \E kind \in Kind, k \in Key \cup {None} : OpenDialog(kind, k) BY <1>4, OpenInv
<1>5. CASE Cancel BY <1>5, CancelInv
<1>6. CASE Store BY <1>6, StoreInv
<1>7. CASE \E s \in Slot : Submit(s) BY <1>7, SubmitInv
<1>8. CASE \E s \in Slot : Disable(s) BY <1>8, DisableInv
<1>9. CASE \E s \in Slot : PostAnswered(s) BY <1>9, PostAnsweredInv
<1>10. CASE \E s \in Slot : PostFails(s) BY <1>10, PostFailsInv
<1>11. CASE \E s \in Slot : PostServedLate(s) BY <1>11, PostServedLateInv
<1>12. CASE \E s \in Slot, k \in Key : Revoke(s, k) BY <1>12, RevokeInv
<1>13. CASE \E c \in Client \cup {None} : ClientsArrive(c) BY <1>13, ClientsArriveInv
<1>14. CASE \E c \in Client \cup {None} : ClientsFail(c) BY <1>14, ReadsFailInv
<1>. QED
  BY <1>1, <1>2, <1>3, <1>4, <1>5, <1>6, <1>7, <1>8, <1>9, <1>10, <1>11, <1>12, <1>13, <1>14
  DEF ClientsNext

LEMMA NextInv == ASSUME ClientInv, [Next]_vars PROVE ClientInv'
<1>1. CASE \E to \in Area : SetArea(to)
  <2>1. UnmountClients \/ MountClients \/ UNCHANGED clientKeys BY <1>1 DEF SetArea
  <2>. QED BY <2>1, UnmountInv, ReadsFailInv, ClientsStutter
<1>2. CASE ReportsNext /\ UNCHANGED clientKeys BY <1>2, ClientsStutter
<1>3. CASE ClientsNext BY <1>3, ClientsNextInv
<1>4. CASE UNCHANGED vars BY <1>4, ClientsStutter DEF vars
<1>. QED BY <1>1, <1>2, <1>3, <1>4 DEF Next

\* What is shown, edited and asked for refers to keys that are there, for any clients, keys
\* and requests (App.tsx 1278-1334).
THEOREM ClientsCorrect == Spec => []ClientInv
<1>1. Init => ClientInv BY ClientInvInit
<1>2. ClientInv /\ [Next]_vars => ClientInv' BY NextInv
<1>. QED BY <1>1, <1>2, PTL DEF Spec

\* The one answer a key's plaintext is in reaches the user, whatever dialog, client or list
\* is there when it comes (App.tsx 1332-1334).
THEOREM SecretsReachUser == Spec => []SecretsKept
<1>1. ClientInv => SecretsKept BY DEF ClientInv, OneSecret, SecretsKept
<1>. QED BY <1>1, ClientsCorrect, PTL
-----------------------------------------------------------------------------
(* Retries.  The detail that the retry button looks at knows of every      *)
(* retry, but for the one that has just been answered (Fresh): that one's  *)
(* report is opened before another may be sent (Linked).                   *)

\* As much of the types as a retry needs.
RetryTypes ==
  /\ phase \in [Job -> Phase \cup {"none"}] /\ parent \in [Job -> Job \cup {NoJob}]
  /\ applied \in Filters /\ offset \in Nat
  /\ detail \in [job : Job \cup {NoJob}, phase : Phase \cup {"none"}, children : SUBSET Job]
  /\ detail.phase # "none" => detail.job \in Job
  /\ orphans \subseteq [kind : {"retry", "recover"}, job : Job]
  /\ lists \subseteq [filter : Filters, offset : Nat]
  /\ op \in [stage : {"idle", "post", "after"}, kind : {"none", "retry", "recover"},
             job : Job \cup {NoJob}, seen : SUBSET Job, next : Nat,
             filter : Filters, offset : Nat, listed : BOOLEAN, healthy : BOOLEAN]

OpOk ==
  /\ ~busy => op.stage = "idle"
  /\ op.stage \in {"post", "after"} => op.job \in Job /\ op.kind \in {"retry", "recover"}
  /\ op.stage = "after" /\ op.kind = "retry" => op.next \notin {op.job, NoJob}

Answering(j) == op.stage = "after" /\ op.kind = "retry" /\ op.job = j

Fresh ==
  details = {} /\ detail.phase = "failed" =>
    detail.children = Children(detail.job) \/ Answering(detail.job)

Linked ==
  /\ NoJob \notin details
  /\ reported # NoJob => details \subseteq {reported}
  /\ reported # NoJob /\ details = {} => detail.job \in {reported, NoJob}

Informed == op.stage = "post" /\ op.kind = "retry" => op.seen = Children(op.job)

RetryInv ==
  /\ RetryTypes
  /\ OpOk
  /\ crossed = {} => orphans = {} /\ Fresh /\ Linked /\ Informed

LEMMA GreatestInSet ==
  ASSUME NEW n \in Nat, NEW S \in SUBSET (0 .. n), S # {}
  PROVE  Max(S) \in S /\ \A x \in S : x =< Max(S)
<1>. DEFINE T == {m \in 0 .. n : n - m \in S}
<1>1. T \in SUBSET Nat OBVIOUS
<1>2. T # {}
  <2>1. PICK x \in S : TRUE OBVIOUS
  <2>2. n - x \in 0 .. n /\ n - (n - x) = x OBVIOUS
  <2>. QED BY <2>1, <2>2
<1>3. PICK m \in T : \A y \in T : <<y, m>> \notin Less BY <1>1, <1>2, LessWellFounded, WFMin
<1>4. ASSUME NEW x \in S PROVE n - m >= x
  <2>1. n - x \in T
    <3>1. n - x \in 0 .. n /\ n - (n - x) = x OBVIOUS
    <3>. QED BY <3>1
  <2>2. <<n - x, m>> \in Nat \X Nat BY <1>1, <2>1
  <2>3. ~ (n - x < m) BY <1>3, <2>1, <2>2 DEF Less
  <2>. QED BY <2>1, <2>3
<1>5. n - m \in S OBVIOUS
<1>6. \E x \in S : \A y \in S : x >= y BY <1>4, <1>5
<1>7. Max(S) \in S /\ \A y \in S : Max(S) >= y BY <1>6 DEF Max
<1>. QED BY <1>7

\* A new report has a number of its own.
LEMMA NewJobNew == NewJob \in Nat /\ NewJob # NoJob /\ NewJob \notin Jobs
<1>. DEFINE S == Jobs \cup {0}
<1>1. S \in SUBSET (0 .. MaxJob) /\ S # {} /\ MaxJob \in Nat BY ReportsAssumption DEF Jobs, Job
<1>. HIDE DEF S
<1>2. Max(S) \in 0 .. MaxJob /\ \A x \in S : x =< Max(S) BY <1>1, GreatestInSet
<1>3. NewJob = 1 + Max(S) BY DEF NewJob, S
<1>4. \A x \in S : x # 1 + Max(S) BY <1>1, <1>2
<1>5. NewJob \notin S BY <1>3, <1>4
<1>. QED BY <1>2, <1>3, <1>5 DEF S, NoJob

\* A new report becomes a retry of its parent, and of no other.
LEMMA InsertKeeps ==
  ASSUME RetryTypes, NEW p \in Job \cup {NoJob}, Insert(p)
  PROVE  /\ phase' \in [Job -> Phase \cup {"none"}] /\ parent' \in [Job -> Job \cup {NoJob}]
         /\ \A j \in Job : j # p => Children(j)' = Children(j)
<1>1. /\ phase' = [phase EXCEPT ![NewJob] = "queued"] /\ parent' = [parent EXCEPT ![NewJob] = p]
      /\ NewJob \notin Jobs
  BY NewJobNew DEF Insert
<1>2. phase' \in [Job -> Phase \cup {"none"}] /\ parent' \in [Job -> Job \cup {NoJob}]
  BY <1>1 DEF RetryTypes, Phase
<1>3. ASSUME NEW j \in Job, j # p PROVE Children(j)' = Children(j)
  BY <1>1, <1>3 DEF RetryTypes, Children, Jobs
<1>. QED BY <1>2, <1>3
LEMMA OperatedKeeps ==
  ASSUME RetryTypes, NEW kind \in {"retry", "recover"}, NEW j \in Job, Operated(kind, j)
  PROVE  /\ phase' \in [Job -> Phase \cup {"none"}] /\ parent' \in [Job -> Job \cup {NoJob}]
         /\ \A i \in Job : i # j \/ kind = "recover" => Children(i)' = Children(i)
         /\ kind = "retry" => NewJob \notin {j, NoJob}
<1>1. CASE kind = "retry"
  <2>1. phase[j] = "failed" /\ Insert(j) BY <1>1 DEF Operated
  <2>2. j \in Jobs BY <2>1 DEF Jobs
  <2>. QED BY <1>1, <2>1, <2>2, InsertKeeps, NewJobNew
<1>2. CASE kind = "recover"
  <2>1. phase[j] = "processing" /\ phase' = [phase EXCEPT ![j] = "queued"] /\ parent' = parent
    BY <1>2 DEF Operated
  <2>2. phase' \in [Job -> Phase \cup {"none"}] /\ parent' \in [Job -> Job \cup {NoJob}]
    BY <2>1 DEF RetryTypes, Phase
  <2>3. \A i \in Job : Children(i)' = Children(i) BY <2>1 DEF RetryTypes, Children, Jobs
  <2>. QED BY <1>2, <2>2, <2>3
<1>. QED BY <1>1, <1>2

\* Opening a report waits for its detail; details that overtake each other are marked.
LEMMA SelectLinks ==
  ASSUME NEW j, SelectReport(j)
  PROVE  /\ crossed \subseteq crossed' /\ details \subseteq details' /\ reported' = j
         /\ detail' \in {detail, NoDetail}
         /\ crossed' = {} /\ Linked => Linked'
         /\ j \notin {reported, NoJob} => details' # {}
<1>1. CASE j = reported
  <2>1. UNCHANGED <<reported, detail, details, crossed>> BY <1>1 DEF SelectReport
  <2>. QED BY <1>1, <2>1 DEF Linked
<1>2. CASE j # reported /\ j = NoJob
  <2>1. reported' = NoJob /\ detail' = NoDetail /\ UNCHANGED <<details, crossed>>
    BY <1>2 DEF SelectReport, Ask
  <2>. QED BY <1>2, <2>1 DEF Linked
<1>3. CASE j # reported /\ j # NoJob
  <2>1. /\ reported' = j /\ details' = details \cup {j} /\ detail' = detail
        /\ crossed' = crossed \cup IF details # {} THEN {"detail"} ELSE {}
    BY <1>3 DEF SelectReport, Ask
  <2>. QED BY <1>3, <2>1 DEF Linked
<1>. QED BY <1>1, <1>2, <1>3

LEMMA NoDetailType ==
  /\ NoDetail \in [job : Job \cup {NoJob}, phase : Phase \cup {"none"}, children : SUBSET Job]
  /\ NoDetail.phase = "none" /\ NoDetail.job = NoJob
BY DEF NoDetail

LEMMA ReadType ==
  ASSUME RetryTypes, NEW j \in Job
  PROVE  /\ Read(j) \in [job : Job \cup {NoJob}, phase : Phase \cup {"none"}, children : SUBSET Job]
         /\ Read(j).job = j /\ Read(j).children = Children(j)
BY DEF Read, RetryTypes, Children, Jobs

\* The page moves on while the server and the operation in progress stay.
LEMMA PageMoves ==
  ASSUME RetryInv, UNCHANGED <<table, op, orphans, busy>>,
         applied' \in Filters, offset' \in Nat, lists' \subseteq [filter : Filters, offset : Nat],
         detail' \in {detail, NoDetail}, details \subseteq details', crossed \subseteq crossed',
         crossed' = {} /\ Linked => Linked'
  PROVE  RetryInv'
<1>1. RetryTypes' BY NoDetailType DEF RetryInv, RetryTypes, table
<1>2. OpOk' BY DEF RetryInv, OpOk
<1>3. ASSUME crossed' = {} PROVE orphans' = {} /\ Fresh' /\ Linked' /\ Informed'
  <2>1. crossed = {} /\ orphans = {} /\ Fresh /\ Linked /\ Informed BY <1>3 DEF RetryInv
  <2>2. \A j \in Job : Children(j)' = Children(j) BY DEF Children, Jobs, table
  <2>3. Fresh'
    <3>1. CASE detail' = NoDetail BY <3>1, NoDetailType DEF Fresh
    <3>2. CASE detail' = detail
      BY <2>1, <2>2, <3>2 DEF Fresh, Answering, RetryInv, RetryTypes
    <3>. QED BY <3>1, <3>2
  <2>4. Informed' BY <2>1, <2>2 DEF Informed, RetryInv, OpOk
  <2>. QED BY <1>3, <2>1, <2>3, <2>4
<1>. QED BY <1>1, <1>2, <1>3 DEF RetryInv

LEMMA ListsType ==
  ASSUME RetryTypes, NEW filter \in Filters, NEW n \in Nat
  PROVE  lists \cup {[filter |-> filter, offset |-> n]} \subseteq [filter : Filters, offset : Nat]
BY DEF RetryTypes

LEMMA PageStepsInv ==
  ASSUME RetryInv,
         \/ \E filter \in Filters : Apply(filter)
         \/ \E to \in 0 .. MaxJob : Turn(to)
         \/ \E j \in Job : PickReport(j)
         \/ \E l \in lists : ListArrives(l) \/ ListFails(l)
         \/ Refresh \/ MountReports
  PROVE  RetryInv'
<1>1. ASSUME NEW filter \in Filters, Apply(filter) PROVE RetryInv'
  <2>1. lists' \subseteq [filter : Filters, offset : Nat]
    BY <1>1, ListsType DEF Apply, RetryInv, RetryTypes
  <2>2. UNCHANGED <<table, op, orphans, busy, crossed, shown>> /\ applied' = filter /\ offset' = 0
    BY <1>1 DEF Apply
  <2>3. Linked => Linked' BY <2>2 DEF Linked, shown
  <2>. QED BY <2>1, <2>2, <2>3, PageMoves DEF shown
<1>2. ASSUME NEW to \in 0 .. MaxJob, Turn(to) PROVE RetryInv'
  <2>1. /\ UNCHANGED <<table, list, op, orphans, busy, crossed, shown>>
        /\ lists' = lists \cup {[filter |-> applied, offset |-> to]}
    BY <1>2 DEF Turn
  <2>2. to \in Nat BY ReportsAssumption
  <2>3. lists' \subseteq [filter : Filters, offset : Nat] BY <2>1, <2>2, ListsType DEF RetryInv, RetryTypes
  <2>4. Linked => Linked' BY <2>1 DEF Linked, shown
  <2>. QED BY <2>1, <2>3, <2>4, PageMoves DEF shown, list, RetryInv, RetryTypes
<1>3. ASSUME NEW j \in Job, PickReport(j) PROVE RetryInv'
  <2>1. SelectReport(j) /\ UNCHANGED <<table, list, busy, lists, op, orphans>> BY <1>3 DEF PickReport
  <2>. QED BY <2>1, SelectLinks, PageMoves DEF list, RetryInv, RetryTypes
<1>4. ASSUME NEW l \in lists, ListArrives(l) PROVE RetryInv'
  <2>1. /\ SelectReport(Kept(ListOf(l.filter, l.offset).items)) /\ UNCHANGED <<table, busy, op, orphans>>
        /\ lists' = lists \ {l} /\ offset' = l.offset /\ applied' = applied
    BY <1>4 DEF ListArrives, Take
  <2>2. l.offset \in Nat BY DEF RetryInv, RetryTypes
  <2>. QED BY <2>1, <2>2, SelectLinks, PageMoves DEF RetryInv, RetryTypes
<1>5. ASSUME NEW l \in lists, ListFails(l) PROVE RetryInv'
  <2>1. UNCHANGED <<table, list, shown, busy, op, orphans, crossed>> /\ lists' = lists \ {l}
    BY <1>5 DEF ListFails
  <2>2. Linked => Linked' BY <2>1 DEF Linked, shown
  <2>. QED BY <2>1, <2>2, PageMoves DEF list, shown, RetryInv, RetryTypes
<1>6. ASSUME Refresh PROVE RetryInv'
  <2>1. /\ Ask(reported, details) /\ UNCHANGED <<table, list, reported, busy, op, orphans>>
        /\ lists' = lists \cup {[filter |-> applied, offset |-> offset]}
    BY <1>6 DEF Refresh
  <2>2. lists' \subseteq [filter : Filters, offset : Nat] BY <2>1, ListsType DEF RetryInv, RetryTypes
  <2>3. /\ detail' \in {detail, NoDetail} /\ details \subseteq details' /\ crossed \subseteq crossed'
        /\ crossed' = {} /\ Linked => Linked'
    <3>1. CASE reported = NoJob
      <4>1. detail' = NoDetail /\ details' = details /\ crossed' = crossed BY <2>1, <3>1 DEF Ask
      <4>. QED BY <2>1, <3>1, <4>1 DEF Linked
    <3>2. CASE reported # NoJob
      <4>1. /\ detail' = detail /\ details' = details \cup {reported}
            /\ crossed' = crossed \cup IF details # {} THEN {"detail"} ELSE {}
        BY <2>1, <3>2 DEF Ask
      <4>. QED BY <2>1, <3>2, <4>1 DEF Linked
    <3>. QED BY <3>1, <3>2
  <2>. QED BY <2>1, <2>2, <2>3, PageMoves DEF list, RetryInv, RetryTypes
<1>7. ASSUME MountReports PROVE RetryInv'
  <2>1. UNCHANGED <<table, list, shown, busy, op, orphans, crossed>>
        /\ lists' = {[filter |-> applied, offset |-> 0]}
    BY <1>7 DEF MountReports
  <2>2. Linked => Linked' BY <2>1 DEF Linked, shown
  <2>. QED BY <2>1, <2>2, PageMoves DEF list, shown, RetryInv, RetryTypes
<1>. QED BY <1>1, <1>2, <1>3, <1>4, <1>5, <1>6, <1>7
\* Reports come, run and are operated on by others; only a retry has a parent.
LEMMA OthersInv == ASSUME RetryInv, Submitted \/ Worked PROVE RetryInv'
<1>1. /\ UNCHANGED <<list, shown, busy, lists, op, orphans, crossed>>
      /\ phase' \in [Job -> Phase \cup {"none"}] /\ parent' \in [Job -> Job \cup {NoJob}]
      /\ \A j \in Job : Children(j)' = Children(j)
  <2>1. CASE Submitted
    <3>1. Insert(NoJob) /\ UNCHANGED <<list, shown, busy, lists, op, orphans, crossed>>
      BY <2>1 DEF Submitted, Quiet
    <3>2. \A j \in Job : j # NoJob BY DEF Job, NoJob
    <3>. QED BY <3>1, <3>2, InsertKeeps DEF RetryInv
  <2>2. CASE Worked
    <3>1. PICK j \in Jobs, next \in Phase : phase' = [phase EXCEPT ![j] = next]
      BY <2>2 DEF Worked
    <3>2. UNCHANGED <<parent, list, shown, busy, lists, op, orphans, crossed>> BY <2>2 DEF Worked
    <3>3. phase' \in [Job -> Phase \cup {"none"}] BY <3>1 DEF RetryInv, RetryTypes
    <3>4. Jobs' = Jobs BY <3>1 DEF RetryInv, RetryTypes, Jobs, Phase
    <3>. QED BY <3>2, <3>3, <3>4 DEF Children, RetryInv, RetryTypes
  <2>. QED BY <2>1, <2>2
<1>2. RetryTypes' /\ OpOk' BY <1>1 DEF RetryInv, RetryTypes, OpOk, list, shown
<1>3. Fresh => Fresh' BY <1>1 DEF Fresh, Answering, RetryInv, RetryTypes, shown
<1>4. Linked => Linked' BY <1>1 DEF Linked, shown
<1>5. Informed => Informed' BY <1>1 DEF Informed, RetryInv, OpOk
<1>. QED BY <1>1, <1>2, <1>3, <1>4, <1>5 DEF RetryInv

LEMMA OperatesLateInv == ASSUME RetryInv, OperatesLate PROVE RetryInv'
<1>1. /\ \E o \in orphans : orphans' = orphans \ {o} /\ (Operated(o.kind, o.job) \/ UNCHANGED table)
      /\ UNCHANGED <<list, shown, busy, lists, op, crossed>>
  BY DEF OperatesLate
<1>2. phase' \in [Job -> Phase \cup {"none"}] /\ parent' \in [Job -> Job \cup {NoJob}]
  <2>1. PICK o \in orphans : Operated(o.kind, o.job) \/ UNCHANGED table BY <1>1
  <2>2. o.kind \in {"retry", "recover"} /\ o.job \in Job BY DEF RetryInv, RetryTypes
  <2>. HIDE DEF Operated
  <2>3. CASE Operated(o.kind, o.job) BY <2>2, <2>3, OperatedKeeps DEF RetryInv
  <2>4. CASE UNCHANGED table BY <2>4 DEF RetryInv, RetryTypes, table
  <2>. QED BY <2>1, <2>3, <2>4
<1>3. RetryTypes' /\ OpOk' BY <1>1, <1>2 DEF RetryInv, RetryTypes, OpOk, list, shown
<1>4. crossed' # {} BY <1>1 DEF RetryInv
<1>. QED BY <1>3, <1>4 DEF RetryInv

\* A detail that arrives is what the server has.
LEMMA DetailArrivesInv == ASSUME RetryInv, NEW j \in Job, DetailArrives(j) PROVE RetryInv'
<1>1. /\ j \in details /\ details' = details \ {j} /\ detail' = Read(j)
      /\ UNCHANGED <<table, list, reported, busy, lists, op, orphans, crossed>>
  BY DEF DetailArrives
<1>2. RetryTypes' /\ OpOk' BY <1>1, ReadType DEF RetryInv, RetryTypes, OpOk, list, table
<1>3. Children(j)' = Children(j) BY <1>1 DEF Children, Jobs, table
<1>4. Fresh' BY <1>1, <1>3, ReadType DEF Fresh, RetryInv
<1>5. Linked => Linked' BY <1>1, ReadType DEF Linked, RetryInv
<1>6. Informed => Informed' BY <1>1 DEF Informed, Children, Jobs, table
<1>. QED BY <1>1, <1>2, <1>4, <1>5, <1>6 DEF RetryInv

LEMMA DetailFailsInv == ASSUME RetryInv, NEW j \in Job, DetailFails(j) PROVE RetryInv'
<1>1. /\ UNCHANGED <<table, list, reported, detail, busy, lists, op, orphans>>
      /\ crossed' = crossed \cup {"lost"}
  BY DEF DetailFails
<1>2. RetryTypes' /\ OpOk' BY <1>1 DEF RetryInv, RetryTypes, OpOk, list, table
<1>. QED BY <1>1, <1>2 DEF RetryInv

\* A page that is left forgets its operation; a request it has sent is marked.
LEMMA UnmountReportsInv == ASSUME RetryInv, UnmountReports PROVE RetryInv'
<1>1. /\ applied' = Phase /\ offset' = 0 /\ detail' = NoDetail /\ details' = {} /\ lists' = {}
      /\ reported' = NoJob /\ op' = NoOp /\ UNCHANGED table
      /\ orphans' = orphans \cup (IF op.stage = "post" THEN {[kind |-> op.kind, job |-> op.job]} ELSE {})
      /\ crossed' = crossed \cup (IF op.stage = "post" THEN {"left"} ELSE {})
  BY DEF UnmountReports
<1>2. /\ op' \in [stage : {"idle", "post", "after"}, kind : {"none", "retry", "recover"},
                  job : Job \cup {NoJob}, seen : SUBSET Job, next : Nat,
                  filter : Filters, offset : Nat, listed : BOOLEAN, healthy : BOOLEAN]
      /\ op'.stage = "idle"
  BY <1>1, ReportsAssumption DEF NoOp, NoJob
<1>3. orphans' \subseteq [kind : {"retry", "recover"}, job : Job]
  BY <1>1 DEF RetryInv, RetryTypes, OpOk
<1>4. RetryTypes' BY <1>1, <1>2, <1>3, NoDetailType, ReportsAssumption DEF RetryInv, RetryTypes, table
<1>5. OpOk' BY <1>2 DEF OpOk
<1>6. Fresh' /\ Linked' /\ Informed' BY <1>1, <1>2, NoDetailType DEF Fresh, Linked, Informed
<1>7. crossed' = {} => orphans' = {} BY <1>1 DEF RetryInv
<1>. QED BY <1>4, <1>5, <1>6, <1>7 DEF RetryInv

-----------------------------------------------------------------------------
(* operate.                                                                *)

NoOpFacts ==
  /\ op' \in [stage : {"idle", "post", "after"}, kind : {"none", "retry", "recover"},
             job : Job \cup {NoJob}, seen : SUBSET Job, next : Nat,
             filter : Filters, offset : Nat, listed : BOOLEAN, healthy : BOOLEAN]
  /\ op'.stage = "idle"

LEMMA BusyStays == ASSUME busy, busy' = busy PROVE busy'
BY Zenon

LEMMA OverType == ASSUME Over PROVE NoOpFacts
BY ReportsAssumption DEF NoOpFacts, Over, NoOp, NoJob

\* The button looks at a detail that knows of every retry.
LEMMA OperateInv ==
  ASSUME RetryInv, NEW kind \in {"retry", "recover"}, Operate(kind)
  PROVE  RetryInv'
<1>1. /\ UNCHANGED <<table, list, shown, lists, orphans>> /\ busy' = TRUE
      /\ detail.phase # "none" /\ (kind = "retry" => detail.phase = "failed")
      /\ op' = [NoOp EXCEPT !.stage = "post", !.kind = kind, !.job = detail.job,
                            !.seen = detail.children, !.filter = applied, !.offset = offset]
      /\ crossed' = crossed \cup IF details # {} THEN {"detail"} ELSE {}
      /\ op.stage = "idle"
  BY DEF Operate, RetryInv, OpOk
<1>2. op'.stage = "post" /\ op'.kind = kind /\ op'.job = detail.job /\ op'.seen = detail.children
  BY <1>1 DEF NoOp
<1>3. op' \in [stage : {"idle", "post", "after"}, kind : {"none", "retry", "recover"},
              job : Job \cup {NoJob}, seen : SUBSET Job, next : Nat,
              filter : Filters, offset : Nat, listed : BOOLEAN, healthy : BOOLEAN]
  <2>1. /\ detail.job \in Job \cup {NoJob} /\ detail.children \in SUBSET Job
        /\ applied \in Filters /\ offset \in Nat
    BY DEF RetryInv, RetryTypes
  <2>. QED BY <1>1, <2>1 DEF NoOp, NoJob
<1>4. RetryTypes' BY <1>1, <1>3 DEF RetryInv, RetryTypes, list, shown, table
<1>5. OpOk' BY <1>1, <1>2 DEF OpOk, RetryInv, RetryTypes
<1>6. ASSUME crossed' = {} PROVE orphans' = {} /\ Fresh' /\ Linked' /\ Informed'
  <2>1. crossed = {} /\ details = {} /\ orphans' = {} BY <1>1, <1>6 DEF RetryInv
  <2>2. Fresh /\ Linked BY <2>1 DEF RetryInv
  <2>3. detail.phase = "failed" => detail.children = Children(detail.job)
    BY <1>1, <2>1, <2>2 DEF Fresh, Answering
  <2>4. \A j : Children(j)' = Children(j) BY <1>1 DEF Children, Jobs, table
  <2>5. Fresh' BY <1>1, <2>3, <2>4 DEF Fresh, shown
  <2>6. Informed' BY <1>1, <1>2, <2>3, <2>4 DEF Informed
  <2>7. Linked' BY <1>1, <2>2 DEF Linked, shown
  <2>. QED BY <2>1, <2>5, <2>6, <2>7
<1>. QED BY <1>4, <1>5, <1>6 DEF RetryInv

LEMMA OperateAnsweredInv == ASSUME RetryInv, OperateAnswered PROVE RetryInv'
<1>1. /\ op.stage = "post" /\ Operated(op.kind, op.job)
      /\ op' = [op EXCEPT !.stage = "after", !.next = IF op.kind = "retry" THEN NewJob ELSE op.job]
      /\ UNCHANGED <<list, shown, busy, lists, orphans, crossed>>
  BY DEF OperateAnswered
<1>2. op.job \in Job /\ op.kind \in {"retry", "recover"} BY <1>1 DEF RetryInv, OpOk
<1>3. /\ phase' \in [Job -> Phase \cup {"none"}] /\ parent' \in [Job -> Job \cup {NoJob}]
      /\ \A i \in Job : i # op.job \/ op.kind = "recover" => Children(i)' = Children(i)
      /\ op.kind = "retry" => NewJob \notin {op.job, NoJob}
  BY <1>1, <1>2, OperatedKeeps DEF RetryInv
<1>4. /\ op' \in [stage : {"idle", "post", "after"}, kind : {"none", "retry", "recover"},
                  job : Job \cup {NoJob}, seen : SUBSET Job, next : Nat,
                  filter : Filters, offset : Nat, listed : BOOLEAN, healthy : BOOLEAN]
      /\ op'.stage = "after" /\ op'.kind = op.kind /\ op'.job = op.job
      /\ op.kind = "retry" => op'.next = NewJob
  <2>1. (IF op.kind = "retry" THEN NewJob ELSE op.job) \in Nat BY <1>2, NewJobNew DEF Job
  <2>. QED BY <1>1, <2>1 DEF RetryInv, RetryTypes
<1>5. RetryTypes' BY <1>1, <1>3, <1>4 DEF RetryInv, RetryTypes, list, shown
<1>6. OpOk'
  <2>1. busy BY <1>1 DEF RetryInv, OpOk
  <2>2. busy' = busy BY <1>1
  <2>3. busy' BY <2>1, <2>2, BusyStays
  <2>. QED BY <1>2, <1>3, <1>4, <2>3 DEF OpOk
<1>7. Fresh => Fresh'
  <2>. SUFFICES ASSUME Fresh, details = {}, detail.phase = "failed"
               PROVE  detail.children = Children(detail.job)' \/ Answering(detail.job)'
    BY <1>1 DEF Fresh, shown
  <2>1. detail.job \in Job /\ detail.children = Children(detail.job)
    BY <1>1 DEF Fresh, Answering, RetryInv, RetryTypes
  <2>2. detail' = detail BY <1>1 DEF shown
  <2>. QED BY <1>2, <1>3, <1>4, <2>1, <2>2 DEF Answering
<1>8. Linked => Linked' BY <1>1 DEF Linked, shown
<1>9. Informed' BY <1>4 DEF Informed
<1>. QED BY <1>1, <1>5, <1>6, <1>7, <1>8, <1>9 DEF RetryInv
LEMMA OperateFailsInv == ASSUME RetryInv, OperateFails PROVE RetryInv'
<1>1. /\ op.stage = "post" /\ Over /\ UNCHANGED <<list, shown, lists, orphans>>
      /\ \/ UNCHANGED <<table, crossed>>
         \/ Operated(op.kind, op.job) /\ crossed' = crossed \cup {"lost"}
  BY DEF OperateFails
<1>2. op.job \in Job /\ op.kind \in {"retry", "recover"} BY <1>1 DEF RetryInv, OpOk
<1>3. phase' \in [Job -> Phase \cup {"none"}] /\ parent' \in [Job -> Job \cup {NoJob}]
  <2>1. CASE UNCHANGED table BY <2>1 DEF RetryInv, RetryTypes, table
  <2>2. CASE Operated(op.kind, op.job) BY <1>2, <2>2, OperatedKeeps DEF RetryInv
  <2>. QED BY <1>1, <2>1, <2>2
<1>4. NoOpFacts BY <1>1, OverType
<1>5. RetryTypes' BY <1>1, <1>3, <1>4 DEF RetryInv, RetryTypes, list, shown, NoOpFacts
<1>6. OpOk' BY <1>4 DEF OpOk, NoOpFacts
<1>7. ASSUME crossed' = {} PROVE orphans' = {} /\ Fresh' /\ Linked' /\ Informed'
  <2>1. UNCHANGED <<table, crossed, shown, orphans>> BY <1>1, <1>7
  <2>2. orphans = {} /\ Fresh /\ Linked BY <1>7, <2>1 DEF RetryInv
  <2>3. \A j : Children(j)' = Children(j) BY <2>1 DEF Children, Jobs, table
  <2>4. Fresh' BY <1>1, <2>1, <2>2, <2>3 DEF Fresh, Answering, shown
  <2>5. Linked' BY <2>1, <2>2 DEF Linked, shown
  <2>6. Informed' BY <1>4 DEF Informed, NoOpFacts
  <2>. QED BY <2>1, <2>2, <2>4, <2>5, <2>6
<1>. QED BY <1>5, <1>6, <1>7 DEF RetryInv

\* When lists and health are there the report that results is opened: the detail of another
\* is on the way.
LEMMA OpensNextInv ==
  ASSUME RetryInv, op.stage = "after", SelectReport(op.next), Over,
         UNCHANGED <<table, lists, orphans, applied>>, offset' \in Nat
  PROVE  RetryInv'
<1>1. NoOpFacts BY OverType
<1>2. /\ crossed \subseteq crossed' /\ details \subseteq details'
      /\ detail' \in {detail, NoDetail}
      /\ crossed' = {} /\ Linked => Linked'
      /\ op.next \notin {reported, NoJob} => details' # {}
  BY SelectLinks
<1>3. RetryTypes' BY <1>1, <1>2, NoDetailType DEF RetryInv, RetryTypes, table, NoOpFacts
<1>4. OpOk' BY <1>1 DEF OpOk, NoOpFacts
<1>5. ASSUME crossed' = {} PROVE orphans' = {} /\ Fresh' /\ Linked' /\ Informed'
  <2>1. crossed = {} /\ orphans = {} /\ Fresh /\ Linked BY <1>2, <1>5 DEF RetryInv
  <2>2. \A j : Children(j)' = Children(j) BY DEF Children, Jobs, table
  <2>3. Fresh'
    <3>. SUFFICES ASSUME details' = {}, detail' = detail, detail.phase = "failed"
                 PROVE  detail.children = Children(detail.job)
      BY <1>2, <2>2, NoDetailType DEF Fresh
    <3>1. details = {} BY <1>2
    <3>2. op.next \in {reported, NoJob} BY <1>2
    <3>3. detail.job \in Job /\ detail.job # NoJob BY DEF RetryInv, RetryTypes, Job, NoJob
    <3>4. ~Answering(detail.job)
      <4>. SUFFICES ASSUME op.kind = "retry", op.job = detail.job PROVE FALSE BY DEF Answering
      <4>1. op.next \notin {op.job, NoJob} BY DEF RetryInv, OpOk
      <4>2. op.next = reported /\ reported # NoJob BY <3>2, <4>1
      <4>3. detail.job = reported BY <2>1, <3>1, <3>3, <4>2 DEF Linked
      <4>. QED BY <4>1, <4>2, <4>3
    <3>. QED BY <2>1, <3>1, <3>4 DEF Fresh
  <2>4. Informed' BY <1>1 DEF Informed, NoOpFacts
  <2>. QED BY <1>2, <1>5, <2>1, <2>3, <2>4
<1>. QED BY <1>3, <1>4, <1>5 DEF RetryInv

\* One of the two answers, before the other: the operation goes on.
LEMMA OneAnswersInv ==
  ASSUME RetryInv, op.stage = "after",
         op' = [op EXCEPT !.listed = TRUE] \/ op' = [op EXCEPT !.healthy = TRUE],
         UNCHANGED <<table, lists, orphans, applied, busy>>, offset' \in Nat,
         \/ \E j : SelectReport(j)
         \/ UNCHANGED <<shown, crossed>>
  PROVE  RetryInv'
<1>1. /\ op' \in [stage : {"idle", "post", "after"}, kind : {"none", "retry", "recover"},
                  job : Job \cup {NoJob}, seen : SUBSET Job, next : Nat,
                  filter : Filters, offset : Nat, listed : BOOLEAN, healthy : BOOLEAN]
      /\ op'.stage = op.stage /\ op'.kind = op.kind /\ op'.job = op.job /\ op'.next = op.next
  BY ZenonT(60) DEF RetryInv, RetryTypes
<1>2. /\ crossed \subseteq crossed' /\ details \subseteq details'
      /\ detail' \in {detail, NoDetail}
      /\ crossed' = {} /\ Linked => Linked'
  <2>1. CASE \E j : SelectReport(j) BY <2>1, SelectLinks
  <2>2. CASE UNCHANGED <<shown, crossed>> BY <2>2 DEF shown, Linked
  <2>. QED BY <2>1, <2>2
<1>3. RetryTypes' BY <1>1, <1>2, NoDetailType DEF RetryInv, RetryTypes, table
<1>4. OpOk'
  <2>1. busy BY DEF RetryInv, OpOk
  <2>2. busy' = busy OBVIOUS
  <2>3. busy' BY <2>1, <2>2, BusyStays
  <2>. QED BY <1>1, <2>3 DEF OpOk, RetryInv
<1>5. ASSUME crossed' = {} PROVE orphans' = {} /\ Fresh' /\ Linked' /\ Informed'
  <2>1. crossed = {} /\ orphans = {} /\ Fresh /\ Linked BY <1>2, <1>5 DEF RetryInv
  <2>2. \A j : Children(j)' = Children(j) BY DEF Children, Jobs, table
  <2>3. Fresh'
    <3>1. CASE detail' = NoDetail BY <3>1, NoDetailType DEF Fresh
    <3>2. CASE detail' = detail BY <1>1, <1>2, <2>1, <2>2, <3>2 DEF Fresh, Answering
    <3>. QED BY <1>2, <3>1, <3>2
  <2>4. Informed' BY <1>1 DEF Informed
  <2>. QED BY <1>2, <1>5, <2>1, <2>3, <2>4
<1>. QED BY <1>3, <1>4, <1>5 DEF RetryInv

LEMMA OperateReadsInv ==
  ASSUME RetryInv, OperateListed \/ OperateHealthy \/ OperateUnrefreshed
  PROVE  RetryInv'
<1>. DEFINE kept == Kept(ListOf(op.filter, op.offset).items)
<1>0. op.offset \in Nat /\ op.filter \in Filters /\ offset \in Nat BY DEF RetryInv, RetryTypes
<1>1. CASE OperateListed
  <2>. HIDE DEF kept
  <2>1. /\ op.stage = "after" /\ UNCHANGED <<table, lists, orphans>>
        /\ offset' = op.offset /\ applied' = applied
        /\ SelectReport(IF op.healthy THEN op.next ELSE kept)
        /\ IF op.healthy THEN Over ELSE op' = [op EXCEPT !.listed = TRUE] /\ UNCHANGED busy
    BY <1>1 DEF OperateListed, Take, kept
  <2>2. CASE op.healthy BY <1>0, <2>1, <2>2, OpensNextInv
  <2>3. CASE ~op.healthy BY <1>0, <2>1, <2>3, OneAnswersInv
  <2>. QED BY <2>2, <2>3
<1>2. CASE OperateHealthy
  <2>1. /\ op.stage = "after" /\ UNCHANGED <<table, list, lists, orphans>>
        /\ IF op.listed
             THEN SelectReport(op.next) /\ Over
             ELSE op' = [op EXCEPT !.healthy = TRUE] /\ UNCHANGED <<shown, busy, crossed>>
    BY <1>2 DEF OperateHealthy
  <2>2. CASE op.listed BY <1>0, <2>1, <2>2, OpensNextInv DEF list
  <2>3. CASE ~op.listed BY <1>0, <2>1, <2>3, OneAnswersInv DEF list
  <2>. QED BY <2>2, <2>3
<1>3. CASE OperateUnrefreshed
  <2>1. /\ Over /\ crossed' = crossed \cup {"lost"} /\ UNCHANGED <<table, list, shown, orphans>>
        /\ \/ UNCHANGED lists
           \/ lists' = lists \cup {[filter |-> op.filter, offset |-> op.offset]}
    BY <1>3 DEF OperateUnrefreshed
  <2>2. NoOpFacts BY <2>1, OverType
  <2>3. lists' \subseteq [filter : Filters, offset : Nat]
    BY <1>0, <2>1, ListsType DEF RetryInv, RetryTypes
  <2>4. RetryTypes' BY <2>1, <2>2, <2>3 DEF RetryInv, RetryTypes, list, shown, table, NoOpFacts
  <2>5. OpOk' BY <2>2 DEF OpOk, NoOpFacts
  <2>. QED BY <2>1, <2>4, <2>5 DEF RetryInv
<1>. QED BY <1>1, <1>2, <1>3

-----------------------------------------------------------------------------
LEMMA RetryInvInit == ASSUME Init PROVE RetryInv
<1>1. op = NoOp /\ applied = Phase /\ offset = 0 /\ detail = NoDetail /\ lists = {} /\ orphans = {}
      /\ reported = NoJob /\ details = {}
      /\ phase = [j \in Job |-> IF j \in Failed THEN "failed" ELSE "none"]
      /\ parent = [j \in Job |-> NoJob]
  BY DEF Init, ReportsInit
<1>2. /\ op \in [stage : {"idle", "post", "after"}, kind : {"none", "retry", "recover"},
                 job : Job \cup {NoJob}, seen : SUBSET Job, next : Nat,
                 filter : Filters, offset : Nat, listed : BOOLEAN, healthy : BOOLEAN]
      /\ op.stage = "idle"
  BY <1>1, ReportsAssumption DEF NoOp, NoJob
<1>3. RetryTypes BY <1>1, <1>2, NoDetailType, ReportsAssumption DEF RetryTypes, Phase
<1>. QED BY <1>1, <1>2, <1>3, NoDetailType DEF RetryInv, OpOk, Fresh, Linked, Informed

LEMMA RetryStutter == ASSUME RetryInv, UNCHANGED reports PROVE RetryInv'
<1>1. UNCHANGED <<table, list, shown, busy, lists, op, orphans, crossed>> BY DEF reports
<1>2. Linked => Linked' BY <1>1 DEF Linked, shown
<1>. QED BY <1>1, <1>2, PageMoves DEF list, shown, RetryInv, RetryTypes

LEMMA RetryNextInv == ASSUME RetryInv, [Next]_vars PROVE RetryInv'
<1>1. CASE \E to \in Area : SetArea(to)
  <2>1. UnmountReports \/ MountReports \/ UNCHANGED reports BY <1>1 DEF SetArea
  <2>. QED BY <2>1, UnmountReportsInv, PageStepsInv, RetryStutter
<1>2. CASE ClientsNext /\ UNCHANGED reports BY <1>2, RetryStutter
<1>3. CASE UNCHANGED vars BY <1>3, RetryStutter DEF vars
<1>4. CASE ReportsNext
  <2>1. CASE OperatesLate BY <2>1, OperatesLateInv
  <2>2. CASE Submitted \/ Worked BY <2>2, OthersInv
  <2>3. CASE \/ \E filter \in Filters : Apply(filter)
             \/ \E to \in 0 .. MaxJob : Turn(to)
             \/ \E j \in Job : PickReport(j)
             \/ \E l \in lists : ListArrives(l) \/ ListFails(l)
             \/ Refresh
    BY <2>3, PageStepsInv
  <2>4. CASE \E j \in Job : DetailArrives(j) BY <2>4, DetailArrivesInv
  <2>5. CASE \E j \in Job : DetailFails(j) BY <2>5, DetailFailsInv
  <2>6. CASE \E kind \in {"retry", "recover"} : Operate(kind) BY <2>6, OperateInv
  <2>7. CASE OperateAnswered BY <2>7, OperateAnsweredInv
  <2>8. CASE OperateFails BY <2>8, OperateFailsInv
  <2>9. CASE OperateListed \/ OperateHealthy \/ OperateUnrefreshed BY <2>9, OperateReadsInv
  <2>. QED BY <1>4, <2>1, <2>2, <2>3, <2>4, <2>5, <2>6, <2>7, <2>8, <2>9 DEF ReportsNext
<1>. QED BY <1>1, <1>2, <1>3, <1>4 DEF Next

\* A retry is sent knowing of every earlier one, for any reports, filters and page size, and
\* however many requests are under way (App.tsx 1197-1210), while crossed is empty: while a detail
\* was awaited no other was asked for and no operation clicked, neither a detail nor a request
\* of a retry failed, and the page was not left with an operation under way.  A click while a
\* detail is awaited is a window the code has: busy is cleared at 1209 before the detail of
\* the new report arrives (1191), and a second click there does send another retry unawares.
THEOREM RetriesInformed == Spec => []RetryIsInformed
<1>1. Init => RetryInv BY RetryInvInit
<1>2. RetryInv /\ [Next]_vars => RetryInv' BY RetryNextInv
<1>3. RetryInv => RetryIsInformed BY DEF RetryInv, Informed, RetryIsInformed
<1>. QED BY <1>1, <1>2, <1>3, PTL DEF Spec
-----------------------------------------------------------------------------
(* Types.  Numbers are given out in order, and the bound on them leaves    *)
(* one for every retry that is still to be performed.                      *)

Posting == op.stage = "post" /\ op.kind = "retry"
Late    == {o \in orphans : o.kind = "retry"}
Owed    == Cardinality(Late) + (IF Posting THEN 1 ELSE 0)

Numbered == IsFiniteSet(orphans) /\ \E n \in Nat : Jobs = 1 .. n /\ n + Owed =< MaxJob

\* What RetryTypes and ClientsTypeOK leave of the types.
PageTypes ==
  /\ result \in [items : SUBSET Job, hasMore : BOOLEAN]
  /\ reported \in Job \cup {NoJob} /\ details \subseteq Job /\ op.next \in Job \cup {NoJob}
  /\ busy \in BOOLEAN /\ crossed \subseteq {"detail", "lost", "left"}

Clocks == area \in Area /\ clicks \in 0 .. MaxClicks /\ faults \in 0 .. MaxFaults

LEMMA LateFinite == ASSUME IsFiniteSet(orphans) PROVE IsFiniteSet(Late) /\ Cardinality(Late) \in Nat
<1>1. Late \in SUBSET orphans BY DEF Late
<1>. QED BY <1>1, FS_Subset, FS_CardinalityType

\* The room is what the jobs there are and the retries still to be performed leave.
LEMMA RoomLeft ==
  ASSUME IsFiniteSet(orphans), NEW n \in Nat, Jobs = 1 .. n
  PROVE  Owed \in Nat /\ Room = MaxJob - n - Owed
<1>1. Cardinality(Jobs) = n BY FS_Interval
<1>2. Cardinality(Late) \in Nat /\ MaxJob \in Nat BY LateFinite, ReportsAssumption
<1>3. Room = MaxJob - Cardinality(Jobs) - Cardinality(Late) - (IF Posting THEN 1 ELSE 0)
  BY DEF Room, Late, Posting
<1>. QED BY <1>1, <1>2, <1>3 DEF Owed

\* The next number is one more than there are jobs.
LEMMA NewJobNext == ASSUME NEW n \in Nat, Jobs = 1 .. n PROVE NewJob = n + 1
<1>. DEFINE S == Jobs \cup {0}
<1>1. S = 0 .. n /\ S \in SUBSET (0 .. n) /\ S # {} OBVIOUS
<1>. HIDE DEF S
<1>2. Max(S) \in 0 .. n /\ \A x \in S : x =< Max(S) BY <1>1, GreatestInSet
<1>3. n =< Max(S) BY <1>1, <1>2
<1>. QED BY <1>2, <1>3 DEF NewJob, S

LEMMA InsertNumbers ==
  ASSUME RetryTypes, NEW n \in Nat, Jobs = 1 .. n, n + 1 =< MaxJob, NEW p, Insert(p)
  PROVE  NewJob \in Job /\ Jobs' = 1 .. n + 1
<1>1. NewJob = n + 1 BY NewJobNext
<1>2. NewJob \in Job BY <1>1, ReportsAssumption DEF Job
<1>3. \A j \in Job : phase'[j] = IF j = NewJob THEN "queued" ELSE phase[j]
  BY DEF Insert, RetryTypes
<1>4. Jobs' = {j \in Job : phase'[j] # "none"} BY DEF Jobs
<1>5. Jobs' = Jobs \cup {NewJob} BY <1>2, <1>3, <1>4 DEF Jobs
<1>. QED BY <1>1, <1>2, <1>5

\* A request that has its number reserved takes it, or the number is free again.
LEMMA OperatedNumbers ==
  ASSUME RetryTypes, NEW n \in Nat, Jobs = 1 .. n,
         NEW kind \in {"retry", "recover"}, NEW j \in Job,
         kind = "retry" => n + 1 =< MaxJob, Operated(kind, j)
  PROVE  /\ kind = "retry" => NewJob \in Job /\ Jobs' = 1 .. n + 1
         /\ kind = "recover" => Jobs' = Jobs
<1>1. CASE kind = "retry" BY <1>1, InsertNumbers DEF Operated
<1>2. CASE kind = "recover"
  <2>1. phase[j] = "processing" /\ phase' = [phase EXCEPT ![j] = "queued"] BY <1>2 DEF Operated
  <2>2. \A i \in Job : phase'[i] # "none" <=> phase[i] # "none" BY <2>1 DEF RetryTypes
  <2>3. Jobs' = {i \in Job : phase'[i] # "none"} BY DEF Jobs
  <2>. QED BY <1>2, <2>2, <2>3 DEF Jobs
<1>. QED BY <1>1, <1>2

LEMMA FewerFit ==
  ASSUME NEW n \in Nat, NEW a \in Nat, NEW b \in Nat, NEW m \in Nat, n + a =< m, b =< a
  PROVE  n + b =< m
OBVIOUS

LEMMA NumberedStays ==
  ASSUME Numbered, Jobs' = Jobs, UNCHANGED orphans, Posting' => Posting PROVE Numbered'
<1>1. PICK n \in Nat : Jobs = 1 .. n /\ n + Owed =< MaxJob BY DEF Numbered
<1>2. Late' = Late BY DEF Late
<1>3. Cardinality(Late) \in Nat /\ MaxJob \in Nat BY LateFinite, ReportsAssumption DEF Numbered
<1>4. Owed' =< Owed /\ Owed \in Nat /\ Owed' \in Nat BY <1>2, <1>3 DEF Owed
<1>5. n + Owed' =< MaxJob BY <1>1, <1>3, <1>4, FewerFit
<1>6. Jobs' = 1 .. n /\ IsFiniteSet(orphans)' BY <1>1 DEF Numbered
<1>. QED BY <1>5, <1>6 DEF Numbered

\* A number is taken from the room, or reserved.
LEMMA SubmittedNumbers == ASSUME RetryInv, Numbered, Submitted PROVE Numbered'
<1>1. PICK n \in Nat : Jobs = 1 .. n /\ n + Owed =< MaxJob BY DEF Numbered
<1>2. Owed \in Nat /\ MaxJob \in Nat /\ Room = MaxJob - n - Owed /\ IsFiniteSet(orphans)
  BY <1>1, RoomLeft, ReportsAssumption DEF Numbered
<1>3. Room > 0 /\ Insert(NoJob) /\ UNCHANGED <<op, orphans>> BY DEF Submitted
<1>4. n + 1 + Owed =< MaxJob BY <1>2, <1>3
<1>5. Jobs' = 1 .. n + 1 BY <1>1, <1>2, <1>3, <1>4, InsertNumbers DEF RetryInv
<1>6. Owed' = Owed BY <1>3 DEF Owed, Late, Posting
<1>. QED BY <1>2, <1>3, <1>4, <1>5, <1>6 DEF Numbered

LEMMA OperateNumbers ==
  ASSUME Numbered, NEW kind \in {"retry", "recover"}, Operate(kind) PROVE Numbered'
<1>1. PICK n \in Nat : Jobs = 1 .. n /\ n + Owed =< MaxJob BY DEF Numbered
<1>2. Owed \in Nat /\ MaxJob \in Nat /\ Room = MaxJob - n - Owed /\ IsFiniteSet(orphans)
  BY <1>1, RoomLeft, ReportsAssumption DEF Numbered
<1>3. /\ UNCHANGED <<table, orphans>> /\ (kind = "retry" => Room > 0)
      /\ op'.stage = "post" /\ op'.kind = kind
  BY DEF Operate, NoOp
<1>4. Jobs' = Jobs /\ Late' = Late BY <1>3 DEF Jobs, Late, table
<1>5. Cardinality(Late) \in Nat BY <1>2, LateFinite
<1>6. Owed' \in Nat /\ (Owed' =< Owed \/ (kind = "retry" /\ Owed' =< Owed + 1))
  BY <1>3, <1>4, <1>5 DEF Owed, Posting
<1>7. n + Owed' =< MaxJob
  <2>1. CASE Owed' =< Owed BY <1>1, <1>2, <1>6, <2>1, FewerFit
  <2>2. CASE kind = "retry" /\ Owed' =< Owed + 1
    <3>1. MaxJob - n - Owed > 0 BY <1>2, <1>3, <2>2
    <3>2. n + (Owed + 1) =< MaxJob /\ Owed + 1 \in Nat BY <1>2, <3>1
    <3>. QED BY <1>2, <1>6, <2>2, <3>2, FewerFit
  <2>. QED BY <1>6, <2>1, <2>2
<1>. QED BY <1>1, <1>2, <1>3, <1>4, <1>7 DEF Numbered

\* The number reserved for the retry in progress is taken.
LEMMA PostedNumbers ==
  ASSUME RetryInv, Numbered, op.stage = "post", ~Posting', UNCHANGED orphans,
         Operated(op.kind, op.job) \/ UNCHANGED table
  PROVE  Numbered' /\ (Posting /\ Operated(op.kind, op.job) => NewJob \in Job)
<1>1. PICK n \in Nat : Jobs = 1 .. n /\ n + Owed =< MaxJob BY DEF Numbered
<1>2. Cardinality(Late) \in Nat /\ MaxJob \in Nat /\ IsFiniteSet(orphans)
  BY LateFinite, ReportsAssumption DEF Numbered
<1>3. op.job \in Job /\ op.kind \in {"retry", "recover"} BY DEF RetryInv, OpOk
<1>4. Late' = Late BY DEF Late
<1>5. Owed' = Cardinality(Late) /\ Owed = Cardinality(Late) + (IF op.kind = "retry" THEN 1 ELSE 0)
  BY <1>2, <1>4 DEF Owed, Posting
<1>6. CASE Operated(op.kind, op.job)
  <2>1. op.kind = "retry" => n + 1 =< MaxJob BY <1>1, <1>2, <1>5
  <2>2. /\ op.kind = "retry" => NewJob \in Job /\ Jobs' = 1 .. n + 1
        /\ op.kind = "recover" => Jobs' = Jobs
    BY <1>1, <1>3, <1>6, <2>1, OperatedNumbers DEF RetryInv
  <2>3. \E m \in Nat : Jobs' = 1 .. m /\ m + Owed' =< MaxJob
    <3>1. CASE op.kind = "retry" BY <1>1, <1>2, <1>5, <2>2, <3>1
    <3>2. CASE op.kind = "recover" BY <1>1, <1>2, <1>5, <2>2, <3>2
    <3>. QED BY <1>3, <3>1, <3>2
  <2>. QED BY <1>2, <2>2, <2>3 DEF Numbered, Posting
<1>7. CASE UNCHANGED table /\ ~Operated(op.kind, op.job)
  <2>1. Jobs' = Jobs BY <1>7 DEF Jobs, table
  <2>2. n + Owed' =< MaxJob BY <1>1, <1>2, <1>5
  <2>. QED BY <1>1, <1>2, <1>7, <2>1, <2>2 DEF Numbered
<1>. QED BY <1>6, <1>7

\* So is the one reserved for a retry nobody waits for.
LEMMA OperatesLateNumbers == ASSUME RetryInv, Numbered, OperatesLate PROVE Numbered'
<1>1. PICK n \in Nat : Jobs = 1 .. n /\ n + Owed =< MaxJob BY DEF Numbered
<1>2. PICK o \in orphans : orphans' = orphans \ {o} /\ (Operated(o.kind, o.job) \/ UNCHANGED table)
  BY DEF OperatesLate
<1>3. o.kind \in {"retry", "recover"} /\ o.job \in Job BY DEF RetryInv, RetryTypes
<1>4. IsFiniteSet(orphans) /\ IsFiniteSet(orphans') /\ MaxJob \in Nat
  BY <1>2, FS_RemoveElement, ReportsAssumption DEF Numbered
<1>5. IsFiniteSet(Late) /\ Cardinality(Late) \in Nat BY <1>4, LateFinite
<1>6. UNCHANGED op BY DEF OperatesLate
<1>. DEFINE b == IF Posting THEN 1 ELSE 0
<1>7. b \in Nat /\ Owed = Cardinality(Late) + b /\ Owed' = Cardinality(Late') + b
  BY <1>6 DEF Owed, Posting
<1>. HIDE DEF b, Operated
<1>8. CASE o.kind = "retry"
  <2>1. o \in Late /\ Late' = Late \ {o} BY <1>2, <1>8 DEF Late
  <2>2. Cardinality(Late') = Cardinality(Late) - 1 /\ Cardinality(Late') \in Nat
    BY <1>5, <2>1, FS_RemoveElement, FS_CardinalityType
  <2>3. n + 1 + Owed' =< MaxJob /\ n + 1 =< MaxJob /\ n + Owed' =< MaxJob
    BY <1>1, <1>4, <1>5, <1>7, <2>2
  <2>4. Jobs' = 1 .. n + 1 \/ Jobs' = Jobs
    <3>1. CASE Operated(o.kind, o.job)
      BY <1>1, <1>3, <1>8, <2>3, <3>1, OperatedNumbers DEF RetryInv
    <3>2. CASE UNCHANGED table BY <3>2 DEF Jobs, table
    <3>. QED BY <1>2, <3>1, <3>2
  <2>. QED BY <1>1, <1>4, <2>3, <2>4 DEF Numbered
<1>9. CASE o.kind = "recover"
  <2>1. Late' = Late BY <1>2, <1>9 DEF Late
  <2>2. Jobs' = Jobs
    <3>1. CASE Operated(o.kind, o.job)
      BY <1>1, <1>3, <1>9, <3>1, OperatedNumbers DEF RetryInv
    <3>2. CASE UNCHANGED table BY <3>2 DEF Jobs, table
    <3>. QED BY <1>2, <3>1, <3>2
  <2>. QED BY <1>1, <1>4, <1>7, <2>1, <2>2 DEF Numbered
<1>. QED BY <1>3, <1>8, <1>9

\* A retry that is left behind keeps its number.
LEMMA UnmountNumbers == ASSUME RetryInv, Numbered, UnmountReports PROVE Numbered'
<1>1. PICK n \in Nat : Jobs = 1 .. n /\ n + Owed =< MaxJob BY DEF Numbered
<1>. DEFINE o == [kind |-> op.kind, job |-> op.job]
<1>2. /\ UNCHANGED table /\ op' = NoOp
      /\ orphans' = orphans \cup (IF op.stage = "post" THEN {o} ELSE {})
      /\ o.kind = op.kind
  BY DEF UnmountReports
<1>. HIDE DEF o
<1>3. Jobs' = Jobs /\ ~Posting' BY <1>2 DEF Jobs, table, Posting, NoOp
<1>4. IsFiniteSet(orphans) /\ IsFiniteSet(Late) /\ Cardinality(Late) \in Nat /\ MaxJob \in Nat
  <2>1. Late \in SUBSET orphans BY DEF Late
  <2>. QED BY <2>1, LateFinite, FS_Subset, ReportsAssumption DEF Numbered
<1>5. IsFiniteSet(orphans')
  <2>1. CASE op.stage = "post"
    <3>1. orphans' = orphans \cup {o} BY <1>2, <2>1
    <3>. QED BY <1>4, <3>1, FS_AddElement
  <2>2. CASE op.stage # "post" BY <1>2, <1>4, <2>2
  <2>. QED BY <2>1, <2>2
<1>6. Cardinality(Late') \in Nat /\ Cardinality(Late') =< Owed
  <2>1. CASE Posting
    <3>1. Late' = Late \cup {o} BY <1>2, <2>1 DEF Late, Posting
    <3>2. Owed = Cardinality(Late) + 1 BY <2>1 DEF Owed
    <3>3. IsFiniteSet(Late') BY <1>4, <3>1, FS_AddElement
    <3>4. Cardinality(Late') = Cardinality(Late) \/ Cardinality(Late') = Cardinality(Late) + 1
      BY <1>4, <3>1, FS_AddElement
    <3>. QED BY <1>4, <3>2, <3>3, <3>4, FS_CardinalityType
  <2>2. CASE ~Posting
    <3>1. Late' = Late BY <1>2, <2>2 DEF Late, Posting
    <3>. QED BY <1>4, <2>2, <3>1 DEF Owed
  <2>. QED BY <2>1, <2>2
<1>7. Owed \in Nat /\ Owed' = Cardinality(Late') BY <1>3, <1>4, <1>6 DEF Owed
<1>8. n + Owed' =< MaxJob BY <1>1, <1>4, <1>6, <1>7
<1>. QED BY <1>1, <1>3, <1>5, <1>8 DEF Numbered

LEMMA NumberedSteps == ASSUME RetryInv, Numbered, [Next]_vars PROVE Numbered'
<1>1. CASE UnmountReports BY <1>1, UnmountNumbers
<1>2. CASE OperatesLate BY <1>2, OperatesLateNumbers
<1>3. CASE Submitted BY <1>3, SubmittedNumbers
<1>4. CASE \E kind \in {"retry", "recover"} : Operate(kind) BY <1>4, OperateNumbers
<1>5. CASE OperateAnswered
  <2>1. /\ op.stage = "post" /\ Operated(op.kind, op.job) /\ orphans' = orphans
        /\ op' = [op EXCEPT !.stage = "after", !.next = IF op.kind = "retry" THEN NewJob ELSE op.job]
    BY <1>5 DEF OperateAnswered
  <2>2. ~Posting' BY <2>1 DEF Posting, RetryInv, RetryTypes
  <2>. QED BY <2>1, <2>2, PostedNumbers
<1>6. CASE OperateFails
  <2>1. /\ op.stage = "post" /\ orphans' = orphans /\ op' = NoOp
        /\ Operated(op.kind, op.job) \/ UNCHANGED table
    BY <1>6 DEF OperateFails, Over
  <2>2. ~Posting' BY <2>1 DEF Posting, NoOp
  <2>. QED BY <2>1, <2>2, PostedNumbers
<1>7. CASE Worked
  <2>1. PICK j \in Jobs, next \in Phase : phase' = [phase EXCEPT ![j] = next] BY <1>7 DEF Worked
  <2>2. UNCHANGED <<op, orphans>> BY <1>7 DEF Worked
  <2>3. \A i \in Job : phase'[i] # "none" <=> phase[i] # "none"
    BY <2>1 DEF RetryInv, RetryTypes, Jobs, Phase
  <2>4. Jobs' = {i \in Job : phase'[i] # "none"} BY DEF Jobs
  <2>5. Jobs' = Jobs BY <2>3, <2>4 DEF Jobs
  <2>. QED BY <2>2, <2>5, NumberedStays DEF Posting
<1>8. CASE OperateListed \/ OperateHealthy \/ OperateUnrefreshed
  <2>1. UNCHANGED <<table, orphans>> /\ op.stage = "after"
    BY <1>8 DEF OperateListed, OperateHealthy, OperateUnrefreshed
  <2>2. op'.stage # "post"
    BY <1>8, <2>1 DEF OperateListed, OperateHealthy, OperateUnrefreshed, Over, NoOp, RetryInv, RetryTypes
  <2>3. Jobs' = Jobs BY <2>1 DEF Jobs, table
  <2>. QED BY <2>1, <2>2, <2>3, NumberedStays DEF Posting
<1>9. CASE UNCHANGED <<table, op, orphans>>
  <2>1. Jobs' = Jobs BY <1>9 DEF Jobs, table
  <2>. QED BY <1>9, <2>1, NumberedStays DEF Posting
<1>10. CASE ReportsNext
  <2>1. \/ UNCHANGED <<table, op, orphans>>
        \/ OperatesLate \/ Submitted \/ \E kind \in {"retry", "recover"} : Operate(kind)
        \/ OperateAnswered \/ OperateFails \/ Worked
        \/ OperateListed \/ OperateHealthy \/ OperateUnrefreshed
    BY <1>10 DEF ReportsNext, Apply, Turn, Refresh, PickReport, ListArrives, ListFails,
                 DetailArrives, DetailFails
  <2>. QED BY <2>1, <1>2, <1>3, <1>4, <1>5, <1>6, <1>7, <1>8, <1>9
<1>11. CASE ~UnmountReports /\ ~ReportsNext
  <2>1. UNCHANGED <<table, op, orphans>>
    BY <1>11 DEF Next, SetArea, MountReports, vars, reports
  <2>. QED BY <2>1, <1>9
<1>. QED BY <1>1, <1>10, <1>11

-----------------------------------------------------------------------------
(* The page only shows jobs that there are.                                *)

LEMMA KeptType ==
  ASSUME NEW items \in SUBSET Job, reported \in Job \cup {NoJob} PROVE Kept(items) \in Job \cup {NoJob}
<1>1. items \cup {NoJob} \in SUBSET (0 .. MaxJob) BY ReportsAssumption DEF Job, NoJob
<1>2. Max(items \cup {NoJob}) \in items \cup {NoJob} BY <1>1, GreatestInSet, ReportsAssumption
<1>. QED BY <1>2 DEF Kept

LEMMA ListType ==
  ASSUME NEW filter, NEW skip
  PROVE  ListOf(filter, skip) \in [items : SUBSET Job, hasMore : BOOLEAN]
<1>. DEFINE items == {j \in Passing(filter) : Newer(filter, j) \in skip .. skip + PageSize - 1}
            more  == Cardinality(Passing(filter)) > skip + PageSize
<1>1. items \in SUBSET Job BY DEF Passing, Jobs
<1>2. ListOf(filter, skip) = [items |-> items, hasMore |-> more] BY DEF ListOf
<1>3. more \in BOOLEAN BY SMT
<1>. HIDE DEF items, more
<1>. QED BY <1>1, <1>2, <1>3

LEMMA SelectTypes ==
  ASSUME PageTypes, NEW j \in Job \cup {NoJob}, SelectReport(j)
  PROVE  /\ reported' \in Job \cup {NoJob} /\ details' \subseteq Job
         /\ crossed' \subseteq {"detail", "lost", "left"}
BY DEF PageTypes, SelectReport, Ask

LEMMA MostStays ==
  ASSUME PageTypes, UNCHANGED <<result, reported, details>>, busy' \in BOOLEAN,
         op'.next \in Job \cup {NoJob}, crossed' \subseteq {"detail", "lost", "left"}
  PROVE  PageTypes'
BY DEF PageTypes

\* An operation is over, or goes on with the report it had.
LEMMA OpStays ==
  ASSUME RetryInv, PageTypes,
         \/ Over
         \/ op' = [op EXCEPT !.listed = TRUE] /\ UNCHANGED busy
         \/ op' = [op EXCEPT !.healthy = TRUE] /\ UNCHANGED busy
         \/ UNCHANGED <<op, busy>>
  PROVE  op'.next \in Job \cup {NoJob} /\ busy' \in BOOLEAN
<1>1. op'.next \in {op.next, NoJob} BY DEF Over, NoOp, RetryInv, RetryTypes
<1>2. busy' \in {FALSE, busy} BY DEF Over
<1>. QED BY <1>1, <1>2 DEF PageTypes

LEMMA ListPageTypes ==
  ASSUME RetryInv, PageTypes, NEW filter, NEW skip, NEW j \in Job \cup {NoJob},
         result' = ListOf(filter, skip), SelectReport(j),
         op'.next \in Job \cup {NoJob}, busy' \in BOOLEAN
  PROVE  PageTypes'
BY ListType, SelectTypes DEF PageTypes

LEMMA PageTypesSteps == ASSUME RetryInv, Numbered, PageTypes, [Next]_vars PROVE PageTypes'
<1>1. CASE UnmountReports
  <2>1. /\ result' = NoList /\ reported' = NoJob /\ busy' = FALSE /\ details' = {} /\ op' = NoOp
        /\ crossed' = crossed \cup (IF op.stage = "post" THEN {"left"} ELSE {})
    BY <1>1 DEF UnmountReports
  <2>. QED BY <2>1 DEF PageTypes, NoList, NoOp
<1>2. ASSUME NEW l \in lists, ListArrives(l) PROVE PageTypes'
  <2>. DEFINE found == ListOf(l.filter, l.offset)
  <2>1. result' = found /\ SelectReport(Kept(found.items)) /\ UNCHANGED <<op, busy>>
    BY <1>2 DEF ListArrives, Take
  <2>2. found \in [items : SUBSET Job, hasMore : BOOLEAN] BY ListType
  <2>3. Kept(found.items) \in Job \cup {NoJob} BY <2>2, KeptType DEF PageTypes
  <2>. HIDE DEF found
  <2>4. result' = ListOf(l.filter, l.offset) BY <2>1 DEF found
  <2>. QED BY <2>1, <2>3, <2>4, OpStays, ListPageTypes
<1>3. ASSUME NEW j \in Job, PickReport(j) PROVE PageTypes'
  <2>1. SelectReport(j) /\ UNCHANGED <<list, op, busy>> BY <1>3 DEF PickReport
  <2>. QED BY <2>1, SelectTypes DEF PageTypes, list
<1>4. CASE Refresh
  <2>1. Ask(reported, details) /\ UNCHANGED <<list, reported, busy, op>> BY <1>4 DEF Refresh
  <2>. QED BY <2>1 DEF Ask, PageTypes, list
<1>5. ASSUME NEW j \in Job, DetailArrives(j) \/ DetailFails(j) PROVE PageTypes'
  <2>1. details' \subseteq details /\ crossed' \subseteq crossed \cup {"lost"}
        /\ UNCHANGED <<list, reported, busy, op>>
    BY <1>5 DEF DetailArrives, DetailFails
  <2>. QED BY <2>1 DEF PageTypes, list
<1>6. ASSUME NEW kind \in {"retry", "recover"}, Operate(kind) PROVE PageTypes'
  <2>1. /\ UNCHANGED <<list, shown>> /\ busy' = TRUE /\ op'.next = NoJob
        /\ crossed' = crossed \cup IF details # {} THEN {"detail"} ELSE {}
    BY <1>6 DEF Operate, NoOp
  <2>. QED BY <2>1, MostStays DEF list, shown, PageTypes
<1>7. CASE OperateAnswered
  <2>1. /\ UNCHANGED <<list, shown, busy, orphans, crossed>> /\ op.stage = "post" /\ Operated(op.kind, op.job)
        /\ op' = [op EXCEPT !.stage = "after", !.next = IF op.kind = "retry" THEN NewJob ELSE op.job]
    BY <1>7 DEF OperateAnswered
  <2>2. op.job \in Job /\ ~Posting' BY <2>1 DEF Posting, RetryInv, RetryTypes, OpOk
  <2>3. op.kind = "retry" => NewJob \in Job BY <2>1, <2>2, PostedNumbers DEF Posting
  <2>4. op'.next \in Job \cup {NoJob} BY <2>1, <2>2, <2>3 DEF RetryInv, RetryTypes
  <2>5. busy' \in BOOLEAN BY <2>1 DEF PageTypes
  <2>. QED BY <2>1, <2>4, <2>5, MostStays DEF list, shown, PageTypes
<1>8. CASE OperateFails
  <2>1. Over /\ UNCHANGED <<list, shown>> /\ crossed' \subseteq crossed \cup {"lost"}
    BY <1>8 DEF OperateFails
  <2>. QED BY <2>1, OpStays, MostStays DEF list, shown, PageTypes
<1>9. CASE OperateUnrefreshed
  <2>1. Over /\ UNCHANGED <<list, shown>> /\ crossed' = crossed \cup {"lost"}
    BY <1>9 DEF OperateUnrefreshed
  <2>. QED BY <2>1, OpStays, MostStays DEF list, shown, PageTypes
<1>10. CASE OperateListed
  <2>. DEFINE found == ListOf(op.filter, op.offset)
              j     == IF op.healthy THEN op.next ELSE Kept(found.items)
  <2>1. /\ result' = found /\ SelectReport(j)
        /\ IF op.healthy THEN Over ELSE op' = [op EXCEPT !.listed = TRUE] /\ UNCHANGED busy
    BY <1>10 DEF OperateListed, Take
  <2>2. found \in [items : SUBSET Job, hasMore : BOOLEAN] BY ListType
  <2>3. j \in Job \cup {NoJob} BY <2>2, KeptType DEF PageTypes
  <2>4. op'.next \in Job \cup {NoJob} /\ busy' \in BOOLEAN BY <2>1, OpStays
  <2>5. result' = ListOf(op.filter, op.offset) BY <2>1
  <2>. HIDE DEF j, found
  <2>. QED BY <2>1, <2>3, <2>4, <2>5, ListPageTypes
<1>11. CASE OperateHealthy
  <2>1. /\ UNCHANGED list
        /\ IF op.listed
             THEN SelectReport(op.next) /\ Over
             ELSE op' = [op EXCEPT !.healthy = TRUE] /\ UNCHANGED <<shown, busy, crossed>>
    BY <1>11 DEF OperateHealthy
  <2>2. op'.next \in Job \cup {NoJob} /\ busy' \in BOOLEAN BY <2>1, OpStays
  <2>3. CASE op.listed
    <3>1. op.next \in Job \cup {NoJob} BY DEF PageTypes
    <3>. QED BY <2>1, <2>2, <2>3, <3>1, SelectTypes DEF PageTypes, list
  <2>4. CASE ~op.listed BY <2>1, <2>2, <2>4, MostStays DEF list, shown, PageTypes
  <2>. QED BY <2>3, <2>4
<1>12. CASE UNCHANGED <<list, shown, op, busy, crossed>>
  BY <1>12, MostStays DEF list, shown, PageTypes
<1>13. CASE ReportsNext
  <2>1. \/ UNCHANGED <<list, shown, op, busy, crossed>>
        \/ \E l \in lists : ListArrives(l)
        \/ \E j \in Job : PickReport(j) \/ DetailArrives(j) \/ DetailFails(j)
        \/ \E kind \in {"retry", "recover"} : Operate(kind)
        \/ Refresh \/ OperateAnswered \/ OperateFails
        \/ OperateListed \/ OperateHealthy \/ OperateUnrefreshed
        \/ \E filter \in Filters : Apply(filter)
    BY <1>13 DEF ReportsNext, OperatesLate, Submitted, Worked, Turn, ListFails
  <2>2. ASSUME NEW filter \in Filters, Apply(filter) PROVE PageTypes'
    BY <2>2, MostStays DEF Apply, shown, PageTypes
  <2>. QED BY <2>1, <2>2, <1>2, <1>3, <1>4, <1>5, <1>6, <1>7, <1>8, <1>9, <1>10, <1>11, <1>12
<1>14. CASE ~UnmountReports /\ ~ReportsNext
  <2>1. UNCHANGED <<list, shown, op, busy, crossed>>
    BY <1>14 DEF Next, SetArea, MountReports, vars, reports
  <2>. QED BY <2>1, <1>12
<1>. QED BY <1>1, <1>13, <1>14

\* Clicks and faults are only used up.
LEMMA ClocksRun == ASSUME Clocks, [Next]_vars PROVE Clocks'
<1>1. MaxClicks \in Nat /\ MaxFaults \in Nat BY AreasAssumption
<1>. DEFINE Used == Click \/ Fault \/ Quiet
<1>2. Used => Clocks' BY <1>1 DEF Clocks, Click, Fault, Quiet
<1>3. CASE ReportsNext
  <2>1. Used
    BY <1>3 DEF ReportsNext, OperatesLate, Submitted, Worked, Refresh, Apply, Turn, PickReport,
                DetailArrives, DetailFails, ListArrives, ListFails, Operate, OperateAnswered,
                OperateFails, OperateListed, OperateHealthy, OperateUnrefreshed, Quiet
  <2>. QED BY <2>1, <1>2
<1>4. CASE ClientsNext
  <2>1. ASSUME NEW c, PickClient(c) \/ KeysArrive(c) \/ KeysFail(c) \/ ClientsArrive(c) \/ ClientsFail(c)
        PROVE  Used
    BY <2>1 DEF PickClient, Free, KeysArrive, KeysFail, ClientsArrive, ClientsFail
  <2>2. ASSUME NEW s, Submit(s) \/ Disable(s) \/ PostAnswered(s) \/ PostFails(s) \/ PostServedLate(s)
        PROVE  Used
    BY <2>2 DEF Submit, Disable, Free, PostAnswered, PostFails, PostServedLate
  <2>3. ASSUME NEW s, NEW k, Revoke(s, k) \/ OpenDialog(s, k) PROVE Used
    BY <2>3 DEF Revoke, OpenDialog, Free
  <2>4. Cancel \/ Store => Used BY DEF Cancel, Store
  <2>. HIDE DEF Used
  <2>. QED BY <1>2, <1>4, <2>1, <2>2, <2>3, <2>4 DEF ClientsNext
<1>5. CASE \E to \in Area : SetArea(to) BY <1>1, <1>5 DEF SetArea, Clocks
<1>6. CASE UNCHANGED vars BY <1>6 DEF vars, Clocks
<1>. QED BY <1>3, <1>4, <1>5, <1>6 DEF Next

LEMMA NumberedInit == ASSUME Init PROVE Numbered /\ PageTypes /\ Clocks
<1>1. /\ orphans = {} /\ op = NoOp /\ phase = [j \in Job |-> IF j \in Failed THEN "failed" ELSE "none"]
  BY DEF Init, ReportsInit
<1>2. PICK n \in 0 .. MaxJob : Failed = 1 .. n BY ReportsAssumption
<1>3. n \in Nat /\ n =< MaxJob /\ MaxJob \in Nat BY ReportsAssumption
<1>4. Jobs = 1 .. n BY <1>1, <1>2, <1>3 DEF Jobs, Job
<1>5. Late = {} /\ ~Posting BY <1>1 DEF Late, Posting, NoOp
<1>6. Owed = 0 BY <1>5, FS_EmptySet DEF Owed
<1>7. IsFiniteSet(orphans) BY <1>1, FS_EmptySet
<1>8. n + Owed =< MaxJob BY <1>3, <1>6
<1>9. Numbered BY <1>3, <1>4, <1>7, <1>8 DEF Numbered
<1>10. PageTypes
  <2>1. /\ result = NoList /\ reported = NoJob /\ busy = FALSE /\ details = {} /\ crossed = {}
        /\ op.next = NoJob
    BY <1>1 DEF Init, ReportsInit, NoOp
  <2>. QED BY <2>1 DEF PageTypes, NoList
<1>11. Clocks BY AreasAssumption DEF Init, Clocks, Area
<1>. QED BY <1>9, <1>10, <1>11

\* The page only shows, asks for and operates on reports that the server has room for, however
\* many are submitted and however many retries nobody waits for (App.tsx 1160-1219).
THEOREM AdminTyped == Spec => []TypeOK
<1>. DEFINE TypedInv == ClientInv /\ RetryInv /\ Numbered /\ PageTypes /\ Clocks
<1>1. Init => TypedInv BY ClientInvInit, RetryInvInit, NumberedInit
<1>2. TypedInv /\ [Next]_vars => TypedInv'
  <2>. SUFFICES ASSUME TypedInv, [Next]_vars PROVE TypedInv' OBVIOUS
  <2>. QED BY NextInv, RetryNextInv, NumberedSteps, PageTypesSteps, ClocksRun
<1>3. TypedInv => TypeOK
  <2>. SUFFICES ASSUME TypedInv PROVE TypeOK OBVIOUS
  <2>1. op \in [stage : {"idle", "post", "after"}, kind : {"none", "retry", "recover"},
                job : Job \cup {NoJob}, seen : SUBSET Job, next : Job \cup {NoJob},
                filter : Filters, offset : Nat, listed : BOOLEAN, healthy : BOOLEAN]
    BY DEF RetryInv, RetryTypes, PageTypes
  <2>2. ReportsTypeOK BY <2>1 DEF ReportsTypeOK, RetryInv, RetryTypes, PageTypes
  <2>. QED BY <2>2 DEF TypeOK, Clocks, ClientInv
<1>. QED BY <1>1, <1>2, <1>3, PTL DEF Spec
=============================================================================
