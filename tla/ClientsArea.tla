----------------------------- MODULE ClientsArea -----------------------------
(***************************************************************************)
(* The API clients page of the browser application (APIClientsArea and its *)
(* dialogs in web/template-manager/src/App.tsx).  ApiKeys has what the     *)
(* server does with the requests; here each is one step, taken when its    *)
(* answer arrives.                                                         *)
(*                                                                         *)
(* A dialog that is cancelled does not take its request back: the answer   *)
(* still comes to the page.  A dialog, or a secret that is shown, covers   *)
(* everything else.  Grace periods do not run out here; expiry and         *)
(* template selections are left out.                                       *)
(***************************************************************************)
EXTENDS Naturals, FiniteSets, FiniteSetsExt, Areas

CONSTANTS
  Client,  \* api_clients
  Start,   \* the client of every key there is before
  MaxKey,  \* bound: key numbers
  Slot,    \* bound: requests that change something, in flight
  None     \* the empty selection, no key

VARIABLES
  state,     \* server: api_clients.enabled
  owner,     \* server: api_keys.client_id
  status,    \* server: the status of every key
  clients, selected, keys, \* what is shown: the state of clients, the status of keys
  dialog,    \* creating, keyAction or editingAccess
  secret,    \* issuedSecret: the key it is of
  posts,     \* requests that change something
  clientLists, \* lists of clients asked for, each with the client to select afterwards
  keyLists,  \* clients whose keys are asked for
  issued, stored, \* history: keys the page had made, secrets the user has stored
  overtaken  \* history: see Send, UnmountClients and PostFails

registry   == <<state, owner, status>>
view       == <<clients, selected, keys>>
reads      == <<clientLists, keyLists>>
history    == <<issued, stored, overtaken>>
clientKeys == <<registry, view, dialog, secret, posts, reads, history>>

Key == 1 .. MaxKey

ASSUME ClientsAssumption ==
  /\ MaxKey \in Nat /\ Start \in [Key -> Client \cup {None}] /\ None \notin Client \cup Key

Kind     == {"create", "issue", "rotate", "access", "revoke", "disable"}
NoDialog == [kind |-> "none", key |-> None]
NoPost   == [kind |-> "none", client |-> None, key |-> None, from |-> None, mounted |-> TRUE]

ClientsTypeOK ==
  /\ state \in [Client -> {"none", "enabled", "disabled"}]
  /\ owner \in [Key -> Client \cup {None}]
  /\ status \in [Key -> {"none", "active", "replaced", "revoked"}]
  /\ clients \in [Client -> {"none", "enabled", "disabled"}] /\ selected \in Client \cup {None}
  /\ keys \in [Key -> {"none", "active", "revoked"}]
  /\ dialog \in [kind : Kind \cup {"none"}, key : Key \cup {None}] /\ secret \in issued \cup {None}
  /\ posts \in [Slot -> [kind : Kind \cup {"none"}, client : Client \cup {None},
                         key : Key \cup {None}, from : Client \cup {None}, mounted : BOOLEAN]]
  /\ clientLists \subseteq Client \cup {None} /\ keyLists \subseteq Client
  /\ stored \subseteq issued /\ issued \subseteq Key
  /\ overtaken \subseteq {"twice", "lost", "left"}
  /\ \A k \in Key : owner[k] = None <=> status[k] = "none"

ClientsInit ==
  /\ owner = Start
  /\ status = [k \in Key |-> IF Start[k] = None THEN "none" ELSE "active"]
  /\ state = [c \in Client |-> IF \E k \in Key : Start[k] = c THEN "enabled" ELSE "none"]
  /\ clients = [c \in Client |-> "none"] /\ selected = None /\ keys = [k \in Key |-> "none"]
  /\ dialog = NoDialog /\ secret = None /\ clientLists = {} /\ keyLists = {}
  /\ posts = [s \in Slot |-> NoPost] /\ issued = {} /\ stored = {} /\ overtaken = {}
-----------------------------------------------------------------------------
(* The server.                                                             *)

Issues == {"issue", "rotate"}
Live(k) == status[k] \in {"active", "replaced"}
NewKey  == Min({k \in Key : status[k] = "none"} \cup {MaxKey + 1})

Admissible(p) ==
  \/ p.kind = "create" /\ state[p.client] = "none"
  \/ p.kind = "issue" /\ state[p.client] = "enabled" /\ NewKey \in Key
  \/ /\ p.kind = "rotate" /\ owner[p.key] = p.client /\ status[p.key] = "active"
     /\ state[p.client] = "enabled" /\ NewKey \in Key
  \/ /\ p.kind \in {"access", "revoke"} /\ owner[p.key] = p.client /\ Live(p.key)
     /\ p.kind = "access" => state[p.client] = "enabled"
  \/ p.kind = "disable" /\ state[p.client] = "enabled"

Served(p) ==
  /\ state' = [state EXCEPT ![p.client] =
       IF p.kind = "create" THEN "enabled" ELSE IF p.kind = "disable" THEN "disabled" ELSE @]
  /\ IF p.kind \in Issues
       THEN /\ owner' = [owner EXCEPT ![NewKey] = p.client]
            /\ status' = [k \in Key |-> IF k = NewKey THEN "active"
                                       ELSE IF k = p.key THEN "replaced" ELSE status[k]]
            /\ issued' = issued \cup {NewKey}
       ELSE /\ status' = IF p.kind = "revoke" THEN [status EXCEPT ![p.key] = "revoked"] ELSE status
            /\ UNCHANGED <<owner, issued>>
-----------------------------------------------------------------------------
(* The page.                                                               *)

Bare  == dialog = NoDialog /\ secret = None
Free  == area = "clients" /\ Bare /\ Click
InUse == selected # None /\ clients[selected] # "none"

MountClients ==
  /\ clientLists' = {None}
  /\ UNCHANGED <<registry, view, dialog, secret, posts, keyLists, history>>

Done(s) == posts' = [posts EXCEPT ![s] = NoPost]

\* Requests that have been sent are performed or not, and nobody waits for the answers.
UnmountClients ==
  /\ Bare /\ UNCHANGED <<dialog, secret>>
  /\ clients' = [c \in Client |-> "none"] /\ selected' = None /\ keys' = [k \in Key |-> "none"]
  /\ clientLists' = {} /\ keyLists' = {}
  /\ posts' = [s \in Slot |-> [posts[s] EXCEPT !.mounted = posts[s] = NoPost]]
  /\ overtaken' = overtaken \cup (IF \E s \in Slot : posts[s] # NoPost THEN {"left"} ELSE {})
  /\ UNCHANGED <<registry, issued, stored>>

PostServedLate(s) ==
  /\ ~posts[s].mounted /\ Done(s) /\ Quiet
  /\ \/ Admissible(posts[s]) /\ Served(posts[s])
     \/ UNCHANGED <<registry, issued>>
  /\ UNCHANGED <<view, dialog, secret, reads, stored, overtaken>>

\* A selection that changes has its keys read.
SelectClient(c) ==
  /\ selected' = c
  /\ keyLists' = keyLists \cup (IF c \in {selected, None} THEN {} ELSE {c})

PickClient(c) ==
  /\ Free /\ clients[c] # "none" /\ SelectClient(c)
  /\ UNCHANGED <<registry, clients, keys, dialog, secret, posts, clientLists, history>>

OpenDialog(kind, k) ==
  /\ Free
  /\ \/ kind = "create" /\ k = None
     \/ kind = "issue" /\ k = None /\ InUse /\ clients[selected] = "enabled"
     \/ kind \in {"rotate", "access"} /\ k \in Key /\ InUse /\ keys[k] = "active"
  /\ dialog' = [kind |-> kind, key |-> k]
  /\ UNCHANGED <<registry, view, secret, posts, reads, history>>

Cancel ==
  /\ area = "clients" /\ Click /\ secret = None /\ dialog # NoDialog /\ dialog' = NoDialog
  /\ UNCHANGED <<registry, view, secret, posts, reads, history>>

\* Several keys may be asked for before the first is there.
Send(s, p) ==
  /\ posts[s] = NoPost /\ posts' = [posts EXCEPT ![s] = p]
  /\ overtaken' = overtaken \cup
       IF p.kind \in Issues /\ \E r \in Slot : posts[r].kind \in Issues THEN {"twice"} ELSE {}

\* The client a dialog names: that of the key whose access is edited, else the one selected.
Named == IF dialog.kind = "access" THEN owner[dialog.key] ELSE selected

Submit(s) ==
  /\ area = "clients" /\ Click /\ secret = None
  /\ \/ dialog.kind = "create" /\ \E c \in Client : state[c] = "none" /\
          Send(s, [NoPost EXCEPT !.kind = "create", !.client = c])
     \/ dialog.kind \in {"issue", "rotate", "access"} /\
          Send(s, [NoPost EXCEPT !.kind = dialog.kind, !.client = Named, !.key = dialog.key,
                                 !.from = Named])
  /\ UNCHANGED <<registry, view, dialog, secret, reads, issued, stored>>

\* The keys of the selected client are read afterwards, those of when it was clicked.
Revoke(s, k) ==
  /\ Free /\ InUse /\ keys[k] = "active"
  /\ Send(s, [NoPost EXCEPT !.kind = "revoke", !.client = owner[k], !.key = k, !.from = selected])
  /\ UNCHANGED <<registry, view, dialog, secret, reads, issued, stored>>

Disable(s) ==
  /\ Free /\ InUse /\ clients[selected] = "enabled"
  /\ Send(s, [NoPost EXCEPT !.kind = "disable", !.client = selected])
  /\ UNCHANGED <<registry, view, dialog, secret, reads, issued, stored>>

\* What has changed is read again.
Rereads(p) ==
  /\ keyLists' = keyLists \cup ({p.from} \ {None})
  /\ clientLists' = clientLists \cup (IF p.kind = "create" THEN {p.client}
                                     ELSE IF p.kind = "disable" THEN {None} ELSE {})

\* Whichever dialog of the kind is open by now is closed.
Closes(p) ==
  dialog' = IF dialog.kind = p.kind \/ {dialog.kind, p.kind} \subseteq Issues THEN NoDialog ELSE dialog

\* Mutant: the secret is shown when the keys have been read.
PostAnsweredSilently(s) ==
  LET p == posts[s] IN
  /\ area = "clients" /\ Quiet /\ p.mounted /\ Admissible(p) /\ Served(p) /\ Done(s)
  /\ Closes(p) /\ Rereads(p)
  /\ UNCHANGED <<view, secret, stored, overtaken>>

\* A secret is shown in the place of one that is shown already.
PostAnswered(s) ==
  LET p == posts[s] IN
  /\ area = "clients" /\ Quiet /\ p.mounted /\ Admissible(p) /\ Served(p) /\ Done(s)
  /\ secret' = IF p.kind \in Issues THEN NewKey ELSE secret
  /\ Closes(p) /\ Rereads(p)
  /\ UNCHANGED <<view, stored, overtaken>>

\* Mutant: whether the request was refused is not looked at.
PostFailsUnchecked(s) ==
  LET p == posts[s] IN
  /\ area = "clients" /\ p.mounted /\ p # NoPost /\ Done(s)
  /\ secret' = IF p.kind \in Issues THEN NewKey ELSE secret
  /\ \/ Quiet /\ ~Admissible(p) /\ UNCHANGED <<registry, issued, overtaken>>
     \/ Fault /\ UNCHANGED <<registry, issued, overtaken>>
     \/ Fault /\ Admissible(p) /\ Served(p) /\ overtaken' = overtaken \cup {"lost"}
  /\ UNCHANGED <<view, dialog, reads, stored>>

\* Refused, failed, or performed without an answer.
PostFails(s) ==
  LET p == posts[s] IN
  /\ area = "clients" /\ p.mounted /\ p # NoPost /\ Done(s)
  /\ \/ Quiet /\ ~Admissible(p) /\ UNCHANGED <<registry, issued, overtaken>>
     \/ Fault /\ UNCHANGED <<registry, issued, overtaken>>
     \/ Fault /\ Admissible(p) /\ Served(p) /\ overtaken' = overtaken \cup {"lost"}
  /\ UNCHANGED <<view, dialog, secret, reads, stored>>

Store ==
  /\ area = "clients" /\ Click /\ secret # None /\ stored' = stored \cup {secret} /\ secret' = None
  /\ UNCHANGED <<registry, view, dialog, posts, reads, issued, overtaken>>

\* A client that has just been created is selected whatever is selected or open by now; else
\* one is selected if none is.
ClientsArrive(created) ==
  /\ area = "clients" /\ Quiet /\ created \in clientLists /\ clientLists' = clientLists \ {created}
  /\ clients' = state
  /\ \/ created # None /\ SelectClient(created)
     \/ created = None /\ selected = None /\ \E c \in Client : state[c] # "none" /\ SelectClient(c)
     \/ created = None /\ selected # None /\ SelectClient(selected)
  /\ UNCHANGED <<registry, keys, dialog, secret, posts, history>>

ClientsFail(created) ==
  /\ area = "clients" /\ Fault /\ created \in clientLists /\ clientLists' = clientLists \ {created}
  /\ UNCHANGED <<registry, view, dialog, secret, posts, keyLists, history>>

KeysArrive(c) ==
  /\ area = "clients" /\ Quiet /\ c \in keyLists /\ keyLists' = keyLists \ {c}
  /\ keys' = [k \in Key |-> IF owner[k] # c THEN "none" ELSE IF Live(k) THEN "active" ELSE status[k]]
  /\ UNCHANGED <<registry, clients, selected, dialog, secret, posts, clientLists, history>>

KeysFail(c) ==
  /\ area = "clients" /\ Fault /\ c \in keyLists /\ keyLists' = keyLists \ {c}
  /\ UNCHANGED <<registry, view, dialog, secret, posts, clientLists, history>>
-----------------------------------------------------------------------------
ClientsNext ==
  \/ \E c \in Client : PickClient(c) \/ KeysArrive(c) \/ KeysFail(c)
  \/ \E kind \in Kind, k \in Key \cup {None} : OpenDialog(kind, k)
  \/ Cancel \/ Store
  \/ \E s \in Slot : Submit(s) \/ Disable(s) \/ PostAnswered(s) \/ PostFails(s) \/ PostServedLate(s)
  \/ \E s \in Slot, k \in Key : Revoke(s, k)
  \/ \E c \in Client \cup {None} : ClientsArrive(c) \/ ClientsFail(c)
-----------------------------------------------------------------------------
(* Properties.                                                             *)

\* The plaintext of a key is answered once and cannot be read again: the secret of every
\* key the page has made is shown or was stored by the user, unless a second key was asked
\* for before the first was there (no button is disabled meanwhile, and the second secret
\* takes the place of the first), the answer was lost, or the area was left meanwhile.
SecretsKept == overtaken = {} => issued \subseteq stored \cup {secret}
=============================================================================
