------------------------------- MODULE Access -------------------------------
(***************************************************************************)
(* Keys of the MCP server and the OAuth flow that hands them out:          *)
(* registration of clients, authorization codes, the exchange of a code    *)
(* for a key, and the revocation of keys.  Requests overlap on the tables  *)
(* oauth_clients, oauth_codes and api_keys; each statement is atomic and    *)
(* no transaction joins two of them.                                       *)
(***************************************************************************)
EXTENDS Naturals, FiniteSets

CONSTANTS
  Clients,    \* client ids, random and never reused
  Codes,      \* authorization codes, random and never reused
  Keys,       \* API keys, random and never reused
  Uris,       \* redirect URIs: [scheme, host, port, path]
  Registered, \* Registered[c]: the redirect URIs client c asks for
  Verifiers,  \* PKCE verifiers; a challenge is the verifier it came from
  Resources,  \* values of the parameter resource
  Resource,   \* the resource of this server
  NoResource, \* the parameter left out
  Requests,   \* requests served at the same time
  None,
  MaxFaults   \* bound on failed statements and dead requests

VARIABLES
  client, \* client[c]: the row of oauth_clients, by what the code reads of it
  code,   \* code[d]: the row of oauth_codes
  row,    \* row[d]: the columns of the code, once it was drafted
  key,    \* key[k]: the row of api_keys
  grant,  \* grant[k]: ghost, the code whose exchange minted k
  pc,     \* pc[q]: the statement request q executes next
  on,     \* on[q]: the code q works on
  minted, \* minted[q]: the key q has issued and not answered yet
  held,   \* keys whose secret reached the caller
  faults

tables   == <<client, code, row, key>>
requests == <<pc, on, minted>>
vars == <<client, code, row, key, grant, pc, on, minted, held, faults>>

\* A client is "fresh" or "old" (registered a week ago) until it exchanges a
\* code, then "used"; "gone" once deleted.
ClientStates == {"none", "fresh", "old", "used", "gone"}
Known(c) == client[c] \in {"fresh", "old", "used"}

\* A code is "draft" in a request, "live" or "expired" in the table, and "gone"
\* after it was taken or deleted.
CodeStates == {"none", "draft", "live", "expired", "gone"}
Stored(d) == code[d] \in {"live", "expired"}

Columns == [client: Clients, uri: Uris, challenge: Verifiers,
            resource: {NoResource, Resource}]

Steps == {"idle", "insertClient", "purgeCodes", "insertCode", "issue", "markUsed"}

WebOnlySchemes == {"javascript", "data", "file", "mailto", "intent"}
Loopback == {"localhost", "127.0.0.1", "[::1]"}

\* NewOAuthClient accepts from one to five addresses, each valid.
ValidRedirectURI(u) ==
  \/ u.scheme = "https" /\ u.host # ""
  \/ u.scheme = "http" /\ u.host \in Loopback
  \/ u.scheme \notin {"https", "http"} \union WebOnlySchemes

Registrable(S) == Cardinality(S) \in 1..5 /\ \A u \in S : ValidRedirectURI(u)

\* A loopback address matches whatever its port.
SameLoopbackURI(u, v) ==
  /\ u.scheme = "http" /\ v.scheme = "http" /\ u.host \in Loopback
  /\ u.host = v.host /\ u.path = v.path

Allows(c, uri) ==
  \E u \in Registered[c] : u = uri \/ SameLoopbackURI(u, uri)

ValidTarget(r) == r \in {NoResource, Resource}

Init ==
  /\ client = [c \in Clients |-> "none"]
  /\ code = [d \in Codes |-> "none"]
  /\ row = [d \in Codes |-> None]
  /\ key = [k \in Keys |-> "none"]
  /\ grant = [k \in Keys |-> None]
  /\ pc = [q \in Requests |-> "idle"]
  /\ on = [q \in Requests |-> None]
  /\ minted = [q \in Requests |-> None]
  /\ held = {}
  /\ faults = 0

GoTo(q, step, d, k) ==
  /\ pc' = [pc EXCEPT ![q] = step]
  /\ on' = [on EXCEPT ![q] = d]
  /\ minted' = [minted EXCEPT ![q] = k]

Answer(q) == GoTo(q, "idle", None, None)

-----------------------------------------------------------------------------

\* Mutant: the codes of a deleted client stay.
PurgeClientsOnly ==
  /\ client' = [c \in Clients |-> IF client[c] = "old" THEN "gone" ELSE client[c]]
  /\ UNCHANGED code

\* DELETE FROM oauth_clients of those a week old that exchanged nothing; the
\* foreign key deletes their codes with them.
PurgeClients ==
  /\ client' = [c \in Clients |-> IF client[c] = "old" THEN "gone" ELSE client[c]]
  /\ code' = [d \in Codes |->
       IF Stored(d) /\ client[row[d].client] = "old" THEN "gone" ELSE code[d]]

\* CreateClient of a request whose metadata passed NewOAuthClient.
Register(q) ==
  /\ pc[q] = "idle"
  /\ \E c \in Clients : client[c] = "none" /\ Registrable(Registered[c])
  /\ PurgeClients
  /\ GoTo(q, "insertClient", None, None)
  /\ UNCHANGED <<row, key, grant, held, faults>>

InsertClient(q, c) ==
  /\ pc[q] = "insertClient"
  /\ client[c] = "none" /\ Registrable(Registered[c])
  /\ client' = [client EXCEPT ![c] = "fresh"]
  /\ Answer(q)
  /\ UNCHANGED <<code, row, key, grant, held, faults>>

\* A week goes by.
Age(c) ==
  /\ client[c] = "fresh"
  /\ client' = [client EXCEPT ![c] = "old"]
  /\ UNCHANGED <<code, row, key, grant, requests, held, faults>>

-----------------------------------------------------------------------------
\* CheckAuthorization: the client is read, its address and the resource checked.
CheckAuthorization(c, r) ==
  /\ Known(c)
  /\ Allows(c, r.uri)
  /\ ValidTarget(r.resource)

\* The click on "Autorizar": a code is drawn for the request of the form.
Authorize(q, d, r) ==
  /\ pc[q] = "idle"
  /\ code[d] = "none"
  /\ CheckAuthorization(r.client, r)
  /\ code' = [code EXCEPT ![d] = "draft"]
  /\ row' = [row EXCEPT ![d] = r]
  /\ GoTo(q, "purgeCodes", d, None)
  /\ UNCHANGED <<client, key, grant, held, faults>>

PurgeCodes(q) ==
  /\ pc[q] = "purgeCodes"
  /\ code' = [d \in Codes |-> IF code[d] = "expired" THEN "gone" ELSE code[d]]
  /\ GoTo(q, "insertCode", on[q], None)
  /\ UNCHANGED <<client, row, key, grant, held, faults>>

\* The foreign key refuses the code of a client deleted meanwhile.
InsertCode(q) ==
  /\ pc[q] = "insertCode"
  /\ code' = [code EXCEPT ![on[q]] = IF Known(row[on[q]].client) THEN "live" ELSE "gone"]
  /\ Answer(q)
  /\ UNCHANGED <<client, row, key, grant, held, faults>>

\* Ten minutes go by.
Expire(d) ==
  /\ code[d] = "live"
  /\ code' = [code EXCEPT ![d] = "expired"]
  /\ UNCHANGED <<client, row, key, grant, requests, held, faults>>

-----------------------------------------------------------------------------
\* Mutant: the code is read and not deleted.
TakeCodeAndKeep(d) == UNCHANGED code

\* DELETE FROM oauth_codes WHERE code_hash RETURNING.
TakeCode(d) == code' = [code EXCEPT ![d] = "gone"]

\* What Exchange compares with the row it took.
Matches(d, r) ==
  /\ code[d] = "live"
  /\ row[d].client = r.client /\ row[d].uri = r.uri
  /\ row[d].challenge = r.verifier
  /\ r.resource # NoResource =>
       /\ r.resource = Resource
       /\ row[d].resource # NoResource => r.resource = row[d].resource

\* The code is gone even if the request does not match it.
Exchange(q, d, r) ==
  /\ pc[q] = "idle"
  /\ Stored(d)
  /\ TakeCode(d)
  /\ IF Matches(d, r) THEN GoTo(q, "issue", d, None) ELSE Answer(q)
  /\ UNCHANGED <<client, row, key, grant, held, faults>>

Issue(q, k) ==
  /\ pc[q] = "issue"
  /\ key[k] = "none"
  /\ key' = [key EXCEPT ![k] = "active"]
  /\ grant' = [grant EXCEPT ![k] = on[q]]
  /\ GoTo(q, "markUsed", on[q], k)
  /\ UNCHANGED <<client, code, row, held, faults>>

\* UPDATE oauth_clients SET last_used_at WHERE id: no row is no error.
MarkClientUsed(c) ==
  client' = [client EXCEPT ![c] = IF Known(c) THEN "used" ELSE @]

\* The token goes out only after the client is marked.
MarkUsed(q) ==
  /\ pc[q] = "markUsed"
  /\ MarkClientUsed(row[on[q]].client)
  /\ held' = held \union {minted[q]}
  /\ Answer(q)
  /\ UNCHANGED <<code, row, key, grant, faults>>

\* The form of the site issues a key without a code.
IssueDirect(k) ==
  /\ key[k] = "none"
  /\ key' = [key EXCEPT ![k] = "active"]
  /\ held' = held \union {k}
  /\ UNCHANGED <<client, code, row, grant, requests, faults>>

\* By its holder, or by prefix from the command line.
Revoke(k) ==
  /\ key[k] = "active"
  /\ key' = [key EXCEPT ![k] = "revoked"]
  /\ UNCHANGED <<client, code, row, grant, requests, held, faults>>

\* A statement fails, its effect done or not, or the request dies.
Fail(q) ==
  /\ pc[q] # "idle"
  /\ faults < MaxFaults /\ faults' = faults + 1
  /\ \/ pc[q] \in {"purgeCodes", "insertCode"}
          /\ code' = [code EXCEPT ![on[q]] = "gone"] /\ UNCHANGED <<client, key, grant>>
     \/ pc[q] = "insertCode" /\ Known(row[on[q]].client)
          /\ code' = [code EXCEPT ![on[q]] = "live"] /\ UNCHANGED <<client, key, grant>>
     \/ pc[q] \in {"insertClient", "issue", "markUsed"} /\ UNCHANGED <<client, code, key, grant>>
     \/ pc[q] = "issue" /\ \E k \in Keys :
          /\ key[k] = "none"
          /\ key' = [key EXCEPT ![k] = "active"]
          /\ grant' = [grant EXCEPT ![k] = on[q]]
          /\ UNCHANGED <<client, code>>
     \/ pc[q] = "markUsed" /\ MarkClientUsed(row[on[q]].client) /\ UNCHANGED <<code, key, grant>>
  /\ Answer(q)
  /\ UNCHANGED <<row, held>>

ExchangeRequests == [client: Clients, uri: Uris, verifier: Verifiers, resource: Resources]

Next ==
  \/ \E q \in Requests :
       \/ Register(q)
       \/ \E c \in Clients : InsertClient(q, c)
       \/ \E d \in Codes, r \in Columns : Authorize(q, d, r)
       \/ PurgeCodes(q) \/ InsertCode(q)
       \/ \E d \in Codes, r \in ExchangeRequests : Exchange(q, d, r)
       \/ \E k \in Keys : Issue(q, k)
       \/ MarkUsed(q)
       \/ Fail(q)
  \/ \E c \in Clients : Age(c)
  \/ \E d \in Codes : Expire(d)
  \/ \E k \in Keys : IssueDirect(k) \/ Revoke(k)

Spec == Init /\ [][Next]_vars

-----------------------------------------------------------------------------
\* The variables hold values of the kinds the code gives them.
TypeOK ==
  /\ client \in [Clients -> ClientStates]
  /\ code \in [Codes -> CodeStates]
  /\ row \in [Codes -> Columns \union {None}]
  /\ key \in [Keys -> {"none", "active", "revoked"}]
  /\ grant \in [Keys -> Codes \union {None}]
  /\ pc \in [Requests -> Steps]
  /\ on \in [Requests -> Codes \union {None}]
  /\ minted \in [Requests -> Keys \union {None}]
  /\ held \subseteq Keys
  /\ faults \in Nat

\* A code is worth at most one key, however exchanges of it overlap and fail:
\* TakeCode deletes what it reads.
OneKeyPerCode ==
  \A k1, k2 \in Keys : grant[k1] # None /\ grant[k1] = grant[k2] => k1 = k2

\* Every key that came from a code was consented for an address its client had
\* registered (loopback ports aside), and the code is spent.
KeyWasConsented ==
  \A k \in Keys : grant[k] # None =>
    LET r == row[grant[k]] IN
    /\ code[grant[k]] = "gone"
    /\ \E u \in Registered[r.client] :
         \/ u = r.uri
         \/ u.scheme = "http" /\ u.host \in Loopback /\ [u EXCEPT !.port = r.uri.port] = r.uri

\* A code in the table always belongs to a client that is still registered,
\* whatever purge runs between its check and its INSERT.
CodeHasClient == \A d \in Codes : Stored(d) => Known(row[d].client)

UsedClientsStay == \A c \in Clients : client[c] = "used" => client'[c] = "used"

\* Nothing removes the registration of a client once its exchange was marked.
UsedClientStays == [][UsedClientsStay]_vars

\* Only clients that never exchanged a code are removed: one that was answered
\* with a key is still registered.
ExchangedClientStays ==
  \A k \in held : grant[k] # None => Known(row[grant[k]].client)

\* Exchange implements a one-time grant: it is open from the INSERT of the code
\* until its key is issued or the code is lost.
Redeeming(d) == \E q \in Requests : pc[q] = "issue" /\ on[q] = d

GrantState ==
  [d \in Codes |->
     IF Stored(d) \/ Redeeming(d) THEN "open"
     ELSE IF code[d] \in {"none", "draft"} THEN "new" ELSE "over"]

GrantKey ==
  [d \in Codes |->
     IF \E k \in Keys : grant[k] = d THEN CHOOSE k \in Keys : grant[k] = d ELSE None]

Grant == INSTANCE OneTimeGrant WITH Grants <- Codes, state <- GrantState, key <- GrantKey

\* The exchange of codes is a one-time grant.
ImplementsGrant == Grant!Spec
=============================================================================
