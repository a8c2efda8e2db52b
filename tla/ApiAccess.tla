------------------------------ MODULE ApiAccess ------------------------------
(***************************************************************************)
(* Tokens and one-time identifiers (backend/auth, admin/credentials.py,    *)
(* production/replay.py): the jti of an OAuth assertion or of a request    *)
(* signature is looked up in a cache of the process, then in a table, and  *)
(* inserted; an accepted assertion is exchanged for a token, which revokes *)
(* the earlier ones.  The cache loses ids to its capacity and to restarts, *)
(* the table to a periodic cleanup.  The nonce of a production request has *)
(* a table of its own, which nothing cleans up.                            *)
(***************************************************************************)
EXTENDS OpenRequests, SequencesExt

CONSTANTS
    App,        \* credentials
    Jti,        \* ids of assertions and signatures
    AppOf,      \* the credential a jti was made with
    IsAssertion,\* whether it is in an assertion (or a signature)
    Exp,        \* the exp claim of a jti
    Skew,       \* clock_skew_seconds: exp is verified with this leeway
    Capacity,   \* of the cache
    Nonce, NonceExp,  \* nonces of production requests and their expiry
    TokenId,    \* bound: token rows
    LastTime    \* bound: the clock

\* An id is a jti or a nonce.
ASSUME IdAssumption == Jti \cap Nonce = {}
ASSUME CapacityAssumption == Capacity \in Nat

VARIABLES
    now,        \* the clock
    cache,      \* _LruJtiCache: the ids, oldest first
    rows,       \* JtiRecord rows
    forgotten,  \* history: ids whose row the cleanup has deleted
    accepted,   \* history: how often each jti or nonce was accepted
    nonces,     \* RequestNonce rows
    creds,      \* AppCredential rows
    tokens      \* OAuthToken rows by id: app, and whether it is not revoked

accessVars == <<now, cache, rows, forgotten, accepted, nonces, creds, tokens>>

AccessInit(issued) ==
    /\ now = 0
    /\ cache = <<>> /\ tokens = issued
    /\ rows = {} /\ forgotten = {} /\ nonces = {}
    /\ accepted = [x \in Jti \cup Nonce |-> 0]
    /\ creds = App

Tick ==
    /\ now < LastTime
    /\ now' = now + 1
    /\ UNCHANGED <<requestVars, cache, rows, forgotten, accepted, nonces, creds, tokens>>

\* A cache without its bound.
RememberAll(j) == Append(cache, j)

\* _LruJtiCache.seen() of an id that is not in the cache.
Remember(j) == LET all == Append(cache, j) IN
    IF Len(all) > Capacity THEN Tail(all) ELSE all

LiveTokens(a) == {t \in DOMAIN tokens : tokens[t].app = a /\ tokens[t].live}

\* The claims of an assertion verify, up to its jti: the credential whose key
\* and certificate it was made with is still there, and exp is not long past.
AssertionVerifies(j) ==
    /\ IsAssertion[j]
    /\ AppOf[j] \in creds
    /\ now < Exp[j] + Skew

\* The same of the signature of a request, which has a token as well.
SignatureVerifies(j) ==
    /\ ~IsAssertion[j]
    /\ AppOf[j] \in creds
    /\ LiveTokens(AppOf[j]) # {}
    /\ now < Exp[j] + Skew

(* check_and_record(), for a jti whose token verifies: an id in the cache is
   refused at once; another goes into the cache, and is refused if the table
   has it ... *)
CheckJti(c, j) ==
    /\ AssertionVerifies(j) \/ SignatureVerifies(j)
    /\ ~Contains(cache, j)
    /\ cache' = Remember(j)
    /\ \/ j \in rows /\ AtOnce(c)
       \/ j \notin rows /\ Open(c, [op |-> "jti", jti |-> j])
    /\ UNCHANGED <<now, rows, forgotten, accepted, nonces, creds, tokens>>

\* An insert that no unique key refuses.
RecordAnyJti(c) ==
    LET j == req[c].jti IN
    /\ req[c].op = "jti"
    /\ rows' = rows \cup {j}
    /\ accepted' = [accepted EXCEPT ![j] = @ + 1]
    /\ IF IsAssertion[j] THEN ReadOn(c, [op |-> "accepted", app |-> AppOf[j]]) ELSE Commit(c, TRUE)
    /\ UNCHANGED <<now, cache, forgotten, nonces, creds, tokens>>

(* ... and its insert is committed, unless the unique key refuses it.  The
   request with an assertion goes on to a token, that with a signature to
   whatever it asks for. *)
RecordJti(c) ==
    LET j == req[c].jti IN
    /\ req[c].op = "jti"
    /\ j \notin rows
    /\ rows' = rows \cup {j}
    /\ accepted' = [accepted EXCEPT ![j] = @ + 1]
    /\ IF IsAssertion[j] THEN ReadOn(c, [op |-> "accepted", app |-> AppOf[j]]) ELSE Commit(c, TRUE)
    /\ UNCHANGED <<now, cache, forgotten, nonces, creds, tokens>>

\* cleanup_expired(), hourly: the rows and cached ids whose exp has passed; the
\* other ids stay in the cache, in their order.
CleanUp ==
    LET past == {j \in Jti : Exp[j] < now}
        stays == {i \in DOMAIN cache : cache[i] \notin past} IN
    /\ past \cap (rows \cup Range(cache)) # {}
    /\ rows' = rows \ past
    /\ forgotten' = forgotten \cup (rows \cap past)
    /\ \E kept \in [1 .. Cardinality(stays) -> stays] :
         /\ \A i, k \in DOMAIN kept : i < k => kept[i] < kept[k]
         /\ cache' = [i \in DOMAIN kept |-> cache[kept[i]]]
    /\ UNCHANGED <<requestVars, now, accepted, nonces, creds, tokens>>

\* The process restarts: cache and open requests are gone.
RestartApi ==
    /\ cache # <<>>
    /\ cache' = <<>>
    /\ req' = [c \in Client |-> Idle]
    /\ UNCHANGED <<calls, stale, now, rows, forgotten, accepted, nonces, creds, tokens>>

\* The update of issue_token() left out.
RevokeNothing(a) == {}

\* The rows the update of issue_token() revokes.
ToRevoke(a) == LiveTokens(a)

\* issue_token(): the update revokes the live tokens it sees, and waits for a
\* request that is revoking or deleting the same rows ...
RevokeEarlier(c) ==
    LET a == req[c].app IN
    /\ req[c].op = "accepted"
    /\ \A d \in Client : req[d].op \in {"issuing", "deleting"} => req[d].held \cap LiveTokens(a) = {}
    /\ ReadOn(c, [op |-> "issuing", app |-> a, seen |-> LiveTokens(a), held |-> ToRevoke(a)])
    /\ UNCHANGED accessVars

\* ... and the new token is committed; the credential's row must still be there.
CommitToken(c, t) ==
    LET r == req[c] IN
    /\ r.op = "issuing"
    /\ r.app \in creds
    /\ t \in TokenId \ DOMAIN tokens
    /\ tokens' = Put(OneRow(t, [app |-> r.app, live |-> TRUE]),
                 [u \in DOMAIN tokens |-> IF u \in r.held THEN [tokens[u] EXCEPT !.live = FALSE] ELSE tokens[u]])
    /\ Commit(c, LiveTokens(r.app) \subseteq r.seen)
    /\ UNCHANGED <<now, cache, rows, forgotten, accepted, nonces, creds>>

\* POST /oauth2/revoke, and verify_bearer_token() on a token past its lifetime
RevokeToken(c, t) ==
    /\ AtOnce(c)
    /\ t \in DOMAIN tokens
    /\ \A d \in Client : req[d].op \in {"issuing", "deleting"} => t \notin req[d].held
    /\ tokens' = [tokens EXCEPT ![t].live = FALSE]
    /\ UNCHANGED <<now, cache, rows, forgotten, accepted, nonces, creds>>

\* admin: POST and DELETE of credentials; tokens have no foreign key.
CreateCredential(c, a) ==
    /\ AtOnce(c)
    /\ a \in App \ creds
    /\ creds' = creds \cup {a}
    /\ UNCHANGED <<now, cache, rows, forgotten, accepted, nonces, tokens>>

DeleteTokens(c, a) ==
    /\ a \in creds
    /\ \A d \in Client : req[d].op \in {"issuing", "deleting"} => req[d].app # a
    /\ Open(c, [op |-> "deleting", app |-> a, held |-> {t \in DOMAIN tokens : tokens[t].app = a}])
    /\ UNCHANGED accessVars

CommitDelete(c) ==
    LET r == req[c] IN
    /\ r.op = "deleting"
    /\ creds' = creds \ {r.app}
    /\ tokens' = [t \in DOMAIN tokens \ r.held |-> tokens[t]]
    /\ Commit(c, LiveTokens(r.app) \subseteq r.held)
    /\ UNCHANGED <<now, cache, rows, forgotten, accepted, nonces>>

(* NonceReplayStore.consume(), before a production request with a signature:
   the unique key makes a second insert wait and fail. *)
InsertNonce(c, n) ==
    /\ now < NonceExp[n]
    /\ n \notin nonces
    /\ \A d \in Client : req[d].op = "nonce" => req[d].nonce # n
    /\ Open(c, [op |-> "nonce", nonce |-> n])
    /\ UNCHANGED accessVars

CommitNonce(c) ==
    /\ req[c].op = "nonce"
    /\ nonces' = nonces \cup {req[c].nonce}
    /\ accepted' = [accepted EXCEPT ![req[c].nonce] = @ + 1]
    /\ Commit(c, TRUE)
    /\ UNCHANGED <<now, cache, rows, forgotten, creds, tokens>>

RollBackAccess(c) ==
    /\ req[c].op \in {"jti", "accepted", "issuing", "deleting", "nonce"}
    /\ RollBack(c)
    /\ UNCHANGED accessVars

AccessNext ==
    \/ Tick \/ CleanUp \/ RestartApi
    \/ \E c \in Client :
         \/ \E j \in Jti : CheckJti(c, j)
         \/ RecordJti(c)
         \/ RevokeEarlier(c)
         \/ \E t \in TokenId : CommitToken(c, t) \/ RevokeToken(c, t)
         \/ \E a \in App : CreateCredential(c, a) \/ DeleteTokens(c, a)
         \/ CommitDelete(c)
         \/ \E n \in Nonce : InsertNonce(c, n)
         \/ CommitNonce(c)
         \/ RollBackAccess(c)
-----------------------------------------------------------------------------
JtiRows == SUBSET Jti
NonceRows == SUBSET Nonce
CredentialRows == SUBSET App
TokenRow == [app : App, live : BOOLEAN]
JtiCache == {s \in Seq(Jti) : Len(s) <= Capacity}

AccessTypeOK ==
    /\ cache \in JtiCache
    /\ rows \in JtiRows /\ forgotten \in JtiRows
    /\ nonces \in NonceRows
    /\ creds \in CredentialRows
    /\ \A t \in DOMAIN tokens : t \in TokenId /\ tokens[t] \in TokenRow

(* jti_store.py, check_and_record(): an id is accepted at most once while the
   table keeps its row, although the cache loses ids to its capacity and to
   restarts and the check of the table is not atomic with the insert; a row is
   never there without its acceptance.  A nonce is accepted at most once. *)
IdAcceptedOnce ==
    /\ \A j \in Jti \ forgotten : accepted[j] = IF j \in rows THEN 1 ELSE 0
    /\ \A n \in Nonce : accepted[n] = IF n \in nonces THEN 1 ELSE 0

(* oauth.py, issue_token(): unless two requests for tokens of a credential
   overlap, it has at most one token that is not revoked. *)
OneLiveToken == ~stale => \A a \in App : Cardinality(LiveTokens(a)) <= 1
=============================================================================
